SPECIFICATION FairSpec
CONSTANTS
    MSS = 2
    Lengths = {0, 1, 2, 3, 4, 5}
    ChunkSize = 2
    MaxTokenCount = 2
    Searches <- MCSearches
    Slack = 1
    Unread = Unread
INVARIANTS
    JoinedIsCut
    SegmentsInOrder
    PanicsOnlyBeyondOneChunk
    SmallRankingExact
    FirstChunkRated
    TokensAreTheQuery
PROPERTIES
    RankingEnds
CHECK_DEADLOCK FALSE
