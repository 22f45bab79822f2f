SPECIFICATION FairSpec
CONSTANTS
    r1 = r1
    r2 = r2
    None = None
    Null = Null
    Requests <- MCRequests
    Segs <- MCSegs
    DbSegs = 2
    Capacity = 3
    Prefetch = 5
INVARIANTS
    OwnAnswer
    NothingLeftOver
    EngineNeverPanics
PROPERTIES
    OnlyNullOverwritten
    SearchEnds
    EveryQueryRanked
CHECK_DEADLOCK FALSE
