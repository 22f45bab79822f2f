SPECIFICATION FairSystemSpec
CONSTANTS
    a = a
    b = b
    a1 = a1
    a2 = a2
    a3 = a3
    b1 = b1
    c1 = c1
    c2 = c2
    j1 = j1
    j2 = j2
    s1 = s1
    s2 = s2
    p1 = p1
    p2 = p2
    End = End
    NoPage = NoPage
    Urls <- AUrls
    Hosts <- AHosts
    HostOf <- AHostOf
    Crawlers <- One
    Seed <- OneSeed
    Jobs <- MCJobs
    Job <- OneJob
    Links <- Site
    Slots = {1, 2}
    SaveSlots = {1, 2}
    MaxQueues = 4
    MaxRows = 4
    MaxReplies = 4
    MaxRestarts = 2
    SqlFaults = FALSE
    PoolSplits = TRUE
    ScriptMayFail = TRUE
    NavMayFail = TRUE
INVARIANTS
    OneToken
    VisitedNeverRequeued
    VisitedPageNotLost
    EachStopLosesTwo
    OnlyLastPageDropped
PROPERTIES
    CrawlerAsksSerially
    ThrowsOnlyOnCollision
    EveryRequestAnswered
    QueuedUrlsAreTaken
    CrawlCompletes
