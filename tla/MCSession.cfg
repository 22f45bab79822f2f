SPECIFICATION SystemSpec
CONSTANTS
    a = a
    b = b
    a1 = a1
    a2 = a2
    a3 = a3
    b1 = b1
    c1 = c1
    c2 = c2
    j1 = j1
    j2 = j2
    s1 = s1
    s2 = s2
    p1 = p1
    p2 = p2
    End = End
    NoPage = NoPage
    Urls <- BUrls
    Hosts <- AHosts
    HostOf <- BHostOf
    Crawlers <- Two
    Seed <- TwoSeeds
    Jobs <- MCJobs
    Job <- TwoJob
    Links <- TwoSites
    Slots = {1, 2}
    SaveSlots = {1, 2}
    MaxQueues = 4
    MaxRows = 4
    MaxReplies = 4
    MaxRestarts = 0
    SqlFaults = FALSE
    PoolSplits = FALSE
    ScriptMayFail = FALSE
    NavMayFail = FALSE
INVARIANTS
    PageStoredUnderItsOwnUrl
CHECK_DEADLOCK FALSE
