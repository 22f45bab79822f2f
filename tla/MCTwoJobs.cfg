SPECIFICATION SystemSpec
CONSTANTS
    a = a
    b = b
    a1 = a1
    a2 = a2
    a3 = a3
    b1 = b1
    c1 = c1
    c2 = c2
    j1 = j1
    j2 = j2
    s1 = s1
    s2 = s2
    p1 = p1
    p2 = p2
    End = End
    NoPage = NoPage
    Urls <- SameUrls
    Hosts <- SameHosts
    HostOf <- SameHostOf
    Crawlers <- Two
    Seed <- SameSeeds
    Jobs <- TwoJobs
    Job <- OwnJob
    Links <- SameSite
    Slots <- MCSlots
    SaveSlots <- MCSaveSlots
    MaxQueues = 2
    MaxRows = 2
    MaxReplies = 4
    MaxRestarts = 0
    SqlFaults = FALSE
    PoolSplits = FALSE
    ScriptMayFail = FALSE
    NavMayFail = TRUE
SYMMETRY SameSymmetry
INVARIANTS
    VisitedPageNotLost
CHECK_DEADLOCK FALSE
