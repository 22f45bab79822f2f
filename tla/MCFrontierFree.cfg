SPECIFICATION Spec
CONSTANTS
    a = a
    b = b
    a1 = a1
    a2 = a2
    b1 = b1
    s1 = s1
    s2 = s2
    End = End
    Slots <- MCSlots
    Urls <- OneUrls
    Hosts <- OneHost
    HostOf <- OneHostOf
    MaxQueues = 2
    MaxRows = 2
    MaxReplies = 1
    MaxRestarts = 1
    SqlFaults = TRUE
    PoolSplits = TRUE
SYMMETRY Symmetry
INVARIANTS
    NoOrphanRows
PROPERTIES
    LeavesRecorded
CHECK_DEADLOCK FALSE
