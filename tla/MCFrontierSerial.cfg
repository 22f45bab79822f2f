SPECIFICATION SerialSpec
CONSTANTS
    a = a
    b = b
    a1 = a1
    a2 = a2
    b1 = b1
    s1 = s1
    s2 = s2
    End = End
    Slots <- MCSlots
    Urls <- MCUrls
    Hosts <- MCHosts
    HostOf <- MCHostOf
    MaxQueues = 2
    MaxRows = 2
    MaxReplies = 2
    MaxRestarts = 1
    SqlFaults = FALSE
    PoolSplits = FALSE
SYMMETRY SlotSymmetry
INVARIANTS
    TypeOK
    SerialInv
    OneLeasePerHost
PROPERTIES
    RemovedOnlyWhenDrained
    ImplementsWorkList
