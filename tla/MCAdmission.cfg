SPECIFICATION FairSpec
CONSTANTS
    r1 = r1
    r2 = r2
    r3 = r3
    a = a
    b = b
    c = c
    Requests = {r1, r2, r3}
    Sites = {a, b, c}
    Docs <- MCDocs
    Indexed = {c}
    MaxFailures = 1
INVARIANTS
    NoIndexedSiteCrawled
    ListsAccounted
PROPERTIES
    FirstConsumerAnswered
    SomeCrawlStarts
CHECK_DEADLOCK FALSE
