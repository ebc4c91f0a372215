CONSTANTS
    Workers = {w1, w2, w3}
    Capacity = 2
    Ttl = 4
    Timeout = 3
    MaxLag = 2
SPECIFICATION FairSpec
INVARIANTS TypeOK LicenceWithinLag
PROPERTIES RefusedOnlyWhenSpent AcquireEnds
