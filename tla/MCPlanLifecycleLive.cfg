CONSTANTS
    p1 = p1
    p2 = p2
    Proc = {p1, p2}
    NoOwner = NoOwner
    LockTtl = 1
    PartialRecordTtl = 0
    MaxFaults = 0
    MaxCrossings = 1
SPECIFICATION FairSpec
CONSTRAINT LockIntact
PROPERTIES
    CrossingResolves
