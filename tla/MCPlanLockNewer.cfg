CONSTANTS
    p1 = p1
    p2 = p2
    p3 = p3
    Proc = {p1, p2, p3}
    NoOwner = NoOwner
    LockTtl = 2
    PartialRecordTtl = 1
    MaxFaults = 0
SPECIFICATION LockSpec
PROPERTY NewerLockKept
