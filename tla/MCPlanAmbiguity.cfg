CONSTANTS
    p1 = p1
    Proc = {p1}
    NoOwner = NoOwner
    LockTtl = 1
    PartialRecordTtl = 0
    MaxFaults = 1
    MaxCrossings = 2
SPECIFICATION Spec
INVARIANT AmbiguityIsRectifiable
