CONSTANTS
    m1 = m1
    d1 = d1
    Op = {m1, d1}
    Mints = {m1}
    NoOp = NoOp
    ForeignToken = ForeignToken
    MaxRunsPerDay = 2
    Day = 1
    ExpiresAt = 1
    MaxTime = 2
    MaxFaults = 2
SPECIFICATION FairSpec
PROPERTIES
    LineageRecovers
