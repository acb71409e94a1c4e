CONSTANTS
    m1 = m1
    m2 = m2
    d1 = d1
    Op = {m1, m2, d1}
    Mints = {m1, m2}
    NoOp = NoOp
    ForeignToken = ForeignToken
    MaxRunsPerDay = 1
    Day = 1
    ExpiresAt = 2
    MaxTime = 3
    MaxFaults = 1
SPECIFICATION Spec
SYMMETRY MintSymmetry
INVARIANTS
    CrossingIsAccounted
    RollingBudget
    LineageBound
PROPERTIES
    NoLostUpdate
