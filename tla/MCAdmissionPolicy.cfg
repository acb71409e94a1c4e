CONSTANTS
    b1 = b1
    b2 = b2
    b3 = b3
    Bundle = {b1, b2}
    NoBundle = NoBundle
    a1 = a1
    a2 = a2
    Admin = {a1, a2}
    Nobody = Nobody
    q1 = q1
    q2 = q2
    Plan = {q1, q2}
    MaxInterrupts = 2
SPECIFICATION Spec
SYMMETRY AdmissionSymmetry
INVARIANTS
    PointerSelectsActive
    ConsumedUnderSelectedPolicy
    DecisionKeepsFloor
CHECK_DEADLOCK FALSE
