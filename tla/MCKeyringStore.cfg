SPECIFICATION Spec
CONSTANTS
  None = None
  Values = {"s1", "s2"}
  MaxGen = 3
  N = 1
  Superseded = TRUE
  MaxFaults = 2
INVARIANTS
    NothingStranded
    RetrySucceeds
    ReadIsCurrent
PROPERTIES
    ImplementsAtomicSecret
CHECK_DEADLOCK FALSE
