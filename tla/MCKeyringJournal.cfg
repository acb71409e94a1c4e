SPECIFICATION Spec
CONSTANTS
  None = None
  Values = {"s1", "s2"}
  MaxGen = 3
  N = 1
  Superseded = TRUE
  MaxFaults = 1
INVARIANT JournalIsInert
CHECK_DEADLOCK FALSE
