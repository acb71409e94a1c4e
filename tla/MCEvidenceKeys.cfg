SPECIFICATION Spec
CONSTANTS
  Procs = {"p1", "p2"}
  Plans = {"r1", "r2"}
  MaxIds = 4
  MaxFaults = 3
INVARIANTS
    ArtifactsVerify
    NeverStranded
    SplitIsAttributed
PROPERTIES
    MalformedBytesKept
CHECK_DEADLOCK FALSE
