SPECIFICATION FairSpec
CONSTANTS
  MaxTokens = 4
  MaxOps = 5
  MaxFaults = 2
  MaxImports = 1
INVARIANTS
    LiveTokensAreFenced
    ActiveIsUsable
    UnknownPredecessorKept
PROPERTIES
    ImportSurvives
    PendingIsReconciled
CHECK_DEADLOCK FALSE
