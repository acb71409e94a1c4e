SPECIFICATION FairSpec
CONSTANTS
  Root = root
  Children = {c1, c2}
  Lanes = {"reviewed", "m0142"}
  MaxPolls = 2
  MaxProofs = 2
  MaxCrashes = 2
INVARIANTS
    NoReplay
    OneContinuation
    TerminalIsTrue
PROPERTIES
    ReviewedImportCloses
CHECK_DEADLOCK FALSE
