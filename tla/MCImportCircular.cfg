SPECIFICATION FairSpec
CONSTANTS
  Root = root
  Children = {c1}
  Lanes = {"m0143"}
  MaxPolls = 1
  MaxProofs = 2
  MaxCrashes = 0
PROPERTY PrintedNextStepCloses
CHECK_DEADLOCK FALSE
