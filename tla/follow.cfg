CONSTANTS
  Exits = {0, 3}
  Kinds = {"open"}
  Children = {"deaf", "apart"}
  MaxOut = 1
  LiveMax = 1
SPECIFICATION FairSpec
CHECK_DEADLOCK FALSE
INVARIANT ExitAgrees
PROPERTY WaitEnds
