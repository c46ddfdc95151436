CONSTANTS
  r1 = r1 k1 = k1 k2 = k2
  Requests = {r1}
  CmdRequests = {r1}
  StdinRequests = {r1}
  Killers = {k1, k2}
  LocalActions = {"DENY", "ALLOW_ONCE"}
  MaxConcurrency = 1
  MaxLoad = 1
  MaxCrashes = 0
  MaxFaults = 0
SPECIFICATION FairSpec
CHECK_DEADLOCK FALSE
PROPERTY ApprovedFinishes
