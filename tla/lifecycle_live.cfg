CONSTANTS
  r1 = r1 r2 = r2
  Requests = {r1, r2}
  CmdRequests = {r1}
  StdinRequests = {r1}
  Killers = {}
  LocalActions = {"DENY", "ALLOW_ONCE"}
  MaxConcurrency = 1
  MaxLoad = 1
  MaxCrashes = 1
  MaxFaults = 0
SPECIFICATION FairSpec
CHECK_DEADLOCK FALSE
INVARIANT SettledAgreement
PROPERTY ApprovedFinishes
