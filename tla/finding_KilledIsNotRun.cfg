CONSTANTS
  r1 = r1 k1 = k1
  Requests = {r1}
  CmdRequests = {r1}
  StdinRequests = {}
  Killers = {k1}
  LocalActions = {"ALLOW_ONCE"}
  MaxConcurrency = 1
  MaxLoad = 1
  MaxCrashes = 0
  MaxFaults = 0
SPECIFICATION Spec
CHECK_DEADLOCK FALSE
PROPERTY KilledIsNotRun
