CONSTANTS
  r1 = r1 r2 = r2 k1 = k1 k2 = k2
  Requests = {r1, r2}
  CmdRequests = {r1, r2}
  StdinRequests = {r1, r2}
  Killers = {k1, k2}
  LocalActions = {"DENY", "ALLOW_ONCE"}
  MaxConcurrency = 1
  MaxLoad = 1
  MaxCrashes = 2
  MaxFaults = 1
SPECIFICATION Spec
CHECK_DEADLOCK FALSE
SYMMETRY Symmetry
CONSTRAINT AloneOrUndisturbed
INVARIANTS SlotBound NoOrphanRunning DoneIsTerminal AtMostOneStart StartedOnlyIfAllowed DecisionAgreement
PROPERTY GateSpec
