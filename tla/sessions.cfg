CONSTANTS
  a1 = a1 a2 = a2
  Agents = {a1, a2}
  CodeTTL = 1
  TokenTTL = 1
  MaxPairingAttempts = 2
  MaxTime = 3
  MaxCodes = 3
  MaxCrashes = 1
  MaxFaults = 1
SPECIFICATION Spec
CHECK_DEADLOCK FALSE
SYMMETRY Symmetry
INVARIANTS CodeOpensOne GuessesBounded TokensHaveSessions RowsMirror IdleTokensExpire RevocationHolds
