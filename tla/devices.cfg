CONSTANTS
  d1 = d1 g1 = g1 g2 = g2 h1 = h1 h2 = h2 h3 = h3 c1 = c1 c2 = c2 NoKey = NoKey
  Devices = {d1}
  Generations = {g1, g2}
  Modern = {g1}
  Challenges = {h1, h2, h3}
  Calls = {c1, c2}
  MaxTokens = 2
  MayFail = TRUE
SPECIFICATION Spec
CHECK_DEADLOCK FALSE
SYMMETRY Symmetry
INVARIANTS TypeOK ChallengeOnce RetiredTokenRefused MintedStaysValid RevokedStaysSilent
