CONSTANTS
  r1 = r1 r2 = r2 p1 = p1 p2 = p2 NoRule = NoRule
  Rules = {r1, r2}
  Presets = {p1, p2}
  MayFail = TRUE
SPECIFICATION Spec
CHECK_DEADLOCK FALSE
SYMMETRY Symmetry
INVARIANTS GrantedFirst LiveAgrees
