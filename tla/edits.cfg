CONSTANTS
  p1 = p1 p2 = p2 c1 = c1 c2 = c2 c3 = c3
  Missing = Missing
  Patches = {p1, p2}
  Sets = {c1, c2, c3}
  Creates = {c2, c3}
  Strict = {c2}
  Unbacked = {c3}
  MaxSeconds = 2
  MaxCrashes = 1
SPECIFICATION Spec
CHECK_DEADLOCK FALSE
SYMMETRY Symmetry
CONSTRAINT SomeAtOnce
INVARIANTS CutShortByPatchesOnly BackupHoldsOriginal
PROPERTY CreateNeverReplaces
