CONSTANTS
  Exits = {0}
  Kinds = {"open", "close"}
  Children = {"deaf", "apart"}
  MaxOut = 3
  LiveMax = 2
SPECIFICATION Spec
CHECK_DEADLOCK FALSE
INVARIANTS TypeOK OutputInOrder
