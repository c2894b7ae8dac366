CONSTANTS
  Addr = {a1, a2, a3}
  None = None
  MaxNodes = 4
SYMMETRY Symmetry
SPECIFICATION Spec
INVARIANTS TypeOK NothingUndefined KeptAlive
PROPERTY KeepsSpaces
CHECK_DEADLOCK FALSE
