SPECIFICATION Spec
CONSTANTS
  Names = {a, b, c}
  Bytes = {1, 8}
  MaxParams = 2
  MaxMethods = 2
SYMMETRY Symmetry
CHECK_DEADLOCK FALSE
INVARIANT SlotsApart
