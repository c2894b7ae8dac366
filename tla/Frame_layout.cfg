SPECIFICATION Spec
CONSTANTS
  Names = {a, b, c}
  Bytes = {1, 8}
  MaxParams = 1
  MaxMethods = 2
SYMMETRY Symmetry
CHECK_DEADLOCK FALSE
INVARIANTS TypeOK OwnSlotsApart AccessInSlot
PROPERTY SlotsStay
