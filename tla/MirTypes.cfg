CONSTANTS
  VarNames = {a}
  MethodNames = {f, g}
  Types = {"INT8"}
  None = None
  MaxTemps = 4
  MaxOpen = 6
SYMMETRY Symmetry
SPECIFICATION Spec
INVARIANTS TypeOK ResultOfItsOwnCall CrashesOnlyOn ParamsKeepTypes
PROPERTY TypesStay
CHECK_DEADLOCK FALSE
