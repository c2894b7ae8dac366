SPECIFICATION Spec
CONSTANTS
  Users = {a}
  Temps = {t, u}
  Val = {v0, v1}
  Zero = v0
  Int8 = {k}
  Int16 = {}
  Int32 = {}
  Means <- MCMeans
  Ret = Ret
  None = None
  Marks <- MCMarks
  NumRegs = 3
  MaxArgs = 2
  MaxNest = 1
  Features = {"if"}
SYMMETRY Symmetry
CHECK_DEADLOCK FALSE
INVARIANT OperandsFresh
