\* Every kind of statement, on fewer registers than the methods need.
SPECIFICATION Spec
CONSTANTS
  Users = {a}
  Temps = {t}
  Val = {v0, v1}
  Zero = v0
  Int8 = {k}
  Int16 = {}
  Int32 = {w}
  Means <- MCMeans
  Ret = Ret
  None = None
  Marks <- MCMarks
  NumRegs = 2
  MaxArgs = 2
  MaxNest = 1
  Features = {"if", "spill", "retInMir3", "earlyReturn"}

INVARIANTS TypeOK UniqueNames CoherentRegs
