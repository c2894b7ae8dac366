CONSTANTS
  Programs <- MCPrograms
  Statements <- MCStatements
  Acts <- MCActs
  Comparisons = {1, 2, 3, 4, 5, 6, 7}
SPECIFICATION Spec
INVARIANTS TypeOK BranchesUnambiguous
PROPERTIES LoopsByTheirFlags Implements
CHECK_DEADLOCK FALSE
