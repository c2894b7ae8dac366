CONSTANTS
  VarNames = {x, y}
  MethodNames = {x}
  MaxParts = 8
  x = x
  y = y
SPECIFICATION Spec
INVARIANT TypeOK
PROPERTIES FollowsAuthor Parses
CHECK_DEADLOCK FALSE
