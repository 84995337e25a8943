SPECIFICATION Spec
CONSTANTS
  Columns = {1,2,3}
  Kinds = {"item"}
  MaxDepth = 64
  MaxBracket = 0
CONSTRAINT Dense
INVARIANT Bounded3n
CHECK_DEADLOCK FALSE
