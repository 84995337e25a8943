CONSTANTS
  Ops = {"+", "*", "<>"}
  MaxDecls = 3
  MaxRels = 2
  MaxChain = 3
SPECIFICATION Spec
INVARIANT AlwaysHonest
CHECK_DEADLOCK FALSE
