CONSTANTS
  Names = {"a", "b"}
  MaxDepth = 4
  MaxBinders = 3
  MaxHandlers = 3
SPECIFICATION Spec
INVARIANT ShadowsSeen
CHECK_DEADLOCK FALSE
