SPECIFICATION Spec
CONSTANTS
  Inputs <- Forgotten
  MaxNest = 8
INVARIANT DamageContained
CHECK_DEADLOCK FALSE
