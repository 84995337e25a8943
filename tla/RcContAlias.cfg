CONSTANTS
  x = x
  y = y
  Slots = {x, y}
  Labels = {"l", "m"}
  Constructors = {"Box"}
  MaxCArity = 1
  Modes <- Recursive
SPECIFICATION Spec
SYMMETRY SlotSymmetry
CHECK_DEADLOCK FALSE
INVARIANT RcExact
