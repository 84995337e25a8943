CONSTANTS
  x = x
  y = y
  Slots = {x, y}
  Labels = {"l", "m"}
  Constructors = {"Box"}
  MaxCArity = 1
  Modes <- ParkOnC
SPECIFICATION Spec
SYMMETRY SlotSymmetry
CHECK_DEADLOCK FALSE
INVARIANT TokensHeld
