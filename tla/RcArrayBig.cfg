CONSTANTS
  Poly = "Poly"
  Wide = "Wide"
  x = x
  y = y
  z = z
  Slots = {x, y, z}
  Constructors = {"Poly", "Wide"}
  ArityOf <- Arities
  MaxCArity = 1
  Programs <- SetBig
SPECIFICATION Spec
SYMMETRY SlotSymmetry
CHECK_DEADLOCK FALSE
INVARIANT ErrorsAgree
