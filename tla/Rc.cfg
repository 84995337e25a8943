CONSTANTS
  Poly = "Poly"
  Wide = "Wide"
  x = x
  y = y
  z = z
  Slots = {x, y, z}
  Constructors = {"Poly", "Wide"}
  ArityOf <- Arities
  MaxCArity = 1
  Programs <- Balanced
SPECIFICATION RSpec
SYMMETRY SlotSymmetry
CHECK_DEADLOCK FALSE
INVARIANTS NoError RcExact ReservedHeld BooksExact  Silent CountsExact NoOrphans 
