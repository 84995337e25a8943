------------------------------ MODULE MCRcCont -------------------------------
(* Run classes for TLC beyond those of MCRc: parked continuations on the C   *)
(* heap, and recursion.                                                      *)
EXTENDS RcCont, TLC
CONSTANTS x, y

Mode(b, park, alias, labels, allocs, depth) ==
  [backend |-> b, park |-> park, alias |-> alias, labels |-> labels,
   allocs |-> allocs, depth |-> depth]
ParkOnC == {Mode("c", TRUE, FALSE, {"l"}, 4, 1)}
Recursive == {Mode("abs", FALSE, TRUE, {"l"}, 2, 2)}
SlotSymmetry == Permutations({x, y})
==============================================================================
