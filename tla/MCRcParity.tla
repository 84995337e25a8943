----------------------------- MODULE MCRcParity ------------------------------
(* Program classes for TLC.  "Poly" has one field of any type; "Wide"        *)
(* outgrows the C cell (MaxCArity 1) and so always lives on the IntMap.      *)
EXTENDS RcParity
CONSTANTS Poly, Wide, x, y, z

Arities == (Poly :> 1) @@ (Wide :> 2)
SlotSymmetry == Permutations({x, y})

Class(slots, lits, news, sets, arenas, allocs, births) ==
  [slots |-> slots, lits |-> lits, news |-> news, sets |-> sets, arenas |-> arenas,
   maxAllocs |-> allocs, maxArenas |-> births]

\* One constructor at three field types, arrays of integers; and arena scopes
\* over cells whose fields are all pointers.
Balanced == {Class({x, y}, {"small", "char", "big"}, {"small"}, {"small"}, {}, 3, 0),
             Class({x, y, z}, {"nullary"}, {}, {}, {"nullary"}, 1, 2)}
\* An array of small integers set to one of 2^63 and up.
SetBig == {Class({x, y}, {}, {"small"}, {"big"}, {}, 3, 0)}

\* What a program can observe of a value: the tree under it.
RECURSIVE Tree(_, _)
Tree(v, s) ==
  IF ~IsCounted(v) THEN v
  ELSE IF v \notin DOMAIN s.cells THEN <<"dangling">>
  ELSE <<s.cells[v].node.con,
         [i \in DOMAIN s.cells[v].node.fs |-> Tree(FieldsOf(v, s)[i], s)]>>

\* The differential oracle: both backends hold the same values, slot for slot
\* (nothing a C slot stores reads back differently, in place or fresh), and
\* keep the same books and peaks of counted cells and of the arena's bytes.
BackendsAgree ==
  /\ \A w \in Slots : Tree(env["abs"][w], st["abs"]) = Tree(env["c"][w], st["c"])
  /\ st["abs"].stats = st["c"].stats
==============================================================================
