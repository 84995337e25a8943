-------------------------------- MODULE MCRc --------------------------------
(* The RC interpreter for TLC: the two backends in step under straight-line *)
(* programs, or one machine with handlers and continuations; Init picks.    *)
EXTENDS MCRcParity

VARIABLES part, heap, cur, kont, mode
contVars == <<heap, cur, kont, mode>>

\* Run classes: everything on the abstract heap; on the C heap, whose addresses
\* come back, handlers whose continuations are not parked in cells, with more
\* cells over one frame or with two effects over two.
ClassOf(b, park, labels, allocs, depth) ==
  [backend |-> b, park |-> park, alias |-> FALSE, labels |-> labels,
   allocs |-> allocs, depth |-> depth]
Sound == {ClassOf("abs", TRUE, {"l"}, 3, 2), ClassOf("c", FALSE, {"l"}, 3, 1),
          ClassOf("c", FALSE, {"l", "m"}, 2, 2)}

Machine == INSTANCE RcCont WITH st <- heap, Slots <- {x, y}, Labels <- {"l", "m"},
             Constructors <- {"Box"}, Modes <- Sound

RInit ==
  /\ part \in {"backends", "machine"}
  /\ Init /\ Machine!Init
  /\ part = "machine" => prog.maxArenas = 0
  /\ part = "backends" => mode.backend = "abs"

RNext ==
  /\ UNCHANGED part
  /\ \/ part = "backends" /\ Next /\ UNCHANGED contVars
     \/ part = "machine" /\ Machine!Next /\ UNCHANGED vars

RSpec == RInit /\ [][RNext]_<<part, vars, contVars>>

\* No program with handlers meets a loud error of the interpreter, a second
\* resume or a shell reclaimed twice included (moveOutCont, freeReservation).
Silent == Machine!NoError
\* Every count is the number of references to its cell, from frames running,
\* waiting and captured and from parked continuations (continuationOwned).
CountsExact == Machine!RcExact
\* Nothing leaks and nothing dangles, continuations included (cascadeChildren).
NoOrphans == Machine!NoOrphans
\* A pending token keeps its shell (continuationReservations).
TokensHeld == Machine!TokensHeld
=============================================================================
