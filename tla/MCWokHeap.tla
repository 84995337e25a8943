------------------------------ MODULE MCWokHeap ------------------------------
(* The runtime heap with either backend, the choice made when it is built.   *)
(* Both backends share the cells, the figures and the life of the heap; the  *)
(* malloc backend (M) keeps its arena chains and its blocks on the side.     *)
(*                                                                           *)
(* Shapes for TLC: the two constructors share arena slabs; arrays, strings   *)
(* and views share their free lists or have one of their own; one array is   *)
(* malloc'd and one has a size that does not fit size_t.                     *)
EXTENDS WokSlab

VARIABLES backend, chains, blocks

M == INSTANCE WokMalloc WITH frames <- chains

mvars == <<chains, blocks>>
allVars == <<vars, backend, chains, blocks>>

Shape(k, m) == [kind |-> k, n |-> m]
Shapes == {Shape("con", 1), Shape("con", 2), Shape("array", 1), Shape("string", 3),
           Shape("view", 0), Shape("array", 3), Shape("array", 30)}

BInit == Init /\ M!Init /\ backend \in {"slab", "malloc"}

BNext ==
    \/ backend = "slab" /\ Next /\ UNCHANGED <<backend, mvars>>
    \/ backend = "malloc" /\ M!Next
       /\ UNCHANGED <<backend, scopes, counted, frames, aSlabs, aBump, aFree, aMalloced, aNeed>>

BSpec == BInit /\ [][BNext]_allVars

\* Bound, two workloads of the slabs in one graph: counted cells of every
\* shape in two blocks before the arena is first used, and arena scopes
\* interleaved with unshared constructor cells in three.  The malloc backend
\* is bounded by its blocks.
CountedOnly == frames = <<>> /\ aMalloced = 0 /\ Cardinality(Taken) <= 2
WithArena   == /\ \A p \in DOMAIN held : held[p].kind = "con" /\ held[p].rc < 2
               /\ \A c \in DOMAIN freelist : c \notin {1, 2} => freelist[c] = <<>>
Bounded     == backend = "slab" => CountedOnly \/ WithArena

\* What either backend has out is what it has not given back.  Slabs: dead
\* cells lie apart from live ones and every word carved is one or the other's
\* (wok_rc.c 596-598, 683-694, 786-788).  Blocks: none is lost, none freed twice
\* (240-251, 306, 407-414).
StorageAccounted ==
  IF backend = "slab" THEN TypeOK /\ DeadCellsApart /\ NoWordLost ELSE M!BlocksOwned

\* The physical figure is exact, on slabs and on blocks, before and after
\* teardown (wok_heap_free 674 asserts it of a balanced program).
PhysicalFigure == IF backend = "slab" THEN PhysicalExact ELSE M!PhysicalExact

\* Either backend keeps the promises of the runtime: disjoint cells that stay
\* put, exact figures, last-in first-out scopes (WokHeap).
H == INSTANCE WokHeap WITH
        scopes <- IF backend = "slab" THEN scopes
                  ELSE [i \in DOMAIN chains |-> M!ChainCells(chains[i])]
ImplementsHeap == H!HSpec
=============================================================================
