------------------------------- MODULE WokHeap -------------------------------
(***************************************************************************)
(* What the runtime promises the interpreter (runtime/README.md and the     *)
(* declarations of wok_rc.h), whichever backend is built: a cell it hands   *)
(* out lies apart from every cell still held, keeps its place and shape     *)
(* until it is freed, and the statistics count exactly what is held.        *)
(* Arena cells live until their scope closes, scopes close last-in          *)
(* first-out, and closing one disturbs nothing else.                        *)
(*                                                                         *)
(* WokSlab and WokMalloc are shown to implement this module.                *)
(***************************************************************************)
EXTENDS WokCells

CONSTANTS Addr,        \* the addresses malloc and the slabs can yield
          MaxDepth     \* WOK_ARENA_MAX_DEPTH

VARIABLES held,        \* counted cells: address -> [kind, n, rc]
          scopes,      \* open arena scopes, outermost first: address -> [kind, n]
          stats,       \* [live, bytes, arena], as wok_stat_* report them
          up           \* the heap exists

heapVars == <<held, scopes, stats, up>>

InUse == Covered(held) \cup UNION {Covered(scopes[i]) : i \in DOMAIN scopes}

\* The figures the accessors must report for what is held.
StatsOf(h, s) ==
    [live  |-> Cardinality(DOMAIN h),
     bytes |-> BytesHeld(h),
     arena |-> SumFunction([i \in DOMAIN s |-> BytesHeld(s[i])])]

Account == stats' = StatsOf(held', scopes')

Fresh(p, c) == Extent(p, TrueWords(c)) \cap InUse = {}

HInit ==
    /\ held = <<>> /\ scopes = <<>> /\ up = TRUE
    /\ stats = StatsOf(<<>>, <<>>)

HAlloc(p, c) ==
    /\ up
    /\ held' = Put(p, Counted(c), held)
    /\ Fresh(p, c)
    /\ Account /\ UNCHANGED <<scopes, up>>

HSetRc(p, rc) ==
    /\ up /\ p \in DOMAIN held /\ held[p].rc > 0
    /\ rc \in {held[p].rc - 1, held[p].rc + 1}
    /\ held' = [held EXCEPT ![p].rc = rc]
    /\ UNCHANGED <<scopes, stats, up>>

HFree(p) ==
    /\ up /\ p \in DOMAIN held /\ held[p].rc = 0
    /\ held' = Restrict(held, DOMAIN held \ {p})
    /\ Account /\ UNCHANGED <<scopes, up>>

\* A shell is stamped again: a cell of the same size in the same place.
HAllocAt(p, c) ==
    /\ up /\ p \in DOMAIN held /\ held[p].rc = 0
    /\ TrueWords(c) = TrueWords(held[p])
    /\ held' = [held EXCEPT ![p] = Counted(c)]
    /\ UNCHANGED <<scopes, stats, up>>

HOpen ==
    /\ up /\ Len(scopes) < MaxDepth
    /\ scopes' = Append(scopes, <<>>)
    /\ UNCHANGED <<held, stats, up>>

HArenaAlloc(p, c) ==
    /\ up /\ scopes # <<>>
    /\ scopes' = [scopes EXCEPT ![Len(scopes)] = Put(p, c, @)]
    /\ Fresh(p, c)
    /\ Account /\ UNCHANGED <<held, up>>

HClose ==
    /\ up /\ scopes # <<>>
    /\ scopes' = SubSeq(scopes, 1, Len(scopes) - 1)
    /\ Account /\ UNCHANGED <<held, up>>

\* Teardown: open scopes go with the heap; a counted cell may be left behind
\* in memory of its own, whose bytes the figures still report.
HHeapFree ==
    /\ up /\ up' = FALSE
    /\ \E left \in SUBSET DOMAIN held : held' = Restrict(held, left)
    /\ scopes' = <<>>
    /\ UNCHANGED stats

HNext ==
    \/ \E p \in Addr, c \in Requests : HAlloc(p, c) \/ HAllocAt(p, c) \/ HArenaAlloc(p, c)
    \/ \E p \in DOMAIN held : HFree(p) \/ \E rc \in 0 .. held[p].rc + 1 : HSetRc(p, rc)
    \/ HOpen \/ HClose \/ HHeapFree

HSpec == HInit /\ [][HNext]_heapVars
=============================================================================
