------------------------------- MODULE WokSlab -------------------------------
(***************************************************************************)
(* The slab backend of the C runtime (runtime/wok_rc.c, 528-1122): counted  *)
(* cells are popped from the free list of their class or bumped from the    *)
(* current slab, cells with no class are malloc'd, and the arena is a       *)
(* checkpoint stack over slabs of its own.                                  *)
(*                                                                         *)
(* A free list is the sequence of its cells; the link the code writes over  *)
(* a dead cell's header is its successor.  A bump pointer is the next free  *)
(* word <<slab, offset>>; its end is always the slab's, so the frame that   *)
(* saves both saves the one.  NULL is <<0, SlabWords>>: nothing remains.    *)
(*                                                                         *)
(* Aborts are guards: the process is gone.  The interpreter's side of the   *)
(* contract (free a cell once, only at count zero) is in the guards marked  *)
(* "client".                                                               *)
(***************************************************************************)
EXTENDS WokCells

CONSTANTS MaxDepth,    \* WOK_ARENA_MAX_DEPTH, 32 in the build
          MaxBlocks,   \* bound: blocks malloc has to give
          MaxRc        \* bound: owners of one cell

ASSUME SlabAssumption == MaxDepth \in Nat /\ MaxBlocks \in Nat /\ MaxRc \in Nat \ {0}

VARIABLES held,        \* counted cells: address -> [kind, n, rc]
          scopes,      \* ghost: cells of each open arena scope
          stats,       \* cur_bytes, live, arena_bytes
          up,          \* the heap exists
          slabs,       \* h->slabs, newest first
          bump,        \* h->bump_ptr
          freelist,    \* h->freelist
          frames,      \* h->arena_stack up to arena_depth
          aSlabs, aBump, aFree,   \* arena_slabs, arena_bump_ptr, arena_free_slabs
          phys,        \* cur_physical_bytes
          aMalloced,   \* arena_nslabs
          aNeed        \* ghost: most arena slabs in use at once

vars == <<held, scopes, stats, up, slabs, bump, freelist, frames,
          aSlabs, aBump, aFree, phys, aMalloced, aNeed>>

counted == <<slabs, bump, freelist>>
arena   == <<scopes, frames, aSlabs, aBump, aFree, aMalloced, aNeed>>

SlabBytes == Word * SlabWords
Null      == <<0, SlabWords>>
Addr      == (1 .. MaxBlocks) \X (0 .. SlabWords - 1)
Left(b)   == SlabWords - b[2]
Members(s) == {s[i] : i \in DOMAIN s}

\* malloc returns a block nothing holds.
Taken == Members(slabs) \cup Members(aSlabs) \cup Members(aFree) \cup {p[1] : p \in DOMAIN held}
Unused == (1 .. MaxBlocks) \ Taken
NewBlock == CHOOSE b \in Unused : TRUE

Init ==
    /\ held = <<>> /\ scopes = <<>> /\ up = TRUE
    /\ stats = [live |-> 0, bytes |-> 0, arena |-> 0]
    /\ slabs = <<>> /\ bump = Null
    /\ freelist = [c \in 0 .. NumClasses - 1 |-> <<>>]
    /\ frames = <<>> /\ aSlabs = <<>> /\ aBump = Null /\ aFree = <<>>
    /\ phys = 0 /\ aMalloced = 0 /\ aNeed = 0

-----------------------------------------------------------------------------
(* Counted cells.  The seven wok_*_alloc functions differ only in what they  *)
(* ask for: [kind, n] stands for the function called.                       *)

\* The header is stamped and the figures move.
Stamp(p, c) ==
    /\ held'  = Put(p, Counted(c), held)
    /\ stats' = [stats EXCEPT !.live = @ + 1, !.bytes = @ + Bytes(c)]
    /\ UNCHANGED <<up, arena>>

Admit(c) == up /\ ~Overflows(c)

AllocReuse(c) ==
    /\ Admit(c) /\ ~IsLarge(c) /\ freelist[Class(c)] # <<>>
    /\ freelist' = [freelist EXCEPT ![Class(c)] = Tail(@)]
    /\ Stamp(Head(freelist[Class(c)]), c)
    /\ UNCHANGED <<slabs, bump, phys>>

BumpFits(c) == WordsOf(c) <= Left(bump)

AllocBump(c) ==
    /\ Admit(c) /\ ~IsLarge(c) /\ freelist[Class(c)] = <<>> /\ BumpFits(c)
    /\ bump' = <<bump[1], bump[2] + WordsOf(c)>>
    /\ Stamp(bump, c)
    /\ UNCHANGED <<slabs, freelist, phys>>

\* The tail of the current slab is abandoned.  Cells start one word in.
AllocGrow(c) ==
    /\ Admit(c) /\ ~IsLarge(c) /\ freelist[Class(c)] = <<>> /\ ~BumpFits(c)
    /\ Unused # {}
    /\ slabs' = <<NewBlock>> \o slabs
    /\ phys'  = phys + SlabBytes
    /\ bump'  = <<NewBlock, 1 + WordsOf(c)>>
    /\ Stamp(<<NewBlock, 1>>, c)
    /\ UNCHANGED freelist

AllocLarge(c) ==
    /\ Admit(c) /\ IsLarge(c) /\ Unused # {}
    /\ phys' = phys + Bytes(c)
    /\ Stamp(<<NewBlock, 0>>, c)
    /\ UNCHANGED counted

\* wok_dup, wok_dec.  Client: only cells it owns; arena cells are never counted.
Dup(p) ==
    /\ up /\ held[p].rc \in 1 .. MaxRc - 1
    /\ held' = [held EXCEPT ![p].rc = @ + 1]
    /\ UNCHANGED <<stats, up, counted, arena, phys>>

Dec(p) ==
    /\ up /\ held[p].rc > 0
    /\ held' = [held EXCEPT ![p].rc = @ - 1]
    /\ UNCHANGED <<stats, up, counted, arena, phys>>

\* The byte the code reads back as arity; arrays keep the element kind there.
HeaderArity(c) == IF c.kind = "con" THEN c.n ELSE 0

\* wok_alloc_at.  Client: the shell of a constructor cell (dropReuse hands out no other).
AllocAt(p, c) ==
    /\ up /\ c.kind = "con" /\ held[p].kind = "con"
    /\ held[p].rc = 0 /\ HeaderArity(held[p]) = c.n
    /\ held' = [held EXCEPT ![p] = Counted(c)]
    /\ UNCHANGED <<stats, up, counted, arena, phys>>

\* wok_free.  Client: once per cell.
Reclaim(p) ==
    /\ held'  = Restrict(held, DOMAIN held \ {p})
    /\ stats' = [stats EXCEPT !.live = @ - 1, !.bytes = @ - Bytes(held[p])]

MutFree(p) ==
    /\ up /\ held[p].rc = 0
    /\ Reclaim(p)
    /\ IF IsLarge(held[p])
       THEN UNCHANGED <<freelist, phys>>
       ELSE /\ freelist' = [freelist EXCEPT ![Class(held[p])] = <<p>> \o @]
            /\ UNCHANGED phys
    /\ UNCHANGED <<up, slabs, bump, arena>>
MutFreeDrop(p) ==
    /\ up /\ held[p].rc = 0
    /\ Reclaim(p)
    /\ IF IsLarge(held[p])
       THEN phys' = phys - Bytes(held[p]) /\ UNCHANGED freelist
       ELSE /\ freelist' = [freelist EXCEPT ![Class(held[p])] = <<p>>]
            /\ UNCHANGED phys
    /\ UNCHANGED <<up, slabs, bump, arena>>
Free(p) ==
    /\ up /\ held[p].rc = 0
    /\ Reclaim(p)
    /\ IF IsLarge(held[p])
       THEN phys' = phys - Bytes(held[p]) /\ UNCHANGED freelist
       ELSE /\ freelist' = [freelist EXCEPT ![Class(held[p])] = <<p>> \o @]
            /\ UNCHANGED phys
    /\ UNCHANGED <<up, slabs, bump, arena>>

-----------------------------------------------------------------------------
(* The arena: a separate bump region and a stack of its saved frontiers.     *)

ArenaOpen ==
    /\ up /\ Len(frames) < MaxDepth
    /\ frames' = Append(frames, [slab  |-> IF aSlabs = <<>> THEN 0 ELSE Head(aSlabs),
                                 bump  |-> aBump,
                                 bytes |-> stats.arena])
    /\ scopes' = Append(scopes, <<>>)
    /\ UNCHANGED <<held, stats, up, counted, aSlabs, aBump, aFree, phys, aMalloced, aNeed>>

ArenaStamp(p, c) ==
    /\ scopes' = [scopes EXCEPT ![Len(scopes)] = Put(p, c, @)]
    /\ stats'  = [stats EXCEPT !.arena = @ + Bytes(c)]
    /\ aBump'  = <<p[1], p[2] + WordsOf(c)>>
    /\ UNCHANGED <<held, up, counted, frames>>

ArenaFits(c) == WordsOf(c) <= Left(aBump)

ArenaBump(c) ==
    /\ up /\ frames # <<>> /\ c.kind = "con" /\ ArenaFits(c)
    /\ ArenaStamp(aBump, c)
    /\ UNCHANGED <<aSlabs, aFree, phys, aMalloced, aNeed>>

\* wok_new_arena_slab: a slab an earlier close gave back, or a fresh one.
MutArenaGrow(c) ==
    /\ up /\ frames # <<>> /\ c.kind = "con" /\ ~ArenaFits(c)
    /\ /\ Unused # {} /\ aSlabs' = <<NewBlock>> \o aSlabs
       /\ aMalloced' = aMalloced + 1 /\ phys' = phys + SlabBytes /\ UNCHANGED aFree
    /\ ArenaStamp(<<Head(aSlabs'), 1>>, c)
    /\ aNeed' = IF Len(aSlabs') > aNeed THEN Len(aSlabs') ELSE aNeed
ArenaGrow(c) ==
    /\ up /\ frames # <<>> /\ c.kind = "con" /\ ~ArenaFits(c)
    /\ \/ /\ aFree # <<>> /\ aSlabs' = <<Head(aFree)>> \o aSlabs
          /\ aFree' = Tail(aFree) /\ UNCHANGED <<phys, aMalloced>>
       \/ /\ aFree = <<>> /\ Unused # {} /\ aSlabs' = <<NewBlock>> \o aSlabs
          /\ aMalloced' = aMalloced + 1 /\ phys' = phys + SlabBytes /\ UNCHANGED aFree
    /\ ArenaStamp(<<Head(aSlabs'), 1>>, c)
    /\ aNeed' = IF Len(aSlabs') > aNeed THEN Len(aSlabs') ELSE aNeed

\* wok_arena_close of the innermost handle; any other handle aborts.
TopFrame == frames[Len(frames)]
Grown    == Cardinality({i \in DOMAIN aSlabs : \A j \in 1 .. i : aSlabs[j] # TopFrame.slab})
Flip(s)  == [i \in DOMAIN s |-> s[Len(s) + 1 - i]]

Pop == /\ frames' = SubSeq(frames, 1, Len(frames) - 1)
       /\ scopes' = SubSeq(scopes, 1, Len(scopes) - 1)
       /\ stats'  = [stats EXCEPT !.arena = TopFrame.bytes]
       /\ UNCHANGED <<held, up, counted, phys, aMalloced, aNeed>>

ArenaClose ==
    /\ up /\ frames # <<>>
    /\ aFree'  = Flip(SubSeq(aSlabs, 1, Grown)) \o aFree
    /\ aSlabs' = SubSeq(aSlabs, Grown + 1, Len(aSlabs))
    /\ aBump'  = TopFrame.bump
    /\ Pop

\* wok_heap_free: three slab lists are walked; a large cell still held leaks.
LargeHeld == {p \in DOMAIN held : IsLarge(held[p])}

HeapFree ==
    /\ up /\ up' = FALSE
    /\ phys' = phys - SlabBytes * (Len(slabs) + Len(aSlabs) + Len(aFree))
    /\ held' = Restrict(held, LargeHeld)
    /\ slabs' = <<>> /\ bump' = Null /\ freelist' = [c \in DOMAIN freelist |-> <<>>]
    /\ scopes' = <<>> /\ frames' = <<>>
    /\ aSlabs' = <<>> /\ aBump' = Null /\ aFree' = <<>>
    /\ UNCHANGED <<stats, aMalloced, aNeed>>

Next ==
    \/ \E c \in Requests :
          \/ AllocReuse(c) \/ AllocBump(c) \/ AllocGrow(c) \/ AllocLarge(c)
          \/ ArenaBump(c) \/ ArenaGrow(c)
          \/ \E p \in DOMAIN held : AllocAt(p, c)
    \/ \E p \in DOMAIN held : Dup(p) \/ Dec(p) \/ Free(p)
    \/ ArenaOpen \/ ArenaClose \/ HeapFree

Spec == Init /\ [][Next]_vars

-----------------------------------------------------------------------------
(* Properties.                                                              *)

TypeOK ==
    /\ \A p \in DOMAIN held :
          /\ p \in Addr
          /\ [kind |-> held[p].kind, n |-> held[p].n] \in Cell
          /\ held[p].rc \in 0 .. MaxRc
    /\ \A i \in DOMAIN scopes : \A p \in DOMAIN scopes[i] : p \in Addr /\ scopes[i][p] \in Cell
    /\ stats \in [live : Nat, bytes : Nat, arena : Nat]
    /\ up \in BOOLEAN
    /\ \A s \in {slabs, aSlabs, aFree} : Members(s) \subseteq 1 .. MaxBlocks
    /\ bump \in (0 .. MaxBlocks) \X (0 .. SlabWords)
    /\ aBump \in (0 .. MaxBlocks) \X (0 .. SlabWords)
    /\ DOMAIN freelist = 0 .. NumClasses - 1
    /\ \A c \in DOMAIN freelist : Members(freelist[c]) \subseteq Addr
    /\ Len(frames) <= MaxDepth /\ Len(frames) = Len(scopes)
    /\ phys \in Nat /\ aMalloced \in Nat /\ aNeed \in Nat

\* The dead cells, each as long as its class says.
Dead == [p \in UNION {Members(freelist[c]) : c \in DOMAIN freelist} |->
            [kind |-> "con", n |-> CHOOSE c \in DOMAIN freelist : p \in Members(freelist[c])]]
SmallHeld == Restrict(held, DOMAIN held \ LargeHeld)

\* The words of a slab that some counted cell, live or dead, occupies.
Used(b) == {w \in Covered(SmallHeld) \cup Covered(Dead) : w[1] = b}

\* A dead cell is on one list, once, apart from the others and from every cell
\* in use, and inside a counted slab: writing the list link over its header
\* (fl_set_next, 596-598) and handing it to another shape of the same class
\* disturb no live cell.
DeadCellsApart ==
    /\ \A c, d \in DOMAIN freelist : \A i \in DOMAIN freelist[c], j \in DOMAIN freelist[d] :
          freelist[c][i] = freelist[d][j] => c = d /\ i = j
    /\ \A p, q \in DOMAIN Dead :
          p # q => Extent(p, TrueWords(Dead[p])) \cap Extent(q, TrueWords(Dead[q])) = {}
    /\ Covered(Dead) \cap Covered(held) = {}
    /\ \A w \in Covered(Dead) : w[1] \in Members(slabs) /\ w[2] \in 1 .. SlabWords - 1

\* Every word of a counted slab is the header's, a cell's (live or dead), or
\* in the tail the slab was left with, which is shorter than the largest
\* class: nothing the slabs carve is ever lost (wok_alloc 683-694, wok_free 786-788).
NoWordLost ==
    \A i \in DOMAIN slabs :
        LET last == IF i = 1 THEN bump[2] - 1 ELSE SlabWords - 1
            cut  == {o \in 1 .. last : <<slabs[i], o>> \notin Used(slabs[i])}
        IN  /\ \A o \in cut : o .. last \subseteq cut
            /\ i = 1 => cut = {}
            /\ Cardinality(cut) < NumClasses

\* Physical bytes are the slabs still held plus the large cells not yet freed,
\* before and after teardown, whose assertion (wok_heap_free 674) is the case
\* of a balanced program.
PhysicalExact ==
    phys = SlabBytes * (Len(slabs) + Len(aSlabs) + Len(aFree))
           + BytesHeld(Restrict(held, LargeHeld))

\* Arena slabs are malloc'd for the peak concurrent need only, whatever the
\* number of open and close cycles (the comments at 573-582 and 1091-1104).
ArenaSlabsPeak == aMalloced = aNeed
=============================================================================
