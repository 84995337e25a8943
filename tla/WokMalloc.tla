------------------------------ MODULE WokMalloc ------------------------------
(***************************************************************************)
(* The malloc backend of the C runtime (runtime/wok_rc.c, 187-526, built    *)
(* with WOK_RC_MALLOC): one block per cell, and each arena frame heads a    *)
(* chain of its cells, linked through a hidden word before every header.    *)
(* A counted cell starts its block; an arena cell lies one word in.         *)
(***************************************************************************)
EXTENDS WokCells

CONSTANTS MaxDepth,    \* WOK_ARENA_MAX_DEPTH, 32 in the build
          MaxBlocks,   \* bound: blocks malloc has to give
          MaxRc        \* bound: owners of one cell

VARIABLES held,        \* counted cells: address -> [kind, n, rc]
          frames,      \* h->arena_stack: [chain, bytes], a chain newest first
          stats,       \* cur_bytes, live, arena_bytes
          up,          \* the heap exists
          blocks,      \* the blocks malloc has given and not got back
          phys         \* cur_physical_bytes

vars == <<held, frames, stats, up, blocks, phys>>

Addr == (1 .. MaxBlocks) \X {0, 1}
Unused == (1 .. MaxBlocks) \ blocks
NewBlock == CHOOSE b \in Unused : TRUE

Init ==
    /\ held = <<>> /\ frames = <<>> /\ up = TRUE
    /\ stats = [live |-> 0, bytes |-> 0, arena |-> 0]
    /\ blocks = {} /\ phys = 0

Alloc(c) ==
    /\ up /\ ~Overflows(c) /\ Unused # {}
    /\ blocks' = blocks \cup {NewBlock}
    /\ held'   = Put(<<NewBlock, 0>>, Counted(c), held)
    /\ stats'  = [stats EXCEPT !.live = @ + 1, !.bytes = @ + Bytes(c)]
    /\ phys'   = phys + Bytes(c)
    /\ UNCHANGED <<frames, up>>

\* wok_dup, wok_dec, wok_alloc_at, wok_free: the client's part as in WokSlab.
SetRc(p, rc) ==
    /\ up /\ held[p].rc > 0
    /\ held' = [held EXCEPT ![p].rc = rc]
    /\ UNCHANGED <<frames, stats, up, blocks, phys>>
Dup(p) == held[p].rc < MaxRc /\ SetRc(p, held[p].rc + 1)
Dec(p) == SetRc(p, held[p].rc - 1)

AllocAt(p, c) ==
    /\ up /\ c.kind = "con" /\ held[p].kind = "con"
    /\ held[p].rc = 0 /\ held[p].n = c.n
    /\ held' = [held EXCEPT ![p] = Counted(c)]
    /\ UNCHANGED <<frames, stats, up, blocks, phys>>

Free(p) ==
    /\ up /\ held[p].rc = 0
    /\ held'   = Restrict(held, DOMAIN held \ {p})
    /\ blocks' = blocks \ {p[1]}
    /\ stats'  = [stats EXCEPT !.live = @ - 1, !.bytes = @ - Bytes(held[p])]
    /\ phys'   = phys - Bytes(held[p])
    /\ UNCHANGED <<frames, up>>

-----------------------------------------------------------------------------
(* The arena.                                                               *)

Prefix == Word                  \* the hidden link before an arena cell

ArenaOpen ==
    /\ up /\ Len(frames) < MaxDepth
    /\ frames' = Append(frames, [chain |-> <<>>, bytes |-> stats.arena])
    /\ UNCHANGED <<held, stats, up, blocks, phys>>

ArenaAlloc(c) ==
    /\ up /\ frames # <<>> /\ c.kind = "con" /\ Unused # {}
    /\ blocks' = blocks \cup {NewBlock}
    /\ frames' = [frames EXCEPT ![Len(frames)].chain =
                     <<[at |-> <<NewBlock, 1>>, cell |-> c]>> \o @]
    /\ stats'  = [stats EXCEPT !.arena = @ + Bytes(c)]
    /\ phys'   = phys + Prefix + Bytes(c)
    /\ UNCHANGED <<held, up>>

\* What freeing a frame's chain gives back.
ChainBlocks(f) == {f.chain[i].at[1] : i \in DOMAIN f.chain}
ChainBytes(f)  == SumFunction([i \in DOMAIN f.chain |-> Prefix + Bytes(f.chain[i].cell)])

ArenaClose ==
    /\ up /\ frames # <<>>
    /\ LET f == frames[Len(frames)] IN
          /\ stats'  = [stats EXCEPT !.arena = f.bytes]
          /\ blocks' = blocks \ ChainBlocks(f)
          /\ phys'   = phys - ChainBytes(f)
    /\ frames' = SubSeq(frames, 1, Len(frames) - 1)
    /\ UNCHANGED <<held, up>>

\* wok_heap_free: the chains left open are freed, counted cells leak.
HeapFree ==
    /\ up /\ up' = FALSE
    /\ blocks' = blocks \ UNION {ChainBlocks(frames[i]) : i \in DOMAIN frames}
    /\ phys'   = phys - SumFunction([i \in DOMAIN frames |-> ChainBytes(frames[i])])
    /\ frames' = <<>>
    /\ UNCHANGED <<held, stats>>

Next ==
    \/ \E c \in Requests : Alloc(c) \/ ArenaAlloc(c) \/ \E p \in DOMAIN held : AllocAt(p, c)
    \/ \E p \in DOMAIN held : Dup(p) \/ Dec(p) \/ Free(p)
    \/ ArenaOpen \/ ArenaClose \/ HeapFree

Spec == Init /\ [][Next]_vars

-----------------------------------------------------------------------------
(* Properties.                                                              *)

\* No block is lost and none is given back twice: what malloc has out is the
\* cells held and the chains of the open frames, and nothing else
\* (wok_free 306, wok_arena_close 407-414, wok_heap_free 240-251).
BlocksOwned ==
    blocks = {p[1] : p \in DOMAIN held} \cup UNION {ChainBlocks(frames[i]) : i \in DOMAIN frames}

\* Physical bytes are exactly those blocks' sizes, the hidden words included.
PhysicalExact ==
    phys = BytesHeld(held) + SumFunction([i \in DOMAIN frames |-> ChainBytes(frames[i])])

\* A chain read as the cells of a scope.
ChainCells(f) ==
    [p \in {f.chain[i].at : i \in DOMAIN f.chain} |->
        (CHOOSE e \in {f.chain[i] : i \in DOMAIN f.chain} : e.at = p).cell]
=============================================================================
