------------------------------- MODULE RcStore -------------------------------
(***************************************************************************)
(* The owned heap of the reference-counting interpreter                    *)
(* (src/src/Wok/Interp/RC/Value.hs), as the code writes it: operations     *)
(* that take a store and give the next one.  A store lives on one of two   *)
(* backends.  "abs" (AbstractHeap) keeps every cell in the IntMap; "c"     *)
(* (CHeap) puts the constructors and arrays that fit a C cell into the C   *)
(* runtime and the rest into the IntMap, and must tell the same story.     *)
(* A list of values to drop may hold uncounted ones, which a drop skips:   *)
(* the code mostly leaves them out beforehand (countedRefs).               *)
(*                                                                         *)
(* Left out: node kinds that differ from these only in their payload       *)
(* (strings, bytes, views, records, closures, environments), the static    *)
(* region, stFrees (stAllocs - stLive) and the tag bound 65536.  stDead is *)
(* the addresses below "next" that are neither cells nor reserved.         *)
(***************************************************************************)
EXTENDS Integers, Sequences, FiniteSets, SequencesExt

CONSTANTS Constructors,  \* constructors with fields (a nullary one is a value)
          MaxCArity      \* the widest constructor a C cell can hold (255)

ASSUME StoreAssumption ==
  MaxCArity \in Nat /\ Constructors \cap {"Array", "NCont", "NContCell"} = {}

\* Values: a literal, a nullary constructor, an address on either heap.
Lit(w)   == <<"lit", w>>
Inline   == <<"inline">>
HAddr(i) == <<"H", i>>
CAddr(p) == <<"C", p>>
Empty    == <<"empty">>

IsCounted(v) == v[1] \in {"H", "C"}

\* The slot kind of a value; a "big" natural (2^63 and up) fits no slot.
SlotKind(v) ==
  IF v[1] # "lit" THEN "KPointer"
  ELSE CASE v[2] = "small" -> "KLitInt"
         [] v[2] = "char"  -> "KLitChar"
         [] OTHER          -> "none"
SlotKinds(vs) == [i \in DOMAIN vs |-> SlotKind(vs[i])]
Encodable(vs) == \A i \in DOMAIN vs : SlotKind(vs[i]) # "none"

\* What a slot word reads back as under the kind its reader believes in.
DecodeSlots(kinds, vs) ==
  [i \in DOMAIN vs |-> IF SlotKind(vs[i]) = kinds[i] THEN vs[i] ELSE Lit("garbage")]

Con(c, vs) == [con |-> c, fs |-> vs]
Array(vs)  == [con |-> "Array", fs |-> vs]

\* A continuation holds its captured frames and which handler caught it, a
\* continuation cell nothing or one continuation.
Cont(frames, h) == [con |-> "NCont", fs |-> frames, h |-> h]
ContCell(vs)    == [con |-> "NContCell", fs |-> vs]

NodeArity(n) == IF n.con \in Constructors THEN Len(n.fs) ELSE 0
NodeCEligible(n) ==
  n.con \in Constructors /\ Len(n.fs) <= MaxCArity /\ Encodable(n.fs)
WouldBeCBytes(n) ==
  IF NodeCEligible(n) THEN 8 + 8 * Len(n.fs)
  ELSE IF n.con = "Array" THEN 16 + 8 * Len(n.fs) ELSE 0

(***************************************************************************)
(* The store.  "err" is the error that ended the run, if any; "pool" and   *)
(* "fresh" stand for the C runtime's free lists: a freed cell is the next  *)
(* one handed out for its size.                                            *)
(***************************************************************************)
EmptyStats == [allocs |-> 0, live |-> 0, peak |-> 0, cur |-> 0, peakBytes |-> 0,
               arena |-> 0, arenaPeak |-> 0]
EmptyStore(b) ==
  [backend  |-> b,
   cells    |-> [a \in {} |-> 0],
   next     |-> 0,
   desc     |-> [c \in Constructors |-> <<>>],
   reserved |-> {},
   arena    |-> <<>>,
   arenaC   |-> <<>>,
   stats    |-> EmptyStats,
   pool     |-> [n \in {} |-> <<>>],
   fresh    |-> 0,
   err      |-> "none"]

Fail(e, s) == IF s.err = "none" THEN [s EXCEPT !.err = e] ELSE s

Larger(x, y) == IF x > y THEN x ELSE y
RecordAlloc(bytes, g) ==
  [g EXCEPT !.allocs = @ + 1, !.live = @ + 1, !.peak = Larger(@, g.live + 1),
            !.cur = @ + bytes, !.peakBytes = Larger(@, g.cur + bytes)]
RecordFree(bytes, g) == [g EXCEPT !.live = @ - 1, !.cur = @ - bytes]
RecordArena(bytes, g) ==
  [g EXCEPT !.arena = @ + bytes, !.arenaPeak = Larger(@, g.arena + bytes)]

\* An address in any open arena frame is uncounted.
InFrames(a, frames) == \E i \in DOMAIN frames : a \in frames[i]
IsArena(a, s) == InFrames(a, s.arena) \/ InFrames(a, s.arenaC)

Extend(f, a, v) == [x \in DOMAIN f \cup {a} |-> IF x = a THEN v ELSE f[x]]
Put(a, rc, n, bytes, s) ==
  [s EXCEPT !.cells = Extend(@, a, [rc |-> rc, node |-> n, bytes |-> bytes])]
SetRc(a, rc, s) == [s EXCEPT !.cells[a].rc = rc]
Unmap(a, s) == [s EXCEPT !.cells = Restrict(@, DOMAIN @ \ {a})]

\* The fields of a cell: a C cell is read through its constructor's recorded
\* descriptor, an array through the kind of its first element.
FieldsOf(a, s) ==
  LET n == s.cells[a].node
  IN IF a[1] = "H" \/ n.fs = <<>> THEN n.fs
     ELSE DecodeSlots(IF n.con = "Array"
                        THEN [i \in DOMAIN n.fs |-> SlotKind(n.fs[1])]
                        ELSE s.desc[n.con], n.fs)

\* wok_alloc and wok_free as this layer sees them.
PoolOf(bytes, s) == IF bytes \in DOMAIN s.pool THEN s.pool[bytes] ELSE <<>>
WokAlloc(n, s) ==
  LET bytes == WouldBeCBytes(n)
      pool  == PoolOf(bytes, s)
      p     == IF pool = <<>> THEN CAddr(s.fresh) ELSE Head(pool)
      s1    == IF pool = <<>> THEN [s EXCEPT !.fresh = @ + 1]
                              ELSE [s EXCEPT !.pool[bytes] = Tail(@)]
  IN [a |-> p, s |-> Put(p, 1, n, bytes, s1)]
WokFree(a, bytes, s) ==
  [s EXCEPT !.pool = Extend(@, bytes, <<a>> \o PoolOf(bytes, s))]

-----------------------------------------------------------------------------
(* Allocation.                                                             *)
AllocPure(n, bytes, s) ==
  [a |-> HAddr(s.next),
   s |-> [Put(HAddr(s.next), 1, n, bytes, s)
            EXCEPT !.next = @ + 1, !.stats = RecordAlloc(bytes, @)]]

AllocC(n, s) ==
  LET r == WokAlloc(n, s)
  IN [r EXCEPT !.s.stats = RecordAlloc(WouldBeCBytes(n), @)]

\* The first slot kinds seen for a constructor own its C cells.
\* Mutant: any cell of the right arity shares the constructor's descriptor.
MutFitsDesc(n, s) == TRUE
FitsDesc(n, s) == s.desc[n.con] \in {<<>>, SlotKinds(n.fs)}
RecordDesc(n, s) ==
  IF s.desc[n.con] = <<>> THEN [s EXCEPT !.desc[n.con] = SlotKinds(n.fs)] ELSE s

AllocNCon(n, s) ==
  IF n.fs = <<>> THEN [a |-> Inline, s |-> s]
  ELSE IF ~NodeCEligible(n) \/ ~FitsDesc(n, s) THEN AllocPure(n, 0, s)
  ELSE IF s.backend = "abs" THEN AllocPure(n, WouldBeCBytes(n), RecordDesc(n, s))
  ELSE AllocC(n, RecordDesc(n, s))

AllocNArray(n, s) ==
  IF s.backend = "abs" THEN AllocPure(n, WouldBeCBytes(n), s)
  ELSE IF ~Encodable(n.fs)
    THEN [a |-> Empty, s |-> Fail("non-encodable element in NArray", s)]
  ELSE AllocC(n, s)

\* Every other node lives on the IntMap, free of charge.
Alloc(n, s) == IF n.con = "Array" THEN AllocNArray(n, s)
               ELSE IF n.con \in Constructors THEN AllocNCon(n, s)
               ELSE AllocPure(n, 0, s)

-----------------------------------------------------------------------------
(* Reference counts.                                                       *)
\* Mutant: a dup of a C cell is forgotten.
MutIncref(a, s) ==
  IF ~IsCounted(a) \/ IsArena(a, s) \/ a[1] = "C" THEN s
  ELSE IF a \notin DOMAIN s.cells THEN Fail("use-after-free", s)
  ELSE SetRc(a, s.cells[a].rc + 1, s)
Incref(a, s) ==
  IF ~IsCounted(a) \/ IsArena(a, s) THEN s
  ELSE IF a \notin DOMAIN s.cells THEN Fail("use-after-free", s)
  ELSE SetRc(a, s.cells[a].rc + 1, s)

\* A dying cell gives its memory back and leaves the books.
Release(a, s) ==
  LET bytes == s.cells[a].bytes
      s1    == [Unmap(a, s) EXCEPT !.stats = RecordFree(bytes, @)]
  IN IF a[1] = "C" THEN WokFree(a, bytes, s1) ELSE s1

\* The free of a shell whose token was trapped in a dropped continuation.
FreeReservation(a, bytes, s) ==
  IF a \notin s.reserved THEN Fail("double-reclaim", s)
  ELSE LET s1 == [s EXCEPT !.reserved = @ \ {a}, !.stats = RecordFree(bytes, @)]
       IN IF a[1] = "C" THEN WokFree(a, bytes, s1) ELSE s1

\* What captured frames own: a suspended activation the values it has still
\* to drop or move (its "own", on which the reference counts of a balanced
\* program agree with nonHeadOccs and dropTargets), a nested handler its
\* parameter.  An edge names the binder that owns: the parameter binder is one
\* for the handler's frame and for its arms, and the binders of a function
\* that is active twice ("again") are the same in both frames.
Let(frames) == {i \in DOMAIN frames : frames[i].k = "let"}
FrameOwned(frames, i) ==
  LET f == frames[i]
      Binder(x) == CASE x \in f.par -> <<"param", 0, f.label>>
                     [] x \notin f.par /\ f.again  -> <<"again", 0, x>>
                     [] x \notin f.par /\ ~f.again -> <<"once", i, x>>
  IN {e \in IF f.k = "handle" THEN {<<<<"param", 0, f.label>>, f.param>>}
            ELSE {<<Binder(x), f.own[x]>> : x \in DOMAIN f.own} : e[2] # Empty}
OwnedEdges(frames) == UNION {FrameOwned(frames, i) : i \in DOMAIN frames}

\* continuationOwned: an edge of one binder and one address counts once.
Owned(edges) == [i \in 1 .. Cardinality(edges) |-> SetToSeq(edges)[i][2]]
\* Mutant: a nested handler's parameter is forgotten.
MutContOwned(frames) == Owned(UNION {FrameOwned(frames, i) : i \in Let(frames)})
ContOwned(frames) == Owned(OwnedEdges(frames))

\* The tokens in the scopes of captured frames whose shell is reserved: spent
\* tokens linger there and are told from pending ones by that test alone.
\* Mutant: spent tokens are reclaimed too.
MutReservations(frames, s) ==
  UNION {frames[i].toks : i \in {i \in DOMAIN frames : frames[i].k = "let"}}
Reservations(frames, s) ==
  {t \in UNION {frames[i].toks : i \in {i \in DOMAIN frames : frames[i].k = "let"}} :
     t.a \in s.reserved}
\* Mutant: a dropped continuation keeps its shells.
MutReclaim(frames, s) == s
Reclaim(frames, s) ==
  LET bytesOf(a) == (CHOOSE t \in Reservations(frames, s) : t.a = a).bytes
  IN FoldSet(LAMBDA a, acc : FreeReservation(a, bytesOf(a), acc), s,
             {t.a : t \in Reservations(frames, s)})

\* dropAddr's worklist: a dying cell's children are read, the cell is freed and
\* the children are dropped; a dying continuation gives its shells back first.
ChildrenOf(a, s) ==
  LET n == s.cells[a].node
  IN IF n.con = "NCont" THEN ContOwned(n.fs) ELSE FieldsOf(a, s)
DropHead(a, rest, s) ==
  LET n  == s.cells[a].node
      s1 == IF n.con = "NCont" THEN Reclaim(n.fs, s) ELSE s
  IN IF ~IsCounted(a) \/ IsArena(a, s) THEN [work |-> rest, s |-> s]
     ELSE IF a \notin DOMAIN s.cells THEN [work |-> rest, s |-> Fail("double-free", s)]
     ELSE IF s.cells[a].rc > 1
       THEN [work |-> rest, s |-> SetRc(a, s.cells[a].rc - 1, s)]
     ELSE [work |-> ChildrenOf(a, s) \o rest, s |-> Release(a, s1)]
DropStep(d) == IF d.work = <<>> \/ d.s.err # "none" THEN d
               ELSE DropHead(Head(d.work), Tail(d.work), d.s)

\* The places of the heap that hold a value.  Each joins the worklist at most
\* once, so the list is empty after as many steps as it and they are.
Holds(n) == IF n.con = "NCont" THEN OwnedEdges(n.fs) ELSE DOMAIN n.fs
Places(cells) == UNION {{k} \X Holds(cells[k].node) : k \in DOMAIN cells}
DropAll(work, s) ==
  LET run[k \in Nat] == IF k = 0 THEN [work |-> work, s |-> s] ELSE DropStep(run[k - 1])
  IN run[Len(work) + Cardinality(Places(s.cells))].s
DropAddr(a, s) == DropAll(<<a>>, s)

\* Resume moves a continuation's frames out: its cell goes, its children stay.
\* Mutant: the frames' values are dropped with the cell.
MutMoveOutCont(a, s) == DropAddr(a, s)
MoveOutCont(a, s) ==
  IF a \notin DOMAIN s.cells THEN Fail("use-after-free", s)
  ELSE IF s.cells[a].rc # 1 THEN Fail("one-shot violation", s)
  ELSE Release(a, s)

WriteNode(a, n, s) ==
  IF a \notin DOMAIN s.cells THEN Fail("write to dead cell", s)
  ELSE [s EXCEPT !.cells[a].node = n]

\* __cont_store moves a continuation into an empty cell it does not own.
ContStore(c, k, s) ==
  IF s.cells[c].node.fs # <<>> THEN Fail("cell already holds a continuation", s)
  ELSE IF Contains(ContOwned(s.cells[k].node.fs), c) THEN Fail("carrier-wall violation", s)
  ELSE WriteNode(c, ContCell(<<k>>), s)

\* __cont_take moves it out.
ContTake(c, s) ==
  IF s.cells[c].node.fs = <<>> THEN [a |-> Empty, s |-> Fail("cell is empty", s)]
  ELSE [a |-> Head(s.cells[c].node.fs), s |-> WriteNode(c, ContCell(<<>>), s)]

-----------------------------------------------------------------------------
(* In-place reuse.  A token holds the shell of a unique cell whose         *)
(* children are gone; it is off the cell map but still on the books.       *)
NullToken == [a |-> Empty, ar |-> 0, elig |-> FALSE, bytes |-> 0]

DropReuse(a, s) ==
  IF ~IsCounted(a) \/ IsArena(a, s) THEN [tok |-> NullToken, s |-> s]
  ELSE IF a \notin DOMAIN s.cells THEN [tok |-> NullToken, s |-> Fail("use-after-free", s)]
  ELSE LET c == s.cells[a] IN
    IF c.rc > 1 THEN [tok |-> NullToken, s |-> SetRc(a, c.rc - 1, s)]
    ELSE LET s1 == DropAll(FieldsOf(a, s), Unmap(a, s))
         IN [tok |-> [a |-> a, ar |-> NodeArity(c.node),
                      elig |-> a[1] = "C" \/ NodeCEligible(c.node),
                      bytes |-> c.bytes],
             s   |-> [s1 EXCEPT !.reserved = @ \cup {a}]]

\* The shell takes the new node in place, on the heap it is on.
Restamp(tok, n, s) ==
  IF tok.a[1] = "C" /\ ~FitsDesc(n, s)
    THEN [a |-> tok.a, s |-> Fail("reuseCConAt: descriptor mismatch", s)]
  ELSE [a |-> tok.a,
        s |-> Put(tok.a, 1, n, tok.bytes,
                  IF tok.a[1] = "C" THEN RecordDesc(n, s) ELSE s)]

\* Mutant: the shell stays reserved after it is spent.
MutAllocAt(tok, n, s) ==
  LET s2 == [s EXCEPT !.stats = RecordFree(tok.bytes, @)]
  IN IF tok = NullToken THEN Alloc(n, s)
     ELSE IF NodeArity(n) = tok.ar /\ NodeCEligible(n) = tok.elig
       THEN Restamp(tok, n, s)
     ELSE Alloc(n, IF tok.a[1] = "C" THEN WokFree(tok.a, tok.bytes, s2) ELSE s2)
\* Mutant: a shell that is freed instead of spent stays on the books.
MutAllocAtBooks(tok, n, s) ==
  LET s1 == [s EXCEPT !.reserved = @ \ {tok.a}]
  IN IF tok = NullToken THEN Alloc(n, s)
     ELSE IF NodeArity(n) = tok.ar /\ NodeCEligible(n) = tok.elig
       THEN Restamp(tok, n, s1)
     ELSE Alloc(n, IF tok.a[1] = "C" THEN WokFree(tok.a, tok.bytes, s1) ELSE s1)
AllocAt(tok, n, s) ==
  LET s1 == [s EXCEPT !.reserved = @ \ {tok.a}]
      s2 == [s1 EXCEPT !.stats = RecordFree(tok.bytes, @)]
  IN IF tok = NullToken THEN Alloc(n, s)
     ELSE IF NodeArity(n) = tok.ar /\ NodeCEligible(n) = tok.elig
       THEN Restamp(tok, n, s1)
     ELSE Alloc(n, IF tok.a[1] = "C" THEN WokFree(tok.a, tok.bytes, s2) ELSE s2)

-----------------------------------------------------------------------------
(* The uncounted arena.                                                    *)
ArenaOpen(s) == [s EXCEPT !.arena = <<{}>> \o @, !.arenaC = <<{}>> \o @]

ArenaAllocPure(n, bytes, s) ==
  [a |-> HAddr(s.next),
   s |-> [Put(HAddr(s.next), 1, n, bytes, s)
            EXCEPT !.next = @ + 1, !.arena[1] = @ \cup {HAddr(s.next)},
                   !.stats = RecordArena(bytes, @)]]

ArenaAllocC(n, s) ==
  LET p     == CAddr(s.fresh)
      bytes == WouldBeCBytes(n)
  IN [a |-> p,
      s |-> [Put(p, 1, n, bytes, s)
               EXCEPT !.fresh = @ + 1, !.arenaC[1] = @ \cup {p},
                      !.stats = RecordArena(bytes, @)]]

ArenaAlloc(n, s) ==
  IF s.arena = <<>> THEN [a |-> Empty, s |-> Fail("no open arena frame", s)]
  ELSE IF s.backend = "abs" \/ ~NodeCEligible(n)
    THEN ArenaAllocPure(n, WouldBeCBytes(n), s)
  ELSE IF ~FitsDesc(n, s) THEN ArenaAllocPure(n, 0, s)
  ELSE ArenaAllocC(n, RecordDesc(n, s))

\* Close one half of the innermost frame: its cells' children, read before any
\* of them is dropped, are dropped, the frame's own cells among them excepted
\* (they are arena cells); then the cells go and their bytes leave the arena's
\* books.
KidsOf(frame, s) ==
  LET ps == UNION {{a} \X DOMAIN s.cells[a].node.fs : a \in frame}
      es == SetToSeq(ps)
  IN [i \in 1 .. Cardinality(ps) |-> FieldsOf(es[i][1], s)[es[i][2]]]
ScanOut(frame, s) ==
  LET bytes == SumFunction([a \in frame |-> s.cells[a].bytes])
  IN [DropAll(KidsOf(frame, s), s) EXCEPT !.cells = Restrict(@, DOMAIN @ \ frame),
                                          !.stats.arena = @ - bytes]

ArenaClose(s) ==
  IF s.arena = <<>> THEN Fail("no open arena frame", s)
  ELSE LET s1 == [ScanOut(Head(s.arena), s) EXCEPT !.arena = Tail(@)]
       IN [ScanOut(Head(s.arenaC), s1) EXCEPT !.arenaC = Tail(@)]
=============================================================================
