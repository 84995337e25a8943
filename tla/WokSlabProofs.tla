---------------------------- MODULE WokSlabProofs ----------------------------
(***************************************************************************)
(* The slab backend, for every size of word, slab and class: the sizes the   *)
(* allocator computes are the sizes that are filled; the arena mallocs no   *)
(* more slabs than were ever in use at once; cells, dead or live, lie apart *)
(* and no word is lost; the figures are exact.  The last two rest on sums   *)
(* over cells, which do not depend on the order they are taken in.          *)
(***************************************************************************)
EXTENDS WokSlab, CountProofs

LEMMA NoWrap == ASSUME NEW x \in Nat, x <= SizeMax PROVE Wrap(x) = x
  BY CellAssumption, SMT DEF CellAssumption, Wrap

LEMMA EightDivides ==
    ASSUME NEW x \in Nat
    PROVE  (8 + 8 * x) \div 8 = 1 + x /\ (16 + 8 * x) \div 8 = 2 + x
  BY SMT

\* A shape that passes the overflow test, and whose constructor arity is one
\* the interpreter can ask for.
Askable(c) ==
    /\ c \in Cell /\ ~Overflows(c)
    /\ c.kind = "con" => Word + Word * c.n <= SizeMax

\* The overflow tests of wok_array_cell_bytes and wok_string_cell_bytes are
\* exactly strong enough: whatever they let through, the modular size is the
\* number of words that will be written.
THEOREM SizesExact == ASSUME NEW c, Askable(c) PROVE WordsOf(c) = TrueWords(c)
<1> USE CellAssumption DEF CellAssumption
<1>0. c.n \in Nat /\ c.kind \in Kinds
  BY DEF Askable, Cell
<1>1. CASE c.kind = "con"
  <2>1. Bytes(c) = 8 + 8 * c.n /\ TrueWords(c) = 1 + c.n
    BY <1>1 DEF Bytes, TrueWords, Word, ByteBlocks
  <2> QED
    BY <1>0, <2>1, EightDivides DEF WordsOf, Word
<1>2. CASE c.kind = "array"
  <2>1. 16 + 8 * c.n <= SizeMax
    BY <1>0, <1>2, SMT DEF Askable, Overflows, Word
  <2>2. Wrap(8 * c.n) = 8 * c.n /\ Wrap(16 + 8 * c.n) = 16 + 8 * c.n
    BY <1>0, <2>1, NoWrap, SMT
  <2>3. Bytes(c) = 16 + 8 * c.n
    BY <1>2, <2>2 DEF Bytes, Word, ByteBlocks
  <2>4. TrueWords(c) = 2 + c.n
    BY <1>2 DEF TrueWords, ByteBlocks
  <2> QED
    BY <1>0, <2>3, <2>4, EightDivides DEF WordsOf, Word
<1>3. CASE c.kind \in ByteBlocks
  <2> DEFINE g == (c.n + 7) \div 8
  <2>1. c.n + 7 <= SizeMax /\ 16 + 8 * g <= SizeMax /\ g \in Nat
    BY <1>0, <1>3, SMT DEF Askable, Overflows, ByteBlocks, Word
  <2>2. Wrap(c.n + 7) = c.n + 7 /\ Wrap(16 + 8 * g) = 16 + 8 * g
    BY <1>0, <2>1, NoWrap, SMT
  <2>3. Bytes(c) = 16 + 8 * g
    BY <1>3, <2>2 DEF Bytes, Word, ByteBlocks
  <2>4. TrueWords(c) = 2 + g
    BY <1>3 DEF TrueWords, ByteBlocks
  <2> QED
    BY <2>1, <2>3, <2>4, EightDivides DEF WordsOf, Word
<1>4. CASE c.kind = "view"
  BY <1>4, SMT DEF WordsOf, Bytes, TrueWords, Word, ByteBlocks, Handles
<1>5. CASE c.kind \in Handles
  BY <1>5, SMT DEF WordsOf, Bytes, TrueWords, Word, ByteBlocks, Handles
<1> QED
  BY <1>0, <1>1, <1>2, <1>3, <1>4, <1>5 DEF Kinds, ByteBlocks, Handles

\* A free list mixes shapes (a constructor's dead cell becomes an array's):
\* every cell of a class is one word longer than the class number, whatever
\* its shape, and fits a slab after the header word.
THEOREM ClassFixesSize ==
    ASSUME NEW c, Askable(c), ~IsLarge(c)
    PROVE  WordsOf(c) = Class(c) + 1 /\ 1 + WordsOf(c) <= SlabWords
<1> USE CellAssumption DEF CellAssumption
<1>0. c.n \in Nat /\ c.kind \in Kinds
  BY DEF Askable, Cell
<1>1. WordsOf(c) = TrueWords(c)
  BY SizesExact
<1>2. Class(c) < NumClasses /\ Class(c) \in Nat
  BY <1>0, SMT DEF IsLarge, Class, Kinds, ByteBlocks, Handles
<1>3. TrueWords(c) = Class(c) + 1
  BY <1>0, <1>2, SMT DEF TrueWords, Class, Kinds, ByteBlocks, Handles
<1> QED
  BY <1>1, <1>2, <1>3, SMT
-----------------------------------------------------------------------------
(* The arena's slabs.  A slab malloc'd for the arena is in use or on the      *)
(* reclaimed list until the heap is torn down, and a fresh one is malloc'd    *)
(* only when that list is empty: the count is at its peak exactly then.       *)

ArenaInv ==
    /\ aSlabs \in Seq(1 .. MaxBlocks) /\ aFree \in Seq(1 .. MaxBlocks)
    /\ aMalloced \in Nat /\ up \in BOOLEAN
    /\ up => aMalloced = Len(aSlabs) + Len(aFree)
    /\ aNeed = aMalloced

LEMMA ArenaInit == Init => ArenaInv
  BY DEF Init, ArenaInv

\* Reversing the grown slabs loses none of them.
LEMMA FlipKeeps ==
    ASSUME NEW S, NEW s \in Seq(S)
    PROVE  Flip(s) \in Seq(S) /\ Len(Flip(s)) = Len(s)
<1>1. \A i \in 1 .. Len(s) : Len(s) + 1 - i \in 1 .. Len(s)
  OBVIOUS
<1>2. Flip(s) \in [1 .. Len(s) -> S]
  BY <1>1 DEF Flip
<1> QED
  BY <1>2

LEMMA PushKeeps ==
    ASSUME NEW S, NEW s \in Seq(S), NEW x \in S
    PROVE  <<x>> \o s \in Seq(S) /\ Len(<<x>> \o s) = Len(s) + 1
  OBVIOUS

LEMMA LenType == ASSUME NEW S, NEW s \in Seq(S) PROVE Len(s) \in Nat
  OBVIOUS

LEMMA TailKeeps ==
    ASSUME NEW S, NEW s \in Seq(S), s # <<>>
    PROVE  Head(s) \in S /\ Tail(s) \in Seq(S) /\ Len(Tail(s)) = Len(s) - 1
  OBVIOUS

LEMMA SplitKeeps ==
    ASSUME NEW S, NEW s \in Seq(S), NEW k \in 0 .. Len(s)
    PROVE  /\ SubSeq(s, 1, k) \in Seq(S) /\ Len(SubSeq(s, 1, k)) = k
           /\ SubSeq(s, k + 1, Len(s)) \in Seq(S)
           /\ Len(SubSeq(s, k + 1, Len(s))) = Len(s) - k
  OBVIOUS

LEMMA JoinKeeps ==
    ASSUME NEW S, NEW s \in Seq(S), NEW t \in Seq(S)
    PROVE  s \o t \in Seq(S) /\ Len(s \o t) = Len(s) + Len(t)
  OBVIOUS

LEMMA GrownBounded == ASSUME NEW S, aSlabs \in Seq(S) PROVE Grown \in 0 .. Len(aSlabs)
<1> DEFINE G == {i \in DOMAIN aSlabs : \A j \in 1 .. i : aSlabs[j] # TopFrame.slab}
<1>0. Len(aSlabs) \in Nat /\ 1 \in Int /\ Len(aSlabs) \in Int
  OBVIOUS
<1>1. IsFiniteSet(1 .. Len(aSlabs)) /\ Cardinality(1 .. Len(aSlabs)) = Len(aSlabs)
  BY <1>0, FS_Interval
<1>2. G \subseteq 1 .. Len(aSlabs)
  OBVIOUS
<1>3. IsFiniteSet(G) /\ Cardinality(G) <= Len(aSlabs) /\ Cardinality(G) \in Nat
  BY <1>1, <1>2, FS_Subset, FS_CardinalityType
<1> QED
  BY <1>3 DEF Grown

LEMMA GrowStep == ASSUME ArenaInv, NEW c \in Requests, ArenaGrow(c) PROVE ArenaInv'
<1>0. /\ up /\ up' = up
      /\ aNeed' = IF Len(aSlabs') > aNeed THEN Len(aSlabs') ELSE aNeed
  BY DEF ArenaGrow, ArenaStamp
<1>1. CASE aFree # <<>>
  <2>1. /\ aSlabs' = <<Head(aFree)>> \o aSlabs /\ aFree' = Tail(aFree)
        /\ aMalloced' = aMalloced
    BY <1>1 DEF ArenaGrow
  <2>2. /\ aSlabs' \in Seq(1 .. MaxBlocks) /\ Len(aSlabs') = Len(aSlabs) + 1
        /\ aFree' \in Seq(1 .. MaxBlocks) /\ Len(aFree') = Len(aFree) - 1
    BY <1>1, <2>1, PushKeeps, TailKeeps DEF ArenaInv
  <2> QED
    BY <1>0, <2>1, <2>2 DEF ArenaInv
<1>2. CASE aFree = <<>>
  <2>1. /\ Unused # {} /\ aSlabs' = <<NewBlock>> \o aSlabs
        /\ aMalloced' = aMalloced + 1 /\ aFree' = aFree
    BY <1>2 DEF ArenaGrow
  <2>2. NewBlock \in 1 .. MaxBlocks
    BY <2>1 DEF NewBlock, Unused
  <2>3. aSlabs' \in Seq(1 .. MaxBlocks) /\ Len(aSlabs') = Len(aSlabs) + 1
    BY <2>1, <2>2, PushKeeps DEF ArenaInv
  <2> QED
    BY <1>0, <1>2, <2>1, <2>3 DEF ArenaInv
<1> QED
  BY <1>1, <1>2

LEMMA CloseStep == ASSUME ArenaInv, ArenaClose PROVE ArenaInv'
<1> DEFINE g == Grown
<1>1. /\ up /\ up' = up /\ aMalloced' = aMalloced /\ aNeed' = aNeed
      /\ aFree' = Flip(SubSeq(aSlabs, 1, g)) \o aFree
      /\ aSlabs' = SubSeq(aSlabs, g + 1, Len(aSlabs))
  BY DEF ArenaClose, Pop
<1>2. g \in 0 .. Len(aSlabs) /\ Len(aSlabs) \in Nat
  BY GrownBounded DEF ArenaInv
<1> HIDE DEF g
<1>3. SubSeq(aSlabs, 1, g) \in Seq(1 .. MaxBlocks) /\ Len(SubSeq(aSlabs, 1, g)) = g
  BY <1>2, SplitKeeps DEF ArenaInv
<1>4. aSlabs' \in Seq(1 .. MaxBlocks) /\ Len(aSlabs') = Len(aSlabs) - g
  BY <1>1, <1>2, SplitKeeps DEF ArenaInv
<1>5. /\ Flip(SubSeq(aSlabs, 1, g)) \in Seq(1 .. MaxBlocks)
      /\ Len(Flip(SubSeq(aSlabs, 1, g))) = g
  BY <1>3, FlipKeeps
<1>6. aFree' \in Seq(1 .. MaxBlocks) /\ Len(aFree') = g + Len(aFree)
  <2>1. aFree \in Seq(1 .. MaxBlocks)
    BY DEF ArenaInv
  <2>2. \A t \in Seq(1 .. MaxBlocks) :
           t \o aFree \in Seq(1 .. MaxBlocks) /\ Len(t \o aFree) = Len(t) + Len(aFree)
    BY <2>1, JoinKeeps
  <2> QED
    BY <1>1, <1>5, <2>2, Zenon
<1>7. aMalloced \in Nat /\ aMalloced = Len(aSlabs) + Len(aFree) /\ aNeed = aMalloced
  BY <1>1 DEF ArenaInv
<1>8. aMalloced = Len(aSlabs') + Len(aFree')
  BY <1>2, <1>4, <1>6, <1>7, LenType DEF ArenaInv
<1>9. up' \in BOOLEAN
  BY <1>1 DEF ArenaInv
<1> QED
  BY <1>1, <1>4, <1>6, <1>7, <1>8, <1>9 DEF ArenaInv

LEMMA ArenaStep == ArenaInv /\ [Next]_vars => ArenaInv'
<1> SUFFICES ASSUME ArenaInv, [Next]_vars PROVE ArenaInv'
  OBVIOUS
<1> DEFINE Same == UNCHANGED <<up, aSlabs, aFree, aMalloced, aNeed>>
<1>0. Same => ArenaInv'
  BY DEF ArenaInv
<1>1. ASSUME NEW c \in Requests,
             AllocReuse(c) \/ AllocBump(c) \/ AllocGrow(c) \/ AllocLarge(c)
      PROVE  Same
  BY <1>1 DEF AllocReuse, AllocBump, AllocGrow, AllocLarge, Stamp, arena
<1>2. ASSUME NEW c \in Requests, ArenaBump(c) PROVE Same
  BY <1>2 DEF ArenaBump, ArenaStamp
<1>3. ASSUME NEW c \in Requests, NEW p \in DOMAIN held, AllocAt(p, c) PROVE Same
  BY <1>3 DEF AllocAt, arena
<1>4. ASSUME NEW p \in DOMAIN held, Dup(p) \/ Dec(p) \/ Free(p) PROVE Same
  BY <1>4 DEF Dup, Dec, Free, arena
<1>5. CASE ArenaOpen
  BY <1>0, <1>5 DEF ArenaOpen
<1>6. CASE HeapFree
  <2>1. /\ up' = FALSE /\ aSlabs' = <<>> /\ aFree' = <<>>
        /\ aMalloced' = aMalloced /\ aNeed' = aNeed
    BY <1>6 DEF HeapFree
  <2>2. <<>> \in Seq(1 .. MaxBlocks)
    OBVIOUS
  <2>3. aMalloced \in Nat /\ aNeed = aMalloced
    BY DEF ArenaInv
  <2> QED
    BY <2>1, <2>2, <2>3, Zenon DEF ArenaInv
<1>7. CASE UNCHANGED vars
  BY <1>0, <1>7 DEF vars
<1> QED
  BY <1>0, <1>1, <1>2, <1>3, <1>4, <1>5, <1>6, <1>7, GrowStep, CloseStep DEF Next

\* However many scopes open, grow and close, the arena has malloc'd exactly
\* as many slabs as were in use at the worst moment (wok_arena_close recycles,
\* wok_new_arena_slab takes from the recycled list first).
THEOREM ArenaBounded == Spec => []ArenaSlabsPeak
<1>1. ArenaInv => ArenaSlabsPeak
  BY DEF ArenaInv, ArenaSlabsPeak
<1> QED
  BY <1>1, ArenaInit, ArenaStep, PTL DEF Spec

-----------------------------------------------------------------------------
(* Bytes held.                                                              *)

LEMMA BytesExact ==
    ASSUME NEW c, Askable(c)
    PROVE  Bytes(c) = Word * TrueWords(c) /\ TrueWords(c) \in Nat \ {0}
<1> USE CellAssumption DEF CellAssumption
<1>0. c.n \in Nat /\ c.kind \in Kinds
  BY DEF Askable, Cell
<1>1. CASE c.kind = "con"
  BY <1>0, <1>1 DEF Bytes, TrueWords, Word, ByteBlocks
<1>2. CASE c.kind = "array"
  <2>1. 16 + 8 * c.n <= SizeMax
    BY <1>0, <1>2, SMT DEF Askable, Overflows, Word
  <2>2. Wrap(8 * c.n) = 8 * c.n /\ Wrap(16 + 8 * c.n) = 16 + 8 * c.n
    BY <1>0, <2>1, NoWrap, SMT
  <2>3. Bytes(c) = 16 + 8 * c.n
    BY <1>2, <2>2 DEF Bytes, Word, ByteBlocks
  <2>4. TrueWords(c) = 2 + c.n
    BY <1>2 DEF TrueWords, ByteBlocks
  <2> QED
    BY <1>0, <2>3, <2>4 DEF Word
<1>3. CASE c.kind \in ByteBlocks
  <2> DEFINE g == (c.n + 7) \div 8
  <2>1. c.n + 7 <= SizeMax /\ 16 + 8 * g <= SizeMax /\ g \in Nat
    BY <1>0, <1>3, SMT DEF Askable, Overflows, ByteBlocks, Word
  <2>2. Wrap(c.n + 7) = c.n + 7 /\ Wrap(16 + 8 * g) = 16 + 8 * g
    BY <1>0, <2>1, NoWrap, SMT
  <2>3. Bytes(c) = 16 + 8 * g
    BY <1>3, <2>2 DEF Bytes, Word, ByteBlocks
  <2>4. TrueWords(c) = 2 + g
    BY <1>3 DEF TrueWords, ByteBlocks
  <2> HIDE DEF g
  <2> QED
    BY <2>1, <2>3, <2>4 DEF Word
<1>4. CASE c.kind = "view"
  BY <1>4 DEF Bytes, TrueWords, Word, ByteBlocks, Handles
<1>5. CASE c.kind \in Handles
  BY <1>5 DEF Bytes, TrueWords, Word, ByteBlocks, Handles
<1> QED
  BY <1>0, <1>1, <1>2, <1>3, <1>4, <1>5 DEF Kinds, ByteBlocks, Handles

\* A cell of a class has one word more than the class number.
LEMMA ClassWords ==
    ASSUME NEW c, Askable(c), ~IsLarge(c)
    PROVE  /\ Class(c) \in 0 .. NumClasses - 1 /\ TrueWords(c) = Class(c) + 1
           /\ TrueWords(c) \in 1 .. NumClasses
<1> USE CellAssumption DEF CellAssumption
<1>0. c.n \in Nat /\ c.kind \in Kinds
  BY DEF Askable, Cell
<1>1. Class(c) < NumClasses /\ Class(c) \in Nat
  BY <1>0, SMT DEF IsLarge, Class, Kinds, ByteBlocks, Handles
<1>2. TrueWords(c) = Class(c) + 1
  BY SizesExact, ClassFixesSize
<1> QED
  BY <1>1, <1>2

\* What is true of a shape is true of a cell of that shape, whatever its count.
ShapeOf(c) == [kind |-> c.kind, n |-> c.n]

LEMMA ShapeAlone ==
    ASSUME NEW c
    PROVE  /\ Bytes(ShapeOf(c)) = Bytes(c) /\ TrueWords(ShapeOf(c)) = TrueWords(c)
           /\ Class(ShapeOf(c)) = Class(c) /\ (IsLarge(ShapeOf(c)) <=> IsLarge(c))
           /\ Bytes(Counted(c)) = Bytes(c) /\ TrueWords(Counted(c)) = TrueWords(c)
           /\ Class(Counted(c)) = Class(c) /\ (IsLarge(Counted(c)) <=> IsLarge(c))
           /\ ShapeOf(Counted(c)) = ShapeOf(c)
  BY DEF ShapeOf, Counted, Bytes, TrueWords, Class, IsLarge

Bulk(f) == IsFiniteSet(DOMAIN f) /\ \A p \in DOMAIN f : TrueWords(f[p]) \in Nat

BytesAt(f, p) == IF p \in DOMAIN f THEN Word * TrueWords(f[p]) ELSE 0

\* Two sets of cells that differ at one address.
LEMMA BytesOther ==
  ASSUME NEW f, Bulk(f), NEW h, Bulk(h), NEW p,
         DOMAIN f \ {p} = DOMAIN h \ {p}, \A x \in DOMAIN f \ {p} : f[x] = h[x]
  PROVE  /\ BytesHeld(f) \in Nat /\ BytesHeld(h) \in Nat
         /\ BytesAt(f, p) \in Nat /\ BytesAt(h, p) \in Nat
         /\ BytesHeld(h) - BytesAt(h, p) = BytesHeld(f) - BytesAt(f, p)
<1> DEFINE F == [x \in DOMAIN f |-> Word * TrueWords(f[x])]
           H == [x \in DOMAIN h |-> Word * TrueWords(h[x])]
<1>1. /\ DOMAIN F = DOMAIN f /\ DOMAIN H = DOMAIN h
      /\ \A x \in DOMAIN F : F[x] \in Nat
      /\ \A x \in DOMAIN H : H[x] \in Nat
      /\ \A x \in DOMAIN F \ {p} : F[x] = H[x]
  BY DEF Bulk, Word
<1>2. /\ (IF p \in DOMAIN F THEN F[p] ELSE 0) = BytesAt(f, p)
      /\ (IF p \in DOMAIN H THEN H[p] ELSE 0) = BytesAt(h, p)
  BY DEF BytesAt
<1>3. BytesHeld(f) = SumFunction(F) /\ BytesHeld(h) = SumFunction(H)
  BY DEF BytesHeld
<1>4. IsFiniteSet(DOMAIN F) /\ IsFiniteSet(DOMAIN H) /\ DOMAIN F \ {p} = DOMAIN H \ {p}
  BY <1>1 DEF Bulk
<1>5. BytesAt(f, p) \in Nat /\ BytesAt(h, p) \in Nat
  BY DEF BytesAt, Bulk, Word
<1> HIDE DEF F, H
<1>6. QED
  BY <1>1, <1>2, <1>3, <1>4, <1>5, SumOther

LEMMA BytesPut ==
  ASSUME NEW f, Bulk(f), NEW p, p \notin DOMAIN f, NEW c, TrueWords(c) \in Nat
  PROVE  /\ Bulk(Put(p, c, f)) /\ BytesHeld(f) \in Nat
         /\ BytesHeld(Put(p, c, f)) = BytesHeld(f) + Word * TrueWords(c)
<1> DEFINE h == Put(p, c, f)
<1>1. /\ DOMAIN h = DOMAIN f \cup {p} /\ h[p] = c
      /\ \A x \in DOMAIN f : h[x] = f[x]
  BY DEF Put
<1>2. Bulk(h)
  BY <1>1, FS_AddElement DEF Bulk
<1>3. BytesAt(h, p) = Word * TrueWords(c) /\ BytesAt(f, p) = 0
  BY <1>1 DEF BytesAt
<1> HIDE DEF h
<1>4. /\ BytesHeld(f) \in Nat /\ BytesHeld(h) \in Nat
      /\ BytesHeld(h) - BytesAt(h, p) = BytesHeld(f) - BytesAt(f, p)
  BY <1>1, <1>2, BytesOther
<1>5. QED
  BY <1>2, <1>3, <1>4 DEF h, Word

LEMMA BytesTake ==
  ASSUME NEW f, Bulk(f), NEW p \in DOMAIN f
  PROVE  /\ Bulk(Restrict(f, DOMAIN f \ {p})) /\ BytesHeld(f) \in Nat
         /\ BytesHeld(Restrict(f, DOMAIN f \ {p})) = BytesHeld(f) - Word * TrueWords(f[p])
         /\ BytesHeld(Restrict(f, DOMAIN f \ {p})) \in Nat
<1> DEFINE h == Restrict(f, DOMAIN f \ {p})
<1>1. /\ DOMAIN h = DOMAIN f \ {p}
      /\ \A x \in DOMAIN f \ {p} : h[x] = f[x]
  BY DEF Restrict
<1>2. Bulk(h)
  BY <1>1, FS_Subset DEF Bulk
<1>3. BytesAt(f, p) = Word * TrueWords(f[p]) /\ BytesAt(h, p) = 0
  BY <1>1 DEF BytesAt
<1> HIDE DEF h
<1>4. /\ BytesHeld(f) \in Nat /\ BytesHeld(h) \in Nat /\ BytesAt(f, p) \in Nat
      /\ BytesHeld(h) - BytesAt(h, p) = BytesHeld(f) - BytesAt(f, p)
  BY <1>1, <1>2, BytesOther
<1>5. QED
  BY <1>2, <1>3, <1>4 DEF h, Word

\* Cells stamped again, or counted up or down, weigh the same.
LEMMA BytesStill ==
  ASSUME NEW f, Bulk(f), NEW h, DOMAIN h = DOMAIN f,
         \A x \in DOMAIN f : TrueWords(h[x]) = TrueWords(f[x])
  PROVE  Bulk(h) /\ BytesHeld(h) = BytesHeld(f)
<1>1. [x \in DOMAIN f |-> Word * TrueWords(f[x])] = [x \in DOMAIN h |-> Word * TrueWords(h[x])]
  OBVIOUS
<1>2. BytesHeld(h) = BytesHeld(f)
  BY <1>1 DEF BytesHeld
<1>3. QED
  BY <1>2 DEF Bulk

-----------------------------------------------------------------------------
(* Where counted cells lie.                                                 *)

HeldCell == [kind : Kinds, n : Nat, rc : 0 .. MaxRc]

\* Cells held have an address, a shape a client may ask for and a count;
\* the ones with no class lie at the start of a block.
HeldShape ==
    /\ IsFiniteSet(DOMAIN held)
    /\ \A p \in DOMAIN held :
          /\ p \in Addr /\ held[p] \in HeldCell /\ Askable(ShapeOf(held[p]))
          /\ IsLarge(held[p]) => p[2] = 0

\* A cell given back is on one list, once, and not held.
FreeApart ==
    /\ freelist \in [0 .. NumClasses - 1 -> Seq(Addr)]
    /\ \A c, d \in DOMAIN freelist : \A i \in DOMAIN freelist[c], j \in DOMAIN freelist[d] :
          freelist[c][i] = freelist[d][j] => c = d /\ i = j
    /\ \A c \in DOMAIN freelist : \A i \in DOMAIN freelist[c] : freelist[c][i] \notin DOMAIN held

\* The cells carved from counted slabs, live or dead, with their length.  A
\* cell that is freed, taken from its list or stamped again stays the same.
LiesIn(h, free, p, w) ==
    \/ p \in DOMAIN h /\ ~IsLarge(h[p]) /\ w = Class(h[p]) + 1
    \/ \E i \in DOMAIN free[w - 1] : free[w - 1][i] = p
Laid == {l \in Addr \X (1 .. NumClasses) : LiesIn(held, freelist, l[1], l[2])}

\* Cell l lies before word o of its slab, and covers it.
EndsBy(l, o) == l[1][2] + l[2] <= o
Covers(l, b, o) == l[1][1] = b /\ l[1][2] <= o /\ o < l[1][2] + l[2]

\* Carved cells fill every slab without gap or overlap, from its header to
\* where it was full.
FullTo(L, s, bp, fill) ==
    /\ fill \in [Members(s) -> 1 .. SlabWords]
    /\ s = <<>> => bp = Null
    /\ s # <<>> => bp = <<s[1], fill[s[1]]>>
    /\ \A i \in DOMAIN s : i # 1 => SlabWords - fill[s[i]] < NumClasses
    /\ \A l \in L : l[1][1] \in Members(s) /\ l[1][2] >= 1 /\ EndsBy(l, fill[l[1][1]])
    /\ \A l, m \in L : l # m /\ l[1][1] = m[1][1] => EndsBy(l, m[1][2]) \/ EndsBy(m, l[1][2])
    /\ \A b \in Members(s) : \A o \in 1 .. fill[b] - 1 : \E l \in L : Covers(l, b, o)

Filled(L, s, bp) == \E fill : FullTo(L, s, bp, fill)

NoRepeat(s) == \A i, j \in DOMAIN s : s[i] = s[j] => i = j

\* Every block has one owner.
BlocksApart ==
    /\ \A s \in {slabs, aSlabs, aFree} : s \in Seq(1 .. MaxBlocks) /\ NoRepeat(s)
    /\ Members(slabs) \cap Members(aSlabs) = {} /\ Members(slabs) \cap Members(aFree) = {}
    /\ Members(aSlabs) \cap Members(aFree) = {}
    /\ \A p \in LargeHeld : p[1] \notin Members(slabs) \cup Members(aSlabs) \cup Members(aFree)

CountedInv == HeldShape /\ FreeApart /\ BlocksApart /\ Filled(Laid, slabs, bump)

-----------------------------------------------------------------------------
LEMMA FrontIn ==
    ASSUME NEW S, NEW s \in Seq(S), s # <<>>
    PROVE  1 \in DOMAIN s /\ s[1] \in S /\ s[1] = Head(s)
  OBVIOUS

\* Cells are carved from the front slab.
LEMMA CarveHere ==
    ASSUME NEW L, L \subseteq Addr \X (1 .. NumClasses), NEW s \in Seq(1 .. MaxBlocks), NoRepeat(s),
           NEW bp, Filled(L, s, bp), NEW w \in 1 .. NumClasses, w <= Left(bp)
    PROVE  /\ s # <<>> /\ bp \in Addr /\ bp[1] = s[1] /\ bp[2] \in Nat \ {0} /\ bp[2] + w <= SlabWords
           /\ \A l \in L : l[1][1] = bp[1] => l[1][2] < bp[2]
           /\ Filled(L \cup {<<bp, w>>}, s, <<bp[1], bp[2] + w>>)
<1> USE CellAssumption DEF CellAssumption
<1>1. PICK fill : FullTo(L, s, bp, fill)
  BY DEF Filled
<1>2. s # <<>>
  BY <1>1 DEF FullTo, Left, Null
<1> DEFINE b == s[1]  o == fill[s[1]]  new == <<bp, w>>  fill2 == [fill EXCEPT ![b] = o + w]
<1>3. b \in Members(s) /\ b \in 1 .. MaxBlocks /\ 1 \in DOMAIN s
  <2>1. 1 \in DOMAIN s /\ s[1] \in 1 .. MaxBlocks
    BY <1>2, FrontIn
  <2>2. QED
    BY <2>1 DEF Members
<1>4. bp = <<b, o>> /\ o \in 1 .. SlabWords /\ o + w <= SlabWords /\ o \in Nat \ {0}
  <2>1. bp = <<b, o>> /\ o \in 1 .. SlabWords
    BY <1>1, <1>2, <1>3 DEF FullTo
  <2>2. QED
    BY <2>1 DEF Left
<1>5. bp[1] = b /\ bp[2] = o /\ bp \in Addr /\ new[1] = bp /\ new[2] = w
  BY <1>3, <1>4 DEF Addr
<1>6. \A l \in L : l[1][2] \in Nat /\ l[2] \in Nat \ {0} /\ l[1][1] \in Members(s)
                   /\ l[1][2] >= 1 /\ EndsBy(l, fill[l[1][1]])
  BY <1>1 DEF FullTo, Addr
<1>7. fill \in [Members(s) -> 1 .. SlabWords]
  BY <1>1 DEF FullTo
<1> HIDE DEF b, o, new
<1>8. fill2 \in [Members(s) -> 1 .. SlabWords] /\ fill2[b] = o + w
      /\ \A x \in Members(s) : x # b => fill2[x] = fill[x]
  BY <1>3, <1>4, <1>7
<1>9. fill[b] = o
  BY DEF b, o
<1> HIDE DEF fill2
<1>10. \A l \in L : l[1][1] = b => l[1][2] + l[2] <= o /\ l[1][2] < o
  BY <1>6, <1>9, <1>4 DEF EndsBy
<1> DEFINE L2 == L \cup {new}  bp2 == <<bp[1], bp[2] + w>>
<1>11. bp2 = <<s[1], fill2[s[1]]>>
  BY <1>5, <1>8 DEF b
<1>12. \A i \in DOMAIN s : i # 1 => SlabWords - fill2[s[i]] < NumClasses
  <2>1. ASSUME NEW i \in DOMAIN s, i # 1 PROVE SlabWords - fill2[s[i]] < NumClasses
    <3>1. s[i] # b /\ s[i] \in Members(s)
      BY <1>3, <2>1 DEF NoRepeat, b, Members
    <3>2. SlabWords - fill[s[i]] < NumClasses
      BY <1>1, <2>1 DEF FullTo
    <3>3. QED
      BY <1>8, <3>1, <3>2
  <2>2. QED
    BY <2>1
<1>13. \A l \in L2 : l[1][1] \in Members(s) /\ l[1][2] >= 1 /\ EndsBy(l, fill2[l[1][1]])
  <2>1. ASSUME NEW l \in L PROVE EndsBy(l, fill2[l[1][1]])
    <3>1. CASE l[1][1] = b
      <4>1. l[1][2] + l[2] <= o + w
        BY <1>4, <1>6, <1>10, <3>1
      <4>2. QED
        BY <1>8, <3>1, <4>1 DEF EndsBy
    <3>2. CASE l[1][1] # b
      BY <1>6, <1>8, <3>2
    <3>3. QED
      BY <3>1, <3>2
  <2>2. new[1][1] = b /\ new[1][2] = o /\ EndsBy(new, fill2[new[1][1]])
    BY <1>4, <1>5, <1>8 DEF EndsBy
  <2>3. QED
    BY <1>3, <1>4, <1>6, <2>1, <2>2
<1>14. \A l, m \in L2 : l # m /\ l[1][1] = m[1][1] => EndsBy(l, m[1][2]) \/ EndsBy(m, l[1][2])
  <2>1. \A l, m \in L : l # m /\ l[1][1] = m[1][1] => EndsBy(l, m[1][2]) \/ EndsBy(m, l[1][2])
    BY <1>1 DEF FullTo
  <2>2. \A l \in L : l[1][1] = new[1][1] => EndsBy(l, new[1][2])
    BY <1>5, <1>10 DEF EndsBy
  <2>3. QED
    BY <2>1, <2>2
<1>15. \A x \in Members(s) : \A y \in 1 .. fill2[x] - 1 : \E l \in L2 : Covers(l, x, y)
  <2>1. ASSUME NEW x \in Members(s), NEW y \in 1 .. fill2[x] - 1
        PROVE  \E l \in L2 : Covers(l, x, y)
    <3>1. CASE y \in 1 .. fill[x] - 1
      BY <1>1, <3>1 DEF FullTo
    <3>2. CASE y \notin 1 .. fill[x] - 1
      <4>1. x = b
        BY <1>8, <3>2
      <4>2. o <= y /\ y < o + w
        BY <1>4, <1>8, <1>9, <3>2, <4>1
      <4>3. Covers(new, x, y)
        BY <1>5, <4>1, <4>2 DEF Covers
      <4>4. QED
        BY <4>3
    <3>3. QED
      BY <3>1, <3>2
  <2>2. QED
    BY <2>1
<1>16. FullTo(L2, s, bp2, fill2)
  BY <1>2, <1>8, <1>11, <1>12, <1>13, <1>14, <1>15 DEF FullTo
<1>17. Filled(L \cup {<<bp, w>>}, s, <<bp[1], bp[2] + w>>)
  BY <1>16 DEF Filled, new
<1>18. QED
  BY <1>2, <1>4, <1>5, <1>10, <1>17 DEF b

\* A new slab is put in front.
LEMMA CarveNew ==
    ASSUME NEW L, L \subseteq Addr \X (1 .. NumClasses), NEW s \in Seq(1 .. MaxBlocks), NoRepeat(s),
           NEW bp, Filled(L, s, bp), NEW w \in 1 .. NumClasses, ~(w <= Left(bp)),
           NEW b \in (1 .. MaxBlocks) \ Members(s)
    PROVE  Filled(L \cup {<<<<b, 1>>, w>>}, <<b>> \o s, <<b, 1 + w>>)
<1> USE CellAssumption DEF CellAssumption
<1>1. PICK fill : FullTo(L, s, bp, fill)
  BY DEF Filled
<1> DEFINE new == <<<<b, 1>>, w>>  s2 == <<b>> \o s
           fill2 == [x \in Members(s2) |-> IF x = b THEN 1 + w ELSE fill[x]]
<1>2. /\ s2 \in Seq(1 .. MaxBlocks) /\ Len(s2) = Len(s) + 1 /\ s2[1] = b /\ s2 # <<>>
      /\ Len(s) \in Nat /\ \A i \in 2 .. Len(s) + 1 : s2[i] = s[i - 1]
  OBVIOUS
<1>3. Members(s2) = Members(s) \cup {b}
  <2>1. ASSUME NEW x \in Members(s2) PROVE x \in Members(s) \cup {b}
    <3>1. PICK i \in DOMAIN s2 : s2[i] = x
      BY DEF Members
    <3>2. i = 1 \/ (i \in 2 .. Len(s) + 1 /\ i - 1 \in DOMAIN s)
      BY <1>2, <3>1
    <3>3. QED
      BY <1>2, <3>1, <3>2 DEF Members
  <2>2. ASSUME NEW x \in Members(s) PROVE x \in Members(s2)
    <3>1. PICK i \in DOMAIN s : s[i] = x
      BY DEF Members
    <3>2. i + 1 \in DOMAIN s2 /\ s2[i + 1] = x
      BY <1>2, <3>1
    <3>3. QED
      BY <3>2 DEF Members
  <2>3. b \in Members(s2)
    <3>1. 1 \in DOMAIN s2
      BY <1>2
    <3>2. QED
      BY <1>2, <3>1 DEF Members
  <2> HIDE DEF s2
  <2>4. QED
    BY <2>1, <2>2, <2>3
<1>4. fill \in [Members(s) -> 1 .. SlabWords]
  BY <1>1 DEF FullTo
<1>5. 1 + w \in 1 .. SlabWords /\ w \in Nat \ {0}
  OBVIOUS
<1>6. fill2 \in [Members(s2) -> 1 .. SlabWords] /\ fill2[b] = 1 + w
      /\ \A x \in Members(s) : fill2[x] = fill[x]
  BY <1>3, <1>4, <1>5
<1>7. new[1][1] = b /\ new[1][2] = 1 /\ new[2] = w
  OBVIOUS
<1> HIDE DEF fill2, s2, new
<1>8. \A l \in L : l[1][2] \in Nat /\ l[2] \in Nat \ {0} /\ l[1][1] \in Members(s)
                   /\ l[1][2] >= 1 /\ EndsBy(l, fill[l[1][1]])
  BY <1>1 DEF FullTo, Addr
<1>9. \A i \in DOMAIN s2 : i # 1 => SlabWords - fill2[s2[i]] < NumClasses
  <2>1. ASSUME NEW i \in DOMAIN s2, i # 1 PROVE SlabWords - fill2[s2[i]] < NumClasses
    <3>1. i \in 2 .. Len(s) + 1 /\ i - 1 \in DOMAIN s /\ s2[i] = s[i - 1] /\ i - 1 \in Nat
      BY <1>2, <2>1
    <3>2. s2[i] \in Members(s)
      BY <3>1 DEF Members
    <3>3. SlabWords - fill[s[i - 1]] < NumClasses
      <4>1. CASE i - 1 = 1
        <5>1. bp = <<s[1], fill[s[1]]>>
          BY <1>1, <3>1, <4>1 DEF FullTo
        <5>2. fill[s[1]] \in 1 .. SlabWords
          BY <1>4, <3>1, <3>2, <4>1
        <5>3. QED
          BY <4>1, <5>1, <5>2 DEF Left
      <4>2. CASE i - 1 # 1
        BY <1>1, <3>1, <4>2 DEF FullTo
      <4>3. QED
        BY <4>1, <4>2
    <3>4. QED
      BY <1>6, <3>1, <3>2, <3>3
  <2>2. QED
    BY <2>1
<1> DEFINE L2 == L \cup {new}
<1>10. \A l \in L2 : l[1][1] \in Members(s2) /\ l[1][2] >= 1 /\ EndsBy(l, fill2[l[1][1]])
  <2>1. EndsBy(new, fill2[new[1][1]])
    BY <1>5, <1>6, <1>7 DEF EndsBy
  <2>2. QED
    BY <1>3, <1>6, <1>7, <1>8, <2>1
<1>11. \A l, m \in L2 : l # m /\ l[1][1] = m[1][1] => EndsBy(l, m[1][2]) \/ EndsBy(m, l[1][2])
  <2>1. \A l, m \in L : l # m /\ l[1][1] = m[1][1] => EndsBy(l, m[1][2]) \/ EndsBy(m, l[1][2])
    BY <1>1 DEF FullTo
  <2>2. \A l \in L : l[1][1] # new[1][1]
    BY <1>7, <1>8
  <2>3. QED
    BY <2>1, <2>2
<1>12. \A x \in Members(s2) : \A y \in 1 .. fill2[x] - 1 : \E l \in L2 : Covers(l, x, y)
  <2>1. ASSUME NEW x \in Members(s2), NEW y \in 1 .. fill2[x] - 1
        PROVE  \E l \in L2 : Covers(l, x, y)
    <3>1. CASE x = b
      <4>1. 1 <= y /\ y < 1 + w
        BY <1>5, <1>6, <3>1
      <4>2. Covers(new, x, y)
        BY <1>7, <3>1, <4>1 DEF Covers
      <4>3. QED
        BY <4>2
    <3>2. CASE x # b
      <4>1. x \in Members(s) /\ y \in 1 .. fill[x] - 1
        BY <1>3, <1>6, <3>2
      <4>2. QED
        BY <1>1, <4>1 DEF FullTo
    <3>3. QED
      BY <3>1, <3>2
  <2>2. QED
    BY <2>1
<1>13. FullTo(L2, s2, <<b, 1 + w>>, fill2)
  BY <1>2, <1>6, <1>9, <1>10, <1>11, <1>12 DEF FullTo
<1>14. QED
  BY <1>13 DEF Filled, new, s2

-----------------------------------------------------------------------------
(* What the steps do to the counted cells.                                  *)

\* A request that passed the overflow test is a shape that can be asked for.
LEMMA Asked ==
    ASSUME NEW c \in Requests, ~Overflows(c) \/ c.kind = "con"
    PROVE  /\ Askable(c) /\ Askable(ShapeOf(Counted(c)))
           /\ 1 \in 0 .. MaxRc /\ Counted(c) \in HeldCell /\ c \in Cell
<1> USE CellAssumption DEF CellAssumption
<1>1. c \in Cell /\ ShapeOf(c) = c
  BY DEF ShapeOf, Cell
<1>2. Askable(c)
  BY <1>1 DEF Askable, Overflows, ByteBlocks
<1>3. 1 \in 0 .. MaxRc
  BY SlabAssumption DEF SlabAssumption
<1>4. Counted(c) \in HeldCell
  BY <1>1, <1>3 DEF Counted, HeldCell, Cell
<1>5. QED
  BY <1>1, <1>2, <1>3, <1>4, ShapeAlone

\* The state after a cell is stamped at p.
Stamped(p, c) == up /\ ~Overflows(c) /\ held' = Put(p, Counted(c), held)

LEMMA StampHeld ==
    ASSUME HeldShape, NEW c \in Requests, NEW p \in Addr, Stamped(p, c),
           p \notin DOMAIN held, IsLarge(c) => p[2] = 0
    PROVE  /\ HeldShape'
           /\ DOMAIN held' = DOMAIN held \cup {p} /\ held'[p] = Counted(c)
           /\ \A q \in DOMAIN held : held'[q] = held[q]
<1>1. /\ DOMAIN held' = DOMAIN held \cup {p} /\ held'[p] = Counted(c)
      /\ \A q \in DOMAIN held : held'[q] = held[q]
  BY DEF Stamped, Put
<1>2. IsFiniteSet(DOMAIN held')
  BY <1>1, FS_AddElement DEF HeldShape
<1>3. /\ Askable(ShapeOf(Counted(c))) /\ Counted(c) \in HeldCell
      /\ (IsLarge(Counted(c)) => p[2] = 0)
  BY Asked, ShapeAlone DEF Stamped
<1>4. ASSUME NEW q \in DOMAIN held'
      PROVE  /\ q \in Addr /\ held'[q] \in HeldCell /\ Askable(ShapeOf(held'[q]))
             /\ IsLarge(held'[q]) => q[2] = 0
  BY <1>1, <1>3, <1>4 DEF HeldShape
<1>5. HeldShape'
  BY <1>2, <1>4 DEF HeldShape
<1>6. QED
  BY <1>1, <1>5

\* A cell from the list of its class.
LEMMA ReuseKeeps ==
    ASSUME CountedInv, NEW c \in Requests, AllocReuse(c)
    PROVE  CountedInv' /\ Head(freelist[Class(c)]) \in Addr \ DOMAIN held
           /\ <<Head(freelist[Class(c)]), TrueWords(c)>> \in Laid /\ Laid' = Laid
<1> DEFINE k == Class(c)  p == Head(freelist[k])
<1>1. /\ ~IsLarge(c) /\ freelist[k] # <<>> /\ Stamped(p, c)
      /\ freelist' = [freelist EXCEPT ![k] = Tail(freelist[k])]
      /\ UNCHANGED <<slabs, bump, aSlabs, aFree>>
  BY DEF AllocReuse, Admit, Stamp, Stamped, arena
<1>2. Askable(c) /\ k \in 0 .. NumClasses - 1 /\ TrueWords(c) = k + 1 /\ k + 1 \in 1 .. NumClasses
  BY <1>1, Asked, ClassWords DEF Stamped
<1>3. freelist[k] \in Seq(Addr) /\ k \in DOMAIN freelist
  BY <1>2 DEF CountedInv, FreeApart
<1>4. 1 \in DOMAIN freelist[k] /\ p = freelist[k][1] /\ p \in Addr /\ p \notin DOMAIN held
  <2>1. 1 \in DOMAIN freelist[k] /\ p = freelist[k][1] /\ p \in Addr
    BY <1>1, <1>3, FrontIn
  <2>2. QED
    BY <1>3, <2>1 DEF CountedInv, FreeApart
<1>5. /\ Tail(freelist[k]) \in Seq(Addr) /\ Len(freelist[k]) \in Nat
      /\ DOMAIN freelist[k] = 1 .. Len(freelist[k])
      /\ DOMAIN Tail(freelist[k]) = 1 .. Len(freelist[k]) - 1
      /\ \A i \in 1 .. Len(freelist[k]) - 1 : Tail(freelist[k])[i] = freelist[k][i + 1]
  BY <1>1, <1>3
<1> HIDE DEF k, p
<1>6. /\ HeldShape' /\ DOMAIN held' = DOMAIN held \cup {p} /\ held'[p] = Counted(c)
      /\ \A q \in DOMAIN held : held'[q] = held[q]
  BY <1>1, <1>4, StampHeld DEF CountedInv
<1>7. /\ ~IsLarge(held'[p]) /\ Class(held'[p]) = k
  BY <1>1, <1>6, ShapeAlone DEF k
<1>8. /\ freelist' \in [0 .. NumClasses - 1 -> Seq(Addr)]
      /\ freelist'[k] = Tail(freelist[k]) /\ DOMAIN freelist' = DOMAIN freelist
      /\ DOMAIN freelist = 0 .. NumClasses - 1
      /\ \A d \in DOMAIN freelist : d # k => freelist'[d] = freelist[d]
  BY <1>1, <1>2, <1>5 DEF CountedInv, FreeApart
<1>9. /\ \A d \in DOMAIN freelist : \A i \in DOMAIN freelist'[d] :
            \E j \in DOMAIN freelist[d] : /\ freelist[d][j] = freelist'[d][i]
                                          /\ j = IF d = k THEN i + 1 ELSE i
  <2>1. ASSUME NEW d \in DOMAIN freelist, NEW i \in DOMAIN freelist'[d]
        PROVE  \E j \in DOMAIN freelist[d] : /\ freelist[d][j] = freelist'[d][i]
                                             /\ j = IF d = k THEN i + 1 ELSE i
    <3>1. CASE d = k
      BY <1>5, <1>8, <3>1
    <3>2. CASE d # k
      BY <1>8, <3>2
    <3>3. QED
      BY <3>1, <3>2
  <2>2. QED
    BY <2>1
<1>10. FreeApart'
  <2>1. ASSUME NEW d \in DOMAIN freelist, NEW e \in DOMAIN freelist,
               NEW i \in DOMAIN freelist'[d], NEW j \in DOMAIN freelist'[e],
               freelist'[d][i] = freelist'[e][j]
        PROVE  d = e /\ i = j
    <3>1. PICK m \in DOMAIN freelist[d] : /\ freelist[d][m] = freelist'[d][i]
                                          /\ m = IF d = k THEN i + 1 ELSE i
      BY <1>9
    <3>2. PICK n \in DOMAIN freelist[e] : /\ freelist[e][n] = freelist'[e][j]
                                          /\ n = IF e = k THEN j + 1 ELSE j
      BY <1>9
    <3>3. d = e /\ m = n
      BY <2>1, <3>1, <3>2 DEF CountedInv, FreeApart
    <3>4. i \in Nat /\ j \in Nat
      <4>1. freelist'[d] \in Seq(Addr) /\ freelist'[e] \in Seq(Addr)
        BY <1>8
      <4>2. QED
        BY <4>1
    <3>5. QED
      BY <3>1, <3>2, <3>3, <3>4
  <2>2. ASSUME NEW d \in DOMAIN freelist, NEW i \in DOMAIN freelist'[d]
        PROVE  freelist'[d][i] \notin DOMAIN held'
    <3>1. PICK m \in DOMAIN freelist[d] : /\ freelist[d][m] = freelist'[d][i]
                                          /\ m = IF d = k THEN i + 1 ELSE i
      BY <1>9
    <3>2. freelist[d][m] \notin DOMAIN held
      BY DEF CountedInv, FreeApart
    <3>3. i \in Nat \ {0}
      <4>1. freelist'[d] \in Seq(Addr)
        BY <1>8
      <4>2. QED
        BY <4>1
    <3>4. freelist[d][m] # p
      BY <1>3, <1>4, <3>1, <3>3 DEF CountedInv, FreeApart
    <3>5. QED
      BY <1>6, <3>1, <3>2, <3>4
  <2>3. QED
    BY <1>8, <2>1, <2>2 DEF FreeApart
<1>20. \A w \in 1 .. NumClasses : w \in Nat /\ w - 1 \in DOMAIN freelist
  BY <1>8, CellAssumption DEF CellAssumption
<1>11. Laid' = Laid
  <2>1. ASSUME NEW q \in Addr, NEW w \in 1 .. NumClasses, LiesIn(held, freelist, q, w)
        PROVE  LiesIn(held', freelist', q, w)
    <3>1. CASE q \in DOMAIN held
      <4>1. ~ \E i \in DOMAIN freelist[w - 1] : freelist[w - 1][i] = q
        <5>1. w - 1 \in DOMAIN freelist
          BY <1>20
        <5>2. QED
          BY <3>1, <5>1 DEF CountedInv, FreeApart
      <4>2. QED
        BY <1>6, <2>1, <3>1, <4>1 DEF LiesIn
    <3>2. CASE q \notin DOMAIN held
      <4>1. PICK i \in DOMAIN freelist[w - 1] : freelist[w - 1][i] = q
        BY <2>1, <3>2 DEF LiesIn
      <4>2. CASE w - 1 = k /\ i = 1
        BY <1>4, <1>6, <1>7, <4>1, <4>2 DEF LiesIn
      <4>3. CASE w - 1 = k /\ i # 1
        <5>1. i \in 1 .. Len(freelist[k]) /\ freelist[k][i] = q
          BY <1>5, <4>1, <4>3
        <5>2. i - 1 \in 1 .. Len(freelist[k]) - 1 /\ Tail(freelist[k])[i - 1] = freelist[k][i]
          BY <1>5, <4>3, <5>1
        <5>3. QED
          BY <1>5, <1>8, <4>3, <5>1, <5>2 DEF LiesIn
      <4>4. CASE w - 1 # k
        <5>1. w - 1 \in DOMAIN freelist
          BY <1>20
        <5>2. QED
          BY <1>8, <4>1, <4>4, <5>1 DEF LiesIn
      <4>5. QED
        BY <4>2, <4>3, <4>4
    <3>3. QED
      BY <3>1, <3>2
  <2>2. ASSUME NEW q \in Addr, NEW w \in 1 .. NumClasses, LiesIn(held', freelist', q, w)
        PROVE  LiesIn(held, freelist, q, w)
    <3>1. CASE \E i \in DOMAIN freelist'[w - 1] : freelist'[w - 1][i] = q
      <4>1. w - 1 \in DOMAIN freelist
        BY <1>20
      <4>2. QED
        BY <1>9, <3>1, <4>1 DEF LiesIn
    <3>2. CASE q \in DOMAIN held' /\ ~IsLarge(held'[q]) /\ w = Class(held'[q]) + 1
      <4>1. CASE q = p
        <5>1. w - 1 = k
          BY <1>2, <1>7, <3>2, <4>1
        <5>2. QED
          BY <1>4, <4>1, <5>1 DEF LiesIn
      <4>2. CASE q # p
        BY <1>6, <3>2, <4>2 DEF LiesIn
      <4>3. QED
        BY <4>1, <4>2
    <3>3. QED
      BY <2>2, <3>1, <3>2 DEF LiesIn
  <2>3. QED
    BY <2>1, <2>2 DEF Laid
<1>12. BlocksApart'
  <2>1. LargeHeld' = LargeHeld
    BY <1>4, <1>6, <1>7 DEF LargeHeld
  <2>2. QED
    BY <1>1, <2>1 DEF CountedInv, BlocksApart
<1>13. <<p, TrueWords(c)>> \in Laid
  <2>1. LiesIn(held, freelist, p, k + 1)
    <3>1. (k + 1) - 1 = k
      BY <1>2
    <3>2. QED
      BY <1>4, <3>1 DEF LiesIn
  <2>2. QED
    BY <1>2, <1>4, <2>1 DEF Laid
<1>14. CountedInv'
  BY <1>1, <1>6, <1>10, <1>11, <1>12 DEF CountedInv, Filled
<1>15. QED
  BY <1>4, <1>11, <1>13, <1>14 DEF p, k

\* Every small cell held and every dead one is among the cells laid out.
LEMMA AllLaid ==
    ASSUME HeldShape, FreeApart
    PROVE  /\ \A p \in DOMAIN held : ~IsLarge(held[p]) =>
                 /\ <<p, TrueWords(held[p])>> \in Laid
                 /\ TrueWords(held[p]) = Class(held[p]) + 1 /\ Class(held[p]) \in 0 .. NumClasses - 1
           /\ \A c \in DOMAIN freelist : \A i \in DOMAIN freelist[c] :
                 freelist[c][i] \in Addr /\ c + 1 \in 1 .. NumClasses /\ <<freelist[c][i], c + 1>> \in Laid
<1>0. NumClasses \in Nat
  BY CellAssumption DEF CellAssumption
<1>1. ASSUME NEW p \in DOMAIN held, ~IsLarge(held[p])
      PROVE  /\ <<p, TrueWords(held[p])>> \in Laid
             /\ TrueWords(held[p]) = Class(held[p]) + 1 /\ Class(held[p]) \in 0 .. NumClasses - 1
  <2>1. /\ TrueWords(held[p]) = Class(held[p]) + 1 /\ TrueWords(held[p]) \in 1 .. NumClasses
        /\ p \in Addr /\ Class(held[p]) \in 0 .. NumClasses - 1
    <3>1. Askable(ShapeOf(held[p])) /\ ~IsLarge(ShapeOf(held[p])) /\ p \in Addr
      BY <1>1, ShapeAlone DEF HeldShape
    <3>2. /\ TrueWords(ShapeOf(held[p])) = Class(ShapeOf(held[p])) + 1
          /\ TrueWords(ShapeOf(held[p])) \in 1 .. NumClasses
          /\ Class(ShapeOf(held[p])) \in 0 .. NumClasses - 1
      BY <3>1, ClassWords
    <3>3. QED
      BY <3>1, <3>2, ShapeAlone
  <2>2. LiesIn(held, freelist, p, TrueWords(held[p]))
    BY <1>1, <2>1 DEF LiesIn
  <2>3. QED
    BY <2>1, <2>2 DEF Laid
<1>2. ASSUME NEW c \in DOMAIN freelist, NEW i \in DOMAIN freelist[c]
      PROVE  freelist[c][i] \in Addr /\ c + 1 \in 1 .. NumClasses /\ <<freelist[c][i], c + 1>> \in Laid
  <2>1. c \in 0 .. NumClasses - 1 /\ freelist[c] \in Seq(Addr)
    BY DEF FreeApart
  <2>2. freelist[c][i] \in Addr /\ c + 1 \in 1 .. NumClasses /\ (c + 1) - 1 = c
    BY <1>0, <2>1
  <2>3. LiesIn(held, freelist, freelist[c][i], c + 1)
    BY <2>2 DEF LiesIn
  <2>4. QED
    BY <2>2, <2>3 DEF Laid
<1>3. QED
  BY <1>1, <1>2

\* A cell carved at a place nothing was laid.
LEMMA CarveKeeps ==
    ASSUME CountedInv, NEW c \in Requests, NEW p \in Addr, Stamped(p, c), ~IsLarge(c),
           \A l \in Laid : l[1] # p, \A q \in DOMAIN held : IsLarge(held[q]) => q # p,
           freelist' = freelist
    PROVE  /\ HeldShape' /\ FreeApart' /\ LargeHeld' = LargeHeld /\ p \notin DOMAIN held
           /\ TrueWords(c) \in 1 .. NumClasses /\ WordsOf(c) = TrueWords(c)
           /\ Laid' = Laid \cup {<<p, TrueWords(c)>>}
<1> DEFINE w == TrueWords(c)
<1>1. Askable(c) /\ w = Class(c) + 1 /\ w \in 1 .. NumClasses /\ WordsOf(c) = w
  BY Asked, ClassWords, SizesExact DEF Stamped
<1>2. p \notin DOMAIN held
  <2>1. ASSUME p \in DOMAIN held PROVE FALSE
    <3>1. ~IsLarge(held[p])
      BY <2>1
    <3>2. <<p, TrueWords(held[p])>> \in Laid
      BY <2>1, <3>1, AllLaid DEF CountedInv
    <3>3. QED
      BY <3>2
  <2>2. QED
    BY <2>1
<1>3. /\ HeldShape' /\ DOMAIN held' = DOMAIN held \cup {p} /\ held'[p] = Counted(c)
      /\ \A q \in DOMAIN held : held'[q] = held[q]
  BY <1>2, StampHeld DEF CountedInv
<1>4. ~IsLarge(held'[p]) /\ Class(held'[p]) = Class(c)
  BY <1>3, ShapeAlone
<1>5. FreeApart'
  <2>1. ASSUME NEW d \in DOMAIN freelist, NEW i \in DOMAIN freelist[d]
        PROVE  freelist[d][i] \notin DOMAIN held'
    <3>1. freelist[d][i] \notin DOMAIN held
      BY DEF CountedInv, FreeApart
    <3>2. freelist[d][i] # p
      <4>1. <<freelist[d][i], d + 1>> \in Laid
        BY AllLaid DEF CountedInv
      <4>2. QED
        BY <4>1
    <3>3. QED
      BY <1>3, <3>1, <3>2
  <2>2. QED
    BY <2>1 DEF CountedInv, FreeApart
<1>6. LargeHeld' = LargeHeld
  BY <1>2, <1>3, <1>4 DEF LargeHeld
<1> HIDE DEF w
<1>7. Laid' = Laid \cup {<<p, w>>}
  <2>1. ASSUME NEW q \in Addr, NEW v \in 1 .. NumClasses, LiesIn(held', freelist', q, v)
        PROVE  LiesIn(held, freelist, q, v) \/ (q = p /\ v = w)
    <3>1. CASE \E i \in DOMAIN freelist[v - 1] : freelist[v - 1][i] = q
      BY <3>1 DEF LiesIn
    <3>2. CASE q \in DOMAIN held' /\ ~IsLarge(held'[q]) /\ v = Class(held'[q]) + 1
      BY <1>1, <1>3, <1>4, <3>2 DEF LiesIn
    <3>3. QED
      BY <2>1, <3>1, <3>2 DEF LiesIn
  <2>2. ASSUME NEW q \in Addr, NEW v \in 1 .. NumClasses, LiesIn(held, freelist, q, v)
        PROVE  LiesIn(held', freelist', q, v)
    BY <1>3, <2>2 DEF LiesIn
  <2>3. LiesIn(held', freelist', p, w)
    BY <1>1, <1>3, <1>4 DEF LiesIn
  <2>4. <<p, w>> \in Addr \X (1 .. NumClasses)
    BY <1>1
  <2>5. \A l \in Addr \X (1 .. NumClasses) : LiesIn(held', freelist', l[1], l[2])
           <=> (LiesIn(held, freelist, l[1], l[2]) \/ l = <<p, w>>)
    BY <2>1, <2>2, <2>3
  <2>6. QED
    BY <2>4, <2>5 DEF Laid
<1>8. QED
  BY <1>1, <1>2, <1>3, <1>5, <1>6, <1>7 DEF w

\* A cell from the front slab.
LEMMA BumpKeeps ==
    ASSUME CountedInv, NEW c \in Requests, AllocBump(c)
    PROVE  /\ CountedInv' /\ bump \in Addr \ DOMAIN held /\ bump[1] \in Members(slabs)
           /\ \A l \in Laid : l[1][1] = bump[1] => EndsBy(l, bump[2])
<1> DEFINE w == TrueWords(c)
<1>1. /\ Stamped(bump, c) /\ ~IsLarge(c) /\ WordsOf(c) <= Left(bump)
      /\ bump' = <<bump[1], bump[2] + WordsOf(c)>>
      /\ UNCHANGED <<slabs, freelist, aSlabs, aFree>>
  BY DEF AllocBump, BumpFits, Admit, Stamp, Stamped, arena
<1>2. w \in 1 .. NumClasses /\ WordsOf(c) = w
  BY <1>1, Asked, ClassWords, SizesExact DEF Stamped
<1>3. Laid \subseteq Addr \X (1 .. NumClasses) /\ slabs \in Seq(1 .. MaxBlocks) /\ NoRepeat(slabs)
      /\ Filled(Laid, slabs, bump)
  BY DEF Laid, CountedInv, BlocksApart
<1> HIDE DEF w
<1>4. /\ slabs # <<>> /\ bump \in Addr /\ bump[1] = slabs[1] /\ bump[2] \in Nat \ {0}
      /\ \A l \in Laid : l[1][1] = bump[1] => l[1][2] < bump[2]
      /\ Filled(Laid \cup {<<bump, w>>}, slabs, <<bump[1], bump[2] + w>>)
  BY <1>1, <1>2, <1>3, CarveHere
<1>5. \A l \in Laid : l[1] # bump
  BY <1>3, <1>4
<1>6. \A q \in DOMAIN held : IsLarge(held[q]) => q # bump
  BY <1>4 DEF CountedInv, HeldShape
<1>7. /\ HeldShape' /\ FreeApart' /\ LargeHeld' = LargeHeld /\ bump \notin DOMAIN held
      /\ Laid' = Laid \cup {<<bump, w>>}
  BY <1>1, <1>4, <1>5, <1>6, CarveKeeps DEF w
<1>8. BlocksApart'
  BY <1>1, <1>7 DEF CountedInv, BlocksApart
<1>9. Filled(Laid', slabs', bump')
  BY <1>1, <1>2, <1>4, <1>7
<1>10. bump[1] \in Members(slabs)
  <2>1. 1 \in DOMAIN slabs
    BY <1>3, <1>4, FrontIn
  <2>2. QED
    BY <1>4, <2>1 DEF Members
<1>11. \A l \in Laid : l[1][1] = bump[1] => EndsBy(l, bump[2])
  BY <1>4 DEF CountedInv, Filled, FullTo
<1>12. QED
  BY <1>4, <1>7, <1>8, <1>9, <1>10, <1>11 DEF CountedInv

\* What malloc returns is nobody's.
LEMMA FreshBlock ==
    ASSUME Unused # {}
    PROVE  /\ NewBlock \in 1 .. MaxBlocks
           /\ NewBlock \notin Members(slabs) \cup Members(aSlabs) \cup Members(aFree)
           /\ \A p \in DOMAIN held : p[1] # NewBlock
  BY DEF NewBlock, Unused, Taken

\* A block in front of others.
LEMMA PushApart ==
    ASSUME NEW s \in Seq(1 .. MaxBlocks), NoRepeat(s), NEW b \in 1 .. MaxBlocks, b \notin Members(s)
    PROVE  /\ <<b>> \o s \in Seq(1 .. MaxBlocks) /\ NoRepeat(<<b>> \o s)
           /\ Members(<<b>> \o s) = Members(s) \cup {b}
<1> DEFINE t == <<b>> \o s
<1>1. /\ t \in Seq(1 .. MaxBlocks) /\ Len(s) \in Nat /\ DOMAIN s = 1 .. Len(s)
      /\ DOMAIN t = 1 .. Len(s) + 1 /\ t[1] = b
      /\ \A i \in 2 .. Len(s) + 1 : t[i] = s[i - 1] /\ i - 1 \in 1 .. Len(s)
      /\ \A i \in 1 .. Len(s) : i + 1 \in 1 .. Len(s) + 1 /\ t[i + 1] = s[i]
  OBVIOUS
<1> HIDE DEF t
<1>2. \A i \in 2 .. Len(s) + 1 : t[i] # b
  BY <1>1 DEF Members
<1>3. \A i \in DOMAIN t : i = 1 \/ i \in 2 .. Len(s) + 1
  BY <1>1
<1>4. NoRepeat(t)
  <2>1. ASSUME NEW i \in 2 .. Len(s) + 1, NEW j \in 2 .. Len(s) + 1, t[i] = t[j] PROVE i = j
    <3>1. i - 1 \in DOMAIN s /\ j - 1 \in DOMAIN s /\ s[i - 1] = s[j - 1]
      BY <1>1, <2>1
    <3>2. i - 1 = j - 1
      BY <3>1 DEF NoRepeat
    <3>3. QED
      BY <1>1, <3>2
  <2>2. QED
    BY <1>1, <1>2, <1>3, <2>1 DEF NoRepeat
<1>5. Members(t) = Members(s) \cup {b}
  <2>1. ASSUME NEW x \in Members(t) PROVE x \in Members(s) \cup {b}
    BY <1>1, <1>3 DEF Members
  <2>2. ASSUME NEW x \in Members(s) PROVE x \in Members(t)
    <3>1. PICK i \in 1 .. Len(s) : s[i] = x
      BY <1>1 DEF Members
    <3>2. i + 1 \in DOMAIN t /\ t[i + 1] = x
      BY <1>1, <3>1
    <3>3. QED
      BY <3>2 DEF Members
  <2>3. 1 \in DOMAIN t
    BY <1>1
  <2>4. b \in Members(t)
    BY <1>1, <2>3 DEF Members
  <2>5. QED
    BY <2>1, <2>2, <2>4
<1>6. QED
  BY <1>1, <1>4, <1>5 DEF t

\* A cell from a slab just malloc'd.
LEMMA NewSlabKeeps ==
    ASSUME CountedInv, NEW c \in Requests, AllocGrow(c)
    PROVE  /\ CountedInv' /\ <<NewBlock, 1>> \in Addr \ DOMAIN held
           /\ \A l \in Laid : l[1][1] # NewBlock
<1> DEFINE w == TrueWords(c)  b == NewBlock  p == <<b, 1>>
<1>1. /\ Unused # {} /\ Stamped(p, c) /\ ~IsLarge(c) /\ ~(WordsOf(c) <= Left(bump))
      /\ slabs' = <<b>> \o slabs /\ bump' = <<b, 1 + WordsOf(c)>>
      /\ UNCHANGED <<freelist, aSlabs, aFree>>
  BY DEF AllocGrow, BumpFits, Admit, Stamp, Stamped, arena
<1>2. w \in 1 .. NumClasses /\ WordsOf(c) = w
  BY <1>1, Asked, ClassWords, SizesExact DEF Stamped
<1>3. Laid \subseteq Addr \X (1 .. NumClasses) /\ slabs \in Seq(1 .. MaxBlocks) /\ NoRepeat(slabs)
      /\ Filled(Laid, slabs, bump)
  BY DEF Laid, CountedInv, BlocksApart
<1>4. /\ b \in 1 .. MaxBlocks /\ b \notin Members(slabs) \cup Members(aSlabs) \cup Members(aFree)
      /\ \A q \in DOMAIN held : q[1] # b
  BY <1>1, FreshBlock
<1>5. p \in Addr /\ p[1] = b
  BY <1>4, CellAssumption DEF Addr, CellAssumption
<1> HIDE DEF w, b
<1>6. Filled(Laid \cup {<<p, w>>}, slabs', bump')
  BY <1>1, <1>2, <1>3, <1>4, CarveNew
<1>7. \A l \in Laid : l[1][1] # b
  <2>1. \A l \in Laid : l[1][1] \in Members(slabs)
    BY <1>3 DEF Filled, FullTo
  <2>2. QED
    BY <1>4, <2>1
<1> HIDE DEF p
<1>8. (\A l \in Laid : l[1] # p) /\ (\A q \in DOMAIN held : IsLarge(held[q]) => q # p)
  BY <1>4, <1>5, <1>7
<1>9. /\ HeldShape' /\ FreeApart' /\ LargeHeld' = LargeHeld /\ p \notin DOMAIN held
      /\ Laid' = Laid \cup {<<p, w>>}
  BY <1>1, <1>5, <1>8, CarveKeeps DEF w
<1>10. /\ slabs' \in Seq(1 .. MaxBlocks) /\ NoRepeat(slabs')
       /\ Members(slabs') = Members(slabs) \cup {b}
  BY <1>1, <1>3, <1>4, PushApart
<1>11. BlocksApart'
  <2>1. \A q \in LargeHeld : q[1] # b
    BY <1>4 DEF LargeHeld
  <2>2. QED
    BY <1>1, <1>4, <1>9, <1>10, <2>1 DEF CountedInv, BlocksApart
<1>12. QED
  BY <1>5, <1>6, <1>7, <1>9, <1>11 DEF CountedInv, p, b

\* A cell in a block of its own.
LEMMA LargeKeeps ==
    ASSUME CountedInv, NEW c \in Requests, AllocLarge(c)
    PROVE  /\ CountedInv' /\ <<NewBlock, 0>> \in Addr \ DOMAIN held
           /\ LargeHeld' = LargeHeld \cup {<<NewBlock, 0>>}
<1> DEFINE b == NewBlock  p == <<b, 0>>
<1>1. /\ Unused # {} /\ Stamped(p, c) /\ IsLarge(c)
      /\ UNCHANGED <<slabs, bump, freelist, aSlabs, aFree>>
  BY DEF AllocLarge, Admit, Stamp, Stamped, arena, counted
<1>2. /\ b \in 1 .. MaxBlocks /\ b \notin Members(slabs) \cup Members(aSlabs) \cup Members(aFree)
      /\ \A q \in DOMAIN held : q[1] # b
  BY <1>1, FreshBlock
<1>3. p \in Addr /\ p[1] = b /\ p[2] = 0
  BY <1>2, CellAssumption DEF Addr, CellAssumption
<1> HIDE DEF b, p
<1>4. p \notin DOMAIN held
  BY <1>2, <1>3
<1>5. /\ HeldShape' /\ DOMAIN held' = DOMAIN held \cup {p} /\ held'[p] = Counted(c)
      /\ \A q \in DOMAIN held : held'[q] = held[q]
  BY <1>1, <1>3, <1>4, StampHeld DEF CountedInv
<1>6. IsLarge(held'[p])
  BY <1>1, <1>5, ShapeAlone
<1>7. LargeHeld' = LargeHeld \cup {p}
  BY <1>5, <1>6 DEF LargeHeld
<1>8. \A d \in DOMAIN freelist : \A i \in DOMAIN freelist[d] : freelist[d][i] # p
  <2>1. ASSUME NEW d \in DOMAIN freelist, NEW i \in DOMAIN freelist[d] PROVE freelist[d][i] # p
    <3>1. <<freelist[d][i], d + 1>> \in Laid
      BY AllLaid DEF CountedInv
    <3>2. freelist[d][i][1] \in Members(slabs)
      BY <3>1 DEF CountedInv, Filled, FullTo
    <3>3. QED
      BY <1>2, <1>3, <3>2
  <2>2. QED
    BY <2>1
<1>9. FreeApart'
  BY <1>1, <1>5, <1>8 DEF CountedInv, FreeApart
<1>10. Laid' = Laid
  <2>1. ASSUME NEW q \in Addr, NEW v \in 1 .. NumClasses
        PROVE  LiesIn(held', freelist', q, v) <=> LiesIn(held, freelist, q, v)
    BY <1>1, <1>4, <1>5, <1>6 DEF LiesIn
  <2>2. QED
    BY <2>1 DEF Laid
<1>11. BlocksApart'
  BY <1>1, <1>2, <1>3, <1>7 DEF CountedInv, BlocksApart
<1>12. QED
  BY <1>1, <1>3, <1>4, <1>5, <1>7, <1>9, <1>10, <1>11 DEF CountedInv, p, b

\* Counts change, and shells are stamped again, in place.
LEMMA InPlaceKeeps ==
    ASSUME CountedInv, NEW p \in DOMAIN held, NEW x \in HeldCell, Askable(ShapeOf(x)),
           Class(x) = Class(held[p]), held' = [held EXCEPT ![p] = x],
           UNCHANGED <<slabs, bump, freelist, aSlabs, aFree>>
    PROVE  CountedInv' /\ LargeHeld' = LargeHeld
<1>1. /\ DOMAIN held' = DOMAIN held /\ held'[p] = x
      /\ \A q \in DOMAIN held : q # p => held'[q] = held[q]
  OBVIOUS
<1>2. \A q \in DOMAIN held : Class(held'[q]) = Class(held[q]) /\ (IsLarge(held'[q]) <=> IsLarge(held[q]))
  BY <1>1 DEF IsLarge
<1>3. HeldShape'
  BY <1>1, <1>2 DEF CountedInv, HeldShape
<1>4. FreeApart'
  BY <1>1 DEF CountedInv, FreeApart
<1>5. LargeHeld' = LargeHeld
  BY <1>1, <1>2 DEF LargeHeld
<1>6. Laid' = Laid
  <2>1. ASSUME NEW q \in Addr, NEW v \in 1 .. NumClasses
        PROVE  LiesIn(held', freelist', q, v) <=> LiesIn(held, freelist, q, v)
    BY <1>1, <1>2 DEF LiesIn
  <2>2. QED
    BY <2>1 DEF Laid
<1>7. BlocksApart'
  BY <1>5 DEF CountedInv, BlocksApart
<1>8. QED
  BY <1>3, <1>4, <1>5, <1>6, <1>7 DEF CountedInv

\* A cell is given back.
LEMMA FreeKeeps ==
    ASSUME CountedInv, NEW p \in DOMAIN held, Free(p)
    PROVE  CountedInv' /\ LargeHeld' = LargeHeld \ {p}
<1> DEFINE k == Class(held[p])
<1>1. /\ held' = Restrict(held, DOMAIN held \ {p})
      /\ UNCHANGED <<slabs, bump, aSlabs, aFree>>
      /\ IF IsLarge(held[p]) THEN freelist' = freelist
         ELSE freelist' = [freelist EXCEPT ![k] = <<p>> \o freelist[k]]
  BY DEF Free, Reclaim, arena
<1>2. /\ DOMAIN held' = DOMAIN held \ {p}
      /\ \A q \in DOMAIN held \ {p} : held'[q] = held[q]
  BY <1>1 DEF Restrict
<1>3. HeldShape'
  <2>1. IsFiniteSet(DOMAIN held')
    BY <1>2, FS_Subset DEF CountedInv, HeldShape
  <2>2. QED
    BY <1>2, <2>1 DEF CountedInv, HeldShape
<1>4. LargeHeld' = LargeHeld \ {p}
  BY <1>2 DEF LargeHeld
<1>5. BlocksApart'
  BY <1>1, <1>4 DEF CountedInv, BlocksApart
<1>6. CASE IsLarge(held[p])
  <2>1. FreeApart'
    BY <1>1, <1>2, <1>6 DEF CountedInv, FreeApart
  <2>2. Laid' = Laid
    <3>1. ASSUME NEW q \in Addr, NEW v \in 1 .. NumClasses
          PROVE  LiesIn(held', freelist', q, v) <=> LiesIn(held, freelist, q, v)
      BY <1>1, <1>2, <1>6 DEF LiesIn
    <3>2. QED
      BY <3>1 DEF Laid
  <2>3. QED
    BY <1>1, <1>3, <1>4, <1>5, <2>1, <2>2 DEF CountedInv
<1>7. CASE ~IsLarge(held[p])
  <2>1. /\ k \in 0 .. NumClasses - 1 /\ p \in Addr /\ <<p, k + 1>> \in Laid
    BY <1>7, AllLaid DEF CountedInv, HeldShape
  <2>2. /\ freelist[k] \in Seq(Addr) /\ k \in DOMAIN freelist /\ DOMAIN freelist = 0 .. NumClasses - 1
        /\ freelist \in [0 .. NumClasses - 1 -> Seq(Addr)]
    BY <2>1 DEF CountedInv, FreeApart
  <2> DEFINE n == Len(freelist[k])  t == <<p>> \o freelist[k]
  <2>3. /\ t \in Seq(Addr) /\ n \in Nat /\ DOMAIN freelist[k] = 1 .. n
        /\ DOMAIN t = 1 .. n + 1 /\ t[1] = p
        /\ \A i \in 1 .. n + 1 : i = 1 \/ (i - 1 \in 1 .. n /\ t[i] = freelist[k][i - 1])
        /\ \A i \in 1 .. n : i + 1 \in 1 .. n + 1 /\ t[i + 1] = freelist[k][i]
    BY <2>1, <2>2
  <2> HIDE DEF t, n, k
  <2>4. /\ freelist' \in [0 .. NumClasses - 1 -> Seq(Addr)] /\ DOMAIN freelist' = DOMAIN freelist
        /\ freelist'[k] = t /\ \A d \in DOMAIN freelist : d # k => freelist'[d] = freelist[d]
    BY <1>1, <1>7, <2>1, <2>2, <2>3 DEF t
  <2>5. \A d \in DOMAIN freelist : \A i \in DOMAIN freelist'[d] :
           \/ d = k /\ i = 1 /\ freelist'[d][i] = p
           \/ \E j \in DOMAIN freelist[d] : /\ freelist'[d][i] = freelist[d][j]
                                            /\ i = IF d = k THEN j + 1 ELSE j
    <3>1. ASSUME NEW d \in DOMAIN freelist, NEW i \in DOMAIN freelist'[d],
                 ~(d = k /\ i = 1 /\ freelist'[d][i] = p)
          PROVE  \E j \in DOMAIN freelist[d] : /\ freelist'[d][i] = freelist[d][j]
                                               /\ i = IF d = k THEN j + 1 ELSE j
      <4>1. CASE d = k
        <5>1. i \in 1 .. n + 1 /\ i # 1
          BY <2>3, <2>4, <3>1, <4>1
        <5>2. i - 1 \in 1 .. n /\ t[i] = freelist[k][i - 1] /\ i = (i - 1) + 1
          BY <2>3, <5>1
        <5>3. QED
          BY <2>3, <2>4, <4>1, <5>2
      <4>2. CASE d # k
        BY <2>4, <4>2
      <4>3. QED
        BY <4>1, <4>2
    <3>2. QED
      BY <3>1
  <2>6. FreeApart'
    <3>1. ASSUME NEW d \in DOMAIN freelist, NEW e \in DOMAIN freelist,
                 NEW i \in DOMAIN freelist'[d], NEW j \in DOMAIN freelist'[e],
                 freelist'[d][i] = freelist'[e][j]
          PROVE  d = e /\ i = j
      <4>1. \A d2 \in DOMAIN freelist : \A i2 \in DOMAIN freelist[d2] : freelist[d2][i2] # p
        BY DEF CountedInv, FreeApart
      <4>2. \A d2, e2 \in DOMAIN freelist : \A i2 \in DOMAIN freelist[d2], j2 \in DOMAIN freelist[e2] :
               freelist[d2][i2] = freelist[e2][j2] => d2 = e2 /\ i2 = j2
        BY DEF CountedInv, FreeApart
      <4>3. CASE d = k /\ i = 1 /\ freelist'[d][i] = p
        BY <2>5, <3>1, <4>1, <4>3
      <4>4. CASE e = k /\ j = 1 /\ freelist'[e][j] = p
        BY <2>5, <3>1, <4>1, <4>4
      <4>5. CASE ~(d = k /\ i = 1 /\ freelist'[d][i] = p) /\ ~(e = k /\ j = 1 /\ freelist'[e][j] = p)
        <5>1. PICK m \in DOMAIN freelist[d] : /\ freelist'[d][i] = freelist[d][m]
                                              /\ i = IF d = k THEN m + 1 ELSE m
          BY <2>5, <4>5
        <5>2. PICK q \in DOMAIN freelist[e] : /\ freelist'[e][j] = freelist[e][q]
                                              /\ j = IF e = k THEN q + 1 ELSE q
          BY <2>5, <4>5
        <5>0. freelist[d][m] = freelist[e][q]
          BY <3>1, <5>1, <5>2
        <5>3. d = e /\ m = q
          BY <4>2, <5>0
        <5>4. QED
          BY <5>1, <5>2, <5>3
      <4>6. QED
        BY <4>3, <4>4, <4>5
    <3>2. ASSUME NEW d \in DOMAIN freelist, NEW i \in DOMAIN freelist'[d]
          PROVE  freelist'[d][i] \notin DOMAIN held'
      <4>1. \A j \in DOMAIN freelist[d] : freelist[d][j] \notin DOMAIN held
        BY DEF CountedInv, FreeApart
      <4>2. QED
        BY <1>2, <2>5, <4>1
    <3>3. QED
      BY <2>4, <3>1, <3>2 DEF FreeApart
  <2>7. Laid' = Laid
    <3>0. \A v \in 1 .. NumClasses : v \in Nat /\ v - 1 \in DOMAIN freelist
      BY <2>2, CellAssumption DEF CellAssumption
    <3>1. ASSUME NEW q \in Addr, NEW v \in 1 .. NumClasses, LiesIn(held', freelist', q, v)
          PROVE  LiesIn(held, freelist, q, v)
      <4>1. CASE q \in DOMAIN held' /\ ~IsLarge(held'[q]) /\ v = Class(held'[q]) + 1
        BY <1>2, <4>1 DEF LiesIn
      <4>2. CASE \E i \in DOMAIN freelist'[v - 1] : freelist'[v - 1][i] = q
        <5>1. PICK i \in DOMAIN freelist'[v - 1] : freelist'[v - 1][i] = q
          BY <4>2
        <5>2. CASE v - 1 = k /\ q = p
          <6>1. v = Class(held[p]) + 1
            BY <2>1, <3>0, <5>2 DEF k
          <6>2. QED
            BY <1>7, <5>2, <6>1 DEF LiesIn
        <5>3. CASE ~(v - 1 = k /\ q = p)
          BY <2>5, <3>0, <5>1, <5>3 DEF LiesIn
        <5>4. QED
          BY <5>2, <5>3
      <4>3. QED
        BY <3>1, <4>1, <4>2 DEF LiesIn
    <3>2. ASSUME NEW q \in Addr, NEW v \in 1 .. NumClasses, LiesIn(held, freelist, q, v)
          PROVE  LiesIn(held', freelist', q, v)
      <4>1. CASE q = p /\ q \in DOMAIN held /\ ~IsLarge(held[q]) /\ v = Class(held[q]) + 1
        <5>1. v - 1 = k /\ 1 \in DOMAIN freelist'[k] /\ freelist'[k][1] = q
          BY <2>1, <2>3, <2>4, <4>1 DEF k
        <5>2. QED
          BY <5>1 DEF LiesIn
      <4>2. CASE q # p /\ q \in DOMAIN held /\ ~IsLarge(held[q]) /\ v = Class(held[q]) + 1
        BY <1>2, <4>2 DEF LiesIn
      <4>3. CASE \E i \in DOMAIN freelist[v - 1] : freelist[v - 1][i] = q
        <5>1. PICK i \in DOMAIN freelist[v - 1] : freelist[v - 1][i] = q
          BY <4>3
        <5>2. CASE v - 1 = k
          <6>1. i \in 1 .. n /\ freelist[k][i] = q
            BY <2>3, <5>1, <5>2
          <6>2. i + 1 \in DOMAIN freelist'[k] /\ freelist'[k][i + 1] = q
            BY <2>3, <2>4, <6>1
          <6>3. QED
            BY <5>2, <6>2 DEF LiesIn
        <5>3. CASE v - 1 # k
          BY <2>4, <3>0, <5>1, <5>3 DEF LiesIn
        <5>4. QED
          BY <5>2, <5>3
      <4>4. QED
        BY <3>2, <4>1, <4>2, <4>3 DEF LiesIn
    <3>3. QED
      BY <3>1, <3>2 DEF Laid
  <2>8. QED
    BY <1>1, <1>3, <1>4, <1>5, <2>6, <2>7 DEF CountedInv
<1>8. QED
  BY <1>6, <1>7

\* Teardown leaves the cells in blocks of their own.
LEMMA TornDown ==
    ASSUME CountedInv, HeapFree
    PROVE  CountedInv' /\ LargeHeld' = LargeHeld /\ DOMAIN held' = LargeHeld
           /\ \A p \in LargeHeld : held'[p] = held[p]
<1>1. /\ held' = Restrict(held, LargeHeld) /\ slabs' = <<>> /\ aSlabs' = <<>> /\ aFree' = <<>>
      /\ bump' = Null /\ freelist' = [c \in DOMAIN freelist |-> <<>>]
  BY DEF HeapFree
<1>2. /\ DOMAIN held' = LargeHeld /\ LargeHeld \subseteq DOMAIN held
      /\ \A q \in LargeHeld : held'[q] = held[q] /\ IsLarge(held[q])
  BY <1>1 DEF Restrict, LargeHeld
<1>3. HeldShape'
  <2>1. IsFiniteSet(LargeHeld)
    BY <1>2, FS_Subset DEF CountedInv, HeldShape
  <2>2. QED
    BY <1>2, <2>1 DEF CountedInv, HeldShape
<1>4. LargeHeld' = LargeHeld
  BY <1>2 DEF LargeHeld
<1>5. DOMAIN freelist = 0 .. NumClasses - 1
  BY DEF CountedInv, FreeApart
<1>6. /\ freelist' \in [0 .. NumClasses - 1 -> Seq(Addr)]
      /\ \A d \in DOMAIN freelist' : DOMAIN freelist'[d] = {}
  BY <1>1, <1>5
<1>7. FreeApart'
  BY <1>6 DEF FreeApart
<1>8. Members(<<>>) = {} /\ NoRepeat(<<>>) /\ <<>> \in Seq(1 .. MaxBlocks)
  BY DEF Members, NoRepeat
<1>9. BlocksApart'
  BY <1>1, <1>8 DEF BlocksApart
<1>10. Laid' = {}
  <2>1. ASSUME NEW q \in Addr, NEW v \in 1 .. NumClasses PROVE ~LiesIn(held', freelist', q, v)
    <3>1. v - 1 \in DOMAIN freelist'
      BY <1>1, <1>5, CellAssumption DEF CellAssumption
    <3>2. QED
      BY <1>2, <1>6, <3>1 DEF LiesIn
  <2>2. QED
    BY <2>1 DEF Laid
<1>11. FullTo({}, <<>>, Null, <<>>)
  <2>1. <<>> \in [{} -> 1 .. SlabWords]
    OBVIOUS
  <2>2. QED
    BY <1>8, <2>1 DEF FullTo
<1>12. Filled(Laid', slabs', bump')
  BY <1>1, <1>10, <1>11 DEF Filled
<1>13. QED
  BY <1>2, <1>3, <1>4, <1>7, <1>9, <1>12 DEF CountedInv

-----------------------------------------------------------------------------
(* The arena: a tape of slabs, the oldest first.  R ranks a slab by its      *)
(* place on the tape, from 1; a frontier at the very start is Null, whose    *)
(* slab 0 has rank 0.                                                        *)

ArenaShapes == {c \in Requests : c.kind = "con"}
Scope == UNION {[S -> ArenaShapes] : S \in {T \in SUBSET Addr : IsFiniteSet(T)}}
Frame == [slab : 0 .. MaxBlocks, bump : (0 .. MaxBlocks) \X (1 .. SlabWords), bytes : Nat]

Ranks(R, sl) ==
    /\ R \in [0 .. MaxBlocks -> Nat] /\ R[0] = 0
    /\ \A i \in DOMAIN sl : R[sl[i]] = Len(sl) + 1 - i

\* A place where bumping can go on.
Frontier(f, sl) ==
    /\ f \in (0 .. MaxBlocks) \X (1 .. SlabWords)
    /\ f[1] \in {0} \cup Members(sl) /\ (f[1] = 0 => f = Null)

\* The cell at p, of w words, lies before the frontier f.
Ends(R, p, w, f) == R[p[1]] < R[f[1]] \/ (p[1] = f[1] /\ p[2] + w <= f[2])

\* The frontiers saved when scopes opened, in order along the tape.
FramesOn(R, fr, sl) ==
    /\ fr \in Seq(Frame)
    /\ \A k \in DOMAIN fr : fr[k].slab = fr[k].bump[1] /\ Frontier(fr[k].bump, sl)
    /\ \A j, k \in DOMAIN fr : j <= k => R[fr[j].slab] <= R[fr[k].slab]

\* A scope's cells lie before the frontier of every scope opened later.
CellsOn(R, sc, fr, sl, bp) ==
    /\ sc \in Seq(Scope)
    /\ \A k \in DOMAIN sc : \A p \in DOMAIN sc[k] :
          /\ p[1] \in Members(sl) /\ p[2] + TrueWords(sc[k][p]) <= SlabWords
          /\ Ends(R, p, TrueWords(sc[k][p]), bp)
          /\ \A j \in DOMAIN fr : k < j => Ends(R, p, TrueWords(sc[k][p]), fr[j].bump)

Tape(sc, fr, sl, bp) ==
    /\ Len(fr) = Len(sc) /\ Len(fr) <= MaxDepth
    /\ Frontier(bp, sl) /\ bp[1] = IF sl = <<>> THEN 0 ELSE sl[1]
    /\ \E R : Ranks(R, sl) /\ FramesOn(R, fr, sl) /\ CellsOn(R, sc, fr, sl, bp)

LEMMA ScopeIs ==
    ASSUME NEW x \in Scope
    PROVE  /\ DOMAIN x \subseteq Addr /\ IsFiniteSet(DOMAIN x)
           /\ \A p \in DOMAIN x : x[p] \in ArenaShapes
           /\ x \in [DOMAIN x -> ArenaShapes]
  BY DEF Scope

LEMMA ScopeMade ==
    ASSUME NEW S \in SUBSET Addr, IsFiniteSet(S), NEW x \in [S -> ArenaShapes]
    PROVE  x \in Scope
  BY DEF Scope

LEMMA ScopePut ==
    ASSUME NEW x \in Scope, NEW q \in Addr, NEW c \in ArenaShapes
    PROVE  /\ Put(q, c, x) \in Scope /\ DOMAIN Put(q, c, x) = DOMAIN x \cup {q}
           /\ Put(q, c, x)[q] = c
           /\ \A p \in DOMAIN x : p # q => Put(q, c, x)[p] = x[p]
<1> DEFINE y == Put(q, c, x)  S == DOMAIN x \cup {q}
<1>1. DOMAIN x \subseteq Addr /\ IsFiniteSet(DOMAIN x) /\ \A p \in DOMAIN x : x[p] \in ArenaShapes
  BY ScopeIs
<1>2. S \in SUBSET Addr /\ IsFiniteSet(S)
  BY <1>1, FS_AddElement
<1>3. y \in [S -> ArenaShapes]
  BY <1>1 DEF Put
<1>4. y \in Scope
  BY <1>2, <1>3, ScopeMade
<1>5. QED
  BY <1>4 DEF Put

LEMMA ScopeEmpty == <<>> \in Scope /\ DOMAIN <<>> = {}
<1>1. {} \in SUBSET Addr /\ IsFiniteSet({}) /\ <<>> \in [{} -> ArenaShapes]
  BY FS_EmptySet
<1>2. QED
  BY <1>1, ScopeMade

LEMMA ArenaWords ==
    ASSUME NEW c \in ArenaShapes
    PROVE  /\ c \in Requests /\ c.kind = "con" /\ ~Overflows(c) /\ Askable(c) /\ c \in Cell
           /\ TrueWords(c) \in Nat \ {0} /\ WordsOf(c) = TrueWords(c)
           /\ Bytes(c) = Word * TrueWords(c) /\ 1 + TrueWords(c) <= SlabWords
<1>1. c \in Requests /\ c.kind = "con" /\ ~Overflows(c)
  BY DEF ArenaShapes, Overflows, ByteBlocks
<1>2. Askable(c) /\ c \in Cell
  BY <1>1, Asked
<1>3. TrueWords(c) \in Nat \ {0} /\ WordsOf(c) = TrueWords(c) /\ Bytes(c) = Word * TrueWords(c)
  BY <1>2, BytesExact, SizesExact
<1>4. TrueWords(c) = 1 + c.n /\ c.n \in Nat
  <2>1. TrueWords(c) = 1 + c.n
    BY <1>1 DEF TrueWords, ByteBlocks
  <2>2. QED
    BY <1>2, <2>1 DEF Cell
<1>5. 1 + c.n < SlabWords /\ SlabWords \in Nat
  BY <1>1, CellAssumption DEF CellAssumption
<1>6. QED
  BY <1>1, <1>2, <1>3, <1>4, <1>5

\* A cell stamped at the frontier: nothing lay there.
LEMMA StampOn ==
    ASSUME NEW R \in [0 .. MaxBlocks -> Nat], NEW sl, NEW fr, NEW sc, NEW q \in Addr, NEW c \in ArenaShapes,
           CellsOn(R, sc, fr, sl, q), sc # <<>>, q[1] \in Members(sl), Len(fr) = Len(sc),
           fr \in Seq(Frame), q[2] + TrueWords(c) <= SlabWords
    PROVE  /\ CellsOn(R, [sc EXCEPT ![Len(sc)] = Put(q, c, @)], fr, sl, <<q[1], q[2] + TrueWords(c)>>)
           /\ \A k \in DOMAIN sc : q \notin DOMAIN sc[k]
<1> DEFINE n == Len(sc)  w == TrueWords(c)  sc2 == [sc EXCEPT ![n] = Put(q, c, @)]
           q2 == <<q[1], q[2] + w>>
<1>1. /\ sc \in Seq(Scope) /\ n \in DOMAIN sc /\ DOMAIN sc2 = DOMAIN sc /\ DOMAIN sc = 1 .. n
      /\ n \in Nat /\ sc[n] \in Scope /\ DOMAIN fr = 1 .. n
  BY DEF CellsOn
<1>2. w \in Nat \ {0} /\ q[2] \in Nat
  BY ArenaWords DEF Addr
<1> DEFINE last == Put(q, c, sc[n])
<1>3. /\ last \in Scope /\ DOMAIN last = DOMAIN sc[n] \cup {q} /\ last[q] = c
      /\ \A p \in DOMAIN sc[n] : p # q => last[p] = sc[n][p]
  BY <1>1, ScopePut
<1>4. sc2[n] = last /\ \A k \in DOMAIN sc : k # n => sc2[k] = sc[k]
  BY <1>1
<1>8. sc2 = [sc EXCEPT ![n] = last]
  OBVIOUS
<1> HIDE DEF sc2, n, last
<1>9. sc2 \in Seq(Scope)
  BY <1>1, <1>3, <1>8
<1>5. \A k \in DOMAIN sc2 : \A p \in DOMAIN sc2[k] :
         \/ k = n /\ p = q /\ sc2[k][p] = c
         \/ p \in DOMAIN sc[k] /\ sc2[k][p] = sc[k][p]
  BY <1>1, <1>3, <1>4
<1>6. ASSUME NEW k \in DOMAIN sc, NEW p \in DOMAIN sc[k]
      PROVE  p # q /\ Ends(R, p, TrueWords(sc[k][p]), q2)
  <2>1. sc[k] \in Scope
    BY <1>1
  <2>2. p \in Addr /\ TrueWords(sc[k][p]) \in Nat \ {0}
    BY <2>1, ScopeIs, ArenaWords
  <2>3. Ends(R, p, TrueWords(sc[k][p]), q)
    BY DEF CellsOn
  <2>4. p[2] \in Nat
    BY <2>2 DEF Addr
  <2>5. CASE p[1] = q[1] /\ p[2] + TrueWords(sc[k][p]) <= q[2]
    BY <1>2, <2>2, <2>4, <2>5 DEF Ends
  <2>6. CASE R[p[1]] < R[q[1]]
    <3>1. Ends(R, p, TrueWords(sc[k][p]), q2)
      BY <2>6 DEF Ends
    <3>2. R[q[1]] \in Nat
      BY DEF Addr
    <3>3. p # q
      BY <2>6, <3>2
    <3>4. QED
      BY <3>1, <3>3
  <2>7. QED
    BY <2>3, <2>5, <2>6 DEF Ends
<1>10. \A k \in DOMAIN sc : q \notin DOMAIN sc[k]
  BY <1>6
<1>11. ASSUME NEW k \in DOMAIN sc2, NEW p \in DOMAIN sc2[k]
       PROVE  /\ p[1] \in Members(sl) /\ p[2] + TrueWords(sc2[k][p]) <= SlabWords
              /\ Ends(R, p, TrueWords(sc2[k][p]), q2)
              /\ \A j \in DOMAIN fr : k < j => Ends(R, p, TrueWords(sc2[k][p]), fr[j].bump)
  <2>1. CASE k = n /\ p = q /\ sc2[k][p] = c
    <3>1. Ends(R, p, w, q2) /\ \A j \in DOMAIN fr : ~(k < j)
      BY <1>1, <1>2, <2>1 DEF Ends
    <3>2. QED
      BY <2>1, <3>1
  <2>2. CASE p \in DOMAIN sc[k] /\ sc2[k][p] = sc[k][p]
    <3>1. k \in DOMAIN sc
      BY <1>1, <1>8
    <3>2. QED
      BY <1>6, <2>2, <3>1 DEF CellsOn
  <2>3. QED
    BY <1>5, <2>1, <2>2
<1>12. CellsOn(R, sc2, fr, sl, q2)
  BY <1>9, <1>11 DEF CellsOn
<1>13. QED
  BY <1>10, <1>12 DEF sc2, n

ArenaTape == Tape(scopes, frames, aSlabs, aBump)

LEMMA AppendIs ==
    ASSUME NEW S, NEW s \in Seq(S), NEW x \in S
    PROVE  /\ Append(s, x) \in Seq(S) /\ Len(Append(s, x)) = Len(s) + 1 /\ Len(s) \in Nat
           /\ DOMAIN Append(s, x) = 1 .. Len(s) + 1 /\ DOMAIN s = 1 .. Len(s)
           /\ Append(s, x)[Len(s) + 1] = x
           /\ \A i \in 1 .. Len(s) : Append(s, x)[i] = s[i]
  OBVIOUS

\* A scope opens at the frontier.
LEMMA OpenTape ==
    ASSUME ArenaTape, aSlabs \in Seq(1 .. MaxBlocks), stats.arena \in Nat, ArenaOpen
    PROVE  /\ ArenaTape' /\ scopes \in Seq(Scope) /\ scopes' = Append(scopes, <<>>)
           /\ frames \in Seq(Frame) /\ Len(frames) = Len(scopes)
           /\ Len(scopes) < MaxDepth
           /\ frames' = Append(frames, frames'[Len(frames) + 1])
           /\ frames'[Len(frames) + 1].bytes = stats.arena
<1> DEFINE f == [slab  |-> IF aSlabs = <<>> THEN 0 ELSE Head(aSlabs),
                 bump  |-> aBump, bytes |-> stats.arena]
           n == Len(frames)
<1>1. /\ n < MaxDepth /\ frames' = Append(frames, f) /\ scopes' = Append(scopes, <<>>)
      /\ aSlabs' = aSlabs /\ aBump' = aBump
  BY DEF ArenaOpen
<1>2. PICK R : Ranks(R, aSlabs) /\ FramesOn(R, frames, aSlabs)
               /\ CellsOn(R, scopes, frames, aSlabs, aBump)
  BY DEF ArenaTape, Tape
<1>3. /\ frames \in Seq(Frame) /\ scopes \in Seq(Scope) /\ Len(scopes) = n
  BY <1>2 DEF ArenaTape, Tape, FramesOn, CellsOn
<1>4. Frontier(aBump, aSlabs) /\ aBump[1] = IF aSlabs = <<>> THEN 0 ELSE aSlabs[1]
  BY DEF ArenaTape, Tape
<1>5. f.slab = aBump[1] /\ f.bump = aBump /\ f.bytes = stats.arena
  <2>1. aSlabs # <<>> => Head(aSlabs) = aSlabs[1]
    OBVIOUS
  <2>2. QED
    BY <1>4, <2>1
<1>6. f \in Frame
  <2>1. aBump \in (0 .. MaxBlocks) \X (1 .. SlabWords) /\ aBump[1] \in 0 .. MaxBlocks
    BY <1>4 DEF Frontier
  <2>2. QED
    BY <1>5, <2>1 DEF Frame
<1> HIDE DEF f
<1>7. /\ frames' \in Seq(Frame) /\ Len(frames') = n + 1 /\ n \in Nat /\ DOMAIN frames' = 1 .. n + 1
      /\ DOMAIN frames = 1 .. n /\ frames'[n + 1] = f /\ \A i \in 1 .. n : frames'[i] = frames[i]
  BY <1>1, <1>3, <1>6, AppendIs
<1>8. /\ scopes' \in Seq(Scope) /\ Len(scopes') = n + 1 /\ DOMAIN scopes' = 1 .. n + 1
      /\ DOMAIN scopes = 1 .. n /\ scopes'[n + 1] = <<>> /\ \A i \in 1 .. n : scopes'[i] = scopes[i]
  BY <1>1, <1>3, ScopeEmpty, AppendIs
<1>9. R[aBump[1]] \in Nat /\ \A j \in 1 .. n : R[frames[j].slab] <= R[aBump[1]]
  <2>1. R \in [0 .. MaxBlocks -> Nat] /\ R[0] = 0 /\ \A i \in DOMAIN aSlabs : R[aSlabs[i]] = Len(aSlabs) + 1 - i
    BY <1>2 DEF Ranks
  <2>2. ASSUME NEW j \in 1 .. n PROVE R[frames[j].slab] <= R[aBump[1]]
    <3>1. frames[j].slab \in {0} \cup Members(aSlabs)
      BY <1>2, <1>7 DEF FramesOn, Frontier
    <3>2. CASE frames[j].slab = 0
      BY <2>1, <3>2, <1>4 DEF Frontier
    <3>3. CASE frames[j].slab # 0
      <4>1. PICK i \in DOMAIN aSlabs : frames[j].slab = aSlabs[i]
        BY <3>1, <3>3 DEF Members
      <4>2. aSlabs # <<>> /\ 1 \in DOMAIN aSlabs /\ i >= 1 /\ Len(aSlabs) \in Nat /\ i \in Nat
        BY <4>1
      <4>3. aBump[1] = aSlabs[1]
        BY <1>4, <4>2
      <4>4. R[aSlabs[i]] = Len(aSlabs) + 1 - i /\ R[aSlabs[1]] = Len(aSlabs) + 1 - 1
        BY <2>1, <4>2
      <4>5. QED
        BY <4>1, <4>2, <4>3, <4>4
    <3>4. QED
      BY <3>2, <3>3
  <2>3. QED
    BY <1>4, <2>1, <2>2 DEF Frontier
<1>10. FramesOn(R, frames', aSlabs)
  <2>1. ASSUME NEW k \in DOMAIN frames'
        PROVE  frames'[k].slab = frames'[k].bump[1] /\ Frontier(frames'[k].bump, aSlabs)
    BY <1>2, <1>4, <1>5, <1>7 DEF FramesOn
  <2>2. ASSUME NEW j \in DOMAIN frames', NEW k \in DOMAIN frames', j <= k
        PROVE  R[frames'[j].slab] <= R[frames'[k].slab]
    <3>1. CASE k \in 1 .. n
      <4>1. j \in 1 .. n
        BY <1>7, <2>2, <3>1
      <4>2. QED
        BY <1>2, <1>7, <2>2, <3>1, <4>1 DEF FramesOn
    <3>2. CASE k = n + 1
      <4>1. j \in 1 .. n \/ j = n + 1
        BY <1>7
      <4>2. QED
        BY <1>5, <1>7, <1>9, <3>2, <4>1
    <3>3. QED
      BY <1>7, <3>1, <3>2
  <2>3. QED
    BY <1>7, <2>1, <2>2 DEF FramesOn
<1>11. CellsOn(R, scopes', frames', aSlabs, aBump)
  <2>1. ASSUME NEW k \in DOMAIN scopes', NEW p \in DOMAIN scopes'[k]
        PROVE  k \in 1 .. n /\ scopes'[k] = scopes[k]
    <3>1. k # n + 1
      BY <1>8, <2>1, ScopeEmpty
    <3>2. QED
      BY <1>8, <3>1
  <2>2. ASSUME NEW k \in DOMAIN scopes', NEW p \in DOMAIN scopes'[k]
        PROVE  /\ p[1] \in Members(aSlabs) /\ p[2] + TrueWords(scopes'[k][p]) <= SlabWords
               /\ Ends(R, p, TrueWords(scopes'[k][p]), aBump)
               /\ \A j \in DOMAIN frames' : k < j => Ends(R, p, TrueWords(scopes'[k][p]), frames'[j].bump)
    BY <1>2, <1>5, <1>7, <1>8, <2>1 DEF CellsOn
  <2>3. QED
    BY <1>8, <2>2 DEF CellsOn
<1>12. ArenaTape'
  <2>1. Len(frames') = Len(scopes') /\ Len(frames') <= MaxDepth
    BY <1>1, <1>7, <1>8, SlabAssumption DEF SlabAssumption
  <2>2. QED
    BY <1>1, <1>2, <1>4, <1>10, <1>11, <2>1 DEF ArenaTape, Tape
<1>13. QED
  BY <1>1, <1>3, <1>5, <1>7, <1>12

\* The state after an arena cell is stamped at q.
StampedInScope(q, c) ==
    /\ scopes' = [scopes EXCEPT ![Len(scopes)] = Put(q, c, @)]
    /\ aBump' = <<q[1], q[2] + TrueWords(c)>> /\ frames' = frames

\* A cell is carved at the frontier.
LEMMA BumpTape ==
    ASSUME ArenaTape, aSlabs \in Seq(1 .. MaxBlocks), NEW c \in Requests, ArenaBump(c)
    PROVE  /\ ArenaTape' /\ aBump \in Addr /\ aBump[1] \in Members(aSlabs) /\ c \in ArenaShapes
           /\ StampedInScope(aBump, c) /\ scopes \in Seq(Scope) /\ scopes # <<>>
           /\ Len(frames) = Len(scopes) /\ frames \in Seq(Frame)
           /\ aBump \notin DOMAIN scopes[Len(scopes)]
           /\ \A k \in DOMAIN scopes : \A p \in DOMAIN scopes[k] :
                 p[1] = aBump[1] => p[2] + TrueWords(scopes[k][p]) <= aBump[2]
<1> DEFINE w == TrueWords(c)
<1>1. /\ frames # <<>> /\ c.kind = "con" /\ WordsOf(c) <= Left(aBump)
      /\ aBump' = <<aBump[1], aBump[2] + WordsOf(c)>>
      /\ scopes' = [scopes EXCEPT ![Len(scopes)] = Put(aBump, c, @)]
      /\ frames' = frames /\ aSlabs' = aSlabs
  BY DEF ArenaBump, ArenaFits, ArenaStamp
<1>2. c \in ArenaShapes /\ w \in Nat \ {0} /\ WordsOf(c) = w
  BY <1>1, ArenaWords DEF ArenaShapes
<1>3. PICK R : Ranks(R, aSlabs) /\ FramesOn(R, frames, aSlabs)
               /\ CellsOn(R, scopes, frames, aSlabs, aBump)
  BY DEF ArenaTape, Tape
<1>4. /\ frames \in Seq(Frame) /\ scopes \in Seq(Scope) /\ Len(frames) = Len(scopes)
      /\ Frontier(aBump, aSlabs) /\ R \in [0 .. MaxBlocks -> Nat]
  BY <1>3 DEF ArenaTape, Tape, FramesOn, CellsOn, Ranks
<1>5. scopes # <<>>
  BY <1>1, <1>4
<1>6. aBump \in (0 .. MaxBlocks) \X (1 .. SlabWords) /\ aBump[2] + w <= SlabWords
  <2>1. aBump \in (0 .. MaxBlocks) \X (1 .. SlabWords)
    BY <1>4 DEF Frontier
  <2>2. QED
    BY <1>1, <1>2, <2>1, CellAssumption DEF Left, CellAssumption
<1>7. aBump[1] # 0
  <2>1. ASSUME aBump[1] = 0 PROVE FALSE
    <3>1. aBump[2] = SlabWords
      BY <1>4, <2>1 DEF Frontier, Null
    <3>2. QED
      BY <1>2, <1>6, <3>1, CellAssumption DEF CellAssumption
  <2>2. QED
    BY <2>1
<1>8. aBump[1] \in Members(aSlabs) /\ aBump[1] \in 1 .. MaxBlocks
  BY <1>4, <1>6, <1>7 DEF Frontier
<1>9. aBump \in Addr
  BY <1>2, <1>6, <1>8, CellAssumption DEF Addr, CellAssumption
<1>10. StampedInScope(aBump, c)
  BY <1>1, <1>2 DEF StampedInScope
<1>11. /\ CellsOn(R, scopes', frames, aSlabs, aBump')
       /\ \A k \in DOMAIN scopes : aBump \notin DOMAIN scopes[k]
  <2>1. /\ CellsOn(R, [scopes EXCEPT ![Len(scopes)] = Put(aBump, c, @)], frames, aSlabs,
                      <<aBump[1], aBump[2] + w>>)
        /\ \A k \in DOMAIN scopes : aBump \notin DOMAIN scopes[k]
    BY <1>2, <1>3, <1>4, <1>5, <1>6, <1>8, <1>9, StampOn
  <2>2. QED
    BY <1>1, <1>2, <2>1
<1>12. Frontier(aBump', aSlabs) /\ aBump'[1] = aBump[1]
  <2>1. aBump[2] + w \in 1 .. SlabWords
    BY <1>2, <1>6, CellAssumption DEF CellAssumption
  <2>2. QED
    BY <1>1, <1>2, <1>6, <1>7, <1>8, <2>1 DEF Frontier
<1>13. Len(scopes') = Len(scopes)
  BY <1>1, <1>4
<1>14. ArenaTape'
  BY <1>1, <1>3, <1>11, <1>12, <1>13 DEF ArenaTape, Tape
<1>15. ASSUME NEW k \in DOMAIN scopes, NEW p \in DOMAIN scopes[k], p[1] = aBump[1]
       PROVE  p[2] + TrueWords(scopes[k][p]) <= aBump[2]
  <2>1. Ends(R, p, TrueWords(scopes[k][p]), aBump)
    BY <1>3 DEF CellsOn
  <2>2. R[p[1]] = R[aBump[1]] /\ R[aBump[1]] \in Nat
    BY <1>4, <1>6, <1>15
  <2>3. QED
    BY <2>1, <2>2 DEF Ends
<1>16. Len(scopes) \in DOMAIN scopes
  BY <1>4, <1>5
<1>17. QED
  BY <1>2, <1>4, <1>5, <1>8, <1>9, <1>10, <1>11, <1>14, <1>15, <1>16

LEMMA MembersIn == ASSUME NEW S, NEW s \in Seq(S) PROVE Members(s) \subseteq S
<1>1. \A i \in DOMAIN s : s[i] \in S
  OBVIOUS
<1>2. QED
  BY <1>1 DEF Members

\* Another slab is put on the tape: nothing lies on it.
LEMMA PushTape ==
    ASSUME NEW sc, NEW fr, NEW sl \in Seq(1 .. MaxBlocks), NEW bp, Tape(sc, fr, sl, bp), NoRepeat(sl),
           NEW b \in 1 .. MaxBlocks, b \notin Members(sl)
    PROVE  Tape(sc, fr, <<b>> \o sl, <<b, 1>>)
<1> DEFINE sl2 == <<b>> \o sl  n == Len(sl)  bp2 == <<b, 1>>
<1>1. /\ sl2 \in Seq(1 .. MaxBlocks) /\ n \in Nat /\ Len(sl2) = n + 1 /\ sl2[1] = b /\ sl2 # <<>>
      /\ DOMAIN sl = 1 .. n /\ DOMAIN sl2 = 1 .. n + 1
      /\ \A i \in 2 .. n + 1 : sl2[i] = sl[i - 1] /\ i - 1 \in 1 .. n
  OBVIOUS
<1>2. Members(sl2) = Members(sl) \cup {b} /\ Members(sl) \subseteq 1 .. MaxBlocks
  <2>1. Members(sl) \subseteq 1 .. MaxBlocks
    BY MembersIn
  <2>2. QED
    BY <2>1, PushApart
<1>3. PICK R : Ranks(R, sl) /\ FramesOn(R, fr, sl) /\ CellsOn(R, sc, fr, sl, bp)
  BY DEF Tape
<1> DEFINE R2 == [R EXCEPT ![b] = n + 1]
<1>4. R \in [0 .. MaxBlocks -> Nat] /\ R[0] = 0 /\ \A i \in DOMAIN sl : R[sl[i]] = n + 1 - i
  BY <1>3 DEF Ranks
<1>5. /\ R2 \in [0 .. MaxBlocks -> Nat] /\ R2[b] = n + 1 /\ R2[0] = 0
      /\ \A x \in {0} \cup Members(sl) : R2[x] = R[x]
  BY <1>1, <1>2, <1>4
<1>6. \A x \in Members(sl) : R[x] \in Nat /\ R[x] <= n
  BY <1>1, <1>4 DEF Members
<1> HIDE DEF sl2, R2, n
<1>7. Ranks(R2, sl2)
  <2>1. ASSUME NEW i \in DOMAIN sl2 PROVE R2[sl2[i]] = Len(sl2) + 1 - i
    <3>1. CASE i = 1
      BY <1>1, <1>5, <3>1
    <3>2. CASE i # 1
      <4>1. i \in 2 .. n + 1 /\ sl2[i] = sl[i - 1] /\ i - 1 \in DOMAIN sl
        BY <1>1, <3>2
      <4>2. sl2[i] \in Members(sl) /\ R[sl[i - 1]] = n + 1 - (i - 1)
        BY <1>4, <4>1 DEF Members
      <4>3. R2[sl2[i]] = R[sl[i - 1]]
        BY <1>5, <4>1, <4>2
      <4>4. QED
        BY <1>1, <4>1, <4>2, <4>3
    <3>3. QED
      BY <3>1, <3>2
  <2>2. QED
    BY <1>5, <2>1 DEF Ranks
<1>8. \A f : Frontier(f, sl) => Frontier(f, sl2) /\ R2[f[1]] = R[f[1]]
  BY <1>2, <1>5 DEF Frontier
<1>9. FramesOn(R2, fr, sl2)
  <2>1. /\ fr \in Seq(Frame)
        /\ \A k \in DOMAIN fr : fr[k].slab = fr[k].bump[1] /\ Frontier(fr[k].bump, sl)
        /\ \A j, k \in DOMAIN fr : j <= k => R[fr[j].slab] <= R[fr[k].slab]
    BY <1>3 DEF FramesOn
  <2>2. \A k \in DOMAIN fr : Frontier(fr[k].bump, sl2) /\ R2[fr[k].slab] = R[fr[k].slab]
    BY <1>8, <2>1
  <2>3. QED
    BY <2>1, <2>2 DEF FramesOn
<1>10. CellsOn(R2, sc, fr, sl2, bp2)
  <2>1. ASSUME NEW k \in DOMAIN sc, NEW p \in DOMAIN sc[k]
        PROVE  /\ p[1] \in Members(sl2) /\ p[2] + TrueWords(sc[k][p]) <= SlabWords
               /\ Ends(R2, p, TrueWords(sc[k][p]), bp2)
               /\ \A j \in DOMAIN fr : k < j => Ends(R2, p, TrueWords(sc[k][p]), fr[j].bump)
    <3>1. p[1] \in Members(sl) /\ p[2] + TrueWords(sc[k][p]) <= SlabWords
      BY <1>3 DEF CellsOn
    <3>2. R2[p[1]] = R[p[1]] /\ R[p[1]] \in Nat /\ R[p[1]] < n + 1
      <4>1. \A x \in Members(sl) : R2[x] = R[x] /\ R[x] \in Nat /\ R[x] < n + 1
        <5>1. ASSUME NEW x \in Members(sl) PROVE R2[x] = R[x] /\ R[x] \in Nat /\ R[x] < n + 1
          <6>1. R2[x] = R[x]
            BY <1>5
          <6>2. R[x] \in Nat /\ R[x] <= n
            BY <1>6
          <6>3. QED
            BY <1>1, <6>1, <6>2
        <5>2. QED
          BY <5>1
      <4>2. QED
        BY <3>1, <4>1
    <3>3. Ends(R2, p, TrueWords(sc[k][p]), bp2)
      BY <1>5, <3>2 DEF Ends
    <3>4. ASSUME NEW j \in DOMAIN fr, k < j PROVE Ends(R2, p, TrueWords(sc[k][p]), fr[j].bump)
      <4>1. Ends(R, p, TrueWords(sc[k][p]), fr[j].bump)
        BY <1>3, <3>4 DEF CellsOn
      <4>2. R2[fr[j].bump[1]] = R[fr[j].bump[1]]
        BY <1>3, <1>8 DEF FramesOn
      <4>3. QED
        BY <3>2, <4>1, <4>2 DEF Ends
    <3>5. QED
      BY <1>2, <3>1, <3>3, <3>4
  <2>2. QED
    BY <1>3, <2>1 DEF CellsOn
<1>11. Frontier(bp2, sl2)
  BY <1>2, CellAssumption DEF Frontier, CellAssumption
<1>12. Tape(sc, fr, sl2, bp2)
  BY <1>1, <1>7, <1>9, <1>10, <1>11 DEF Tape
<1>13. QED
  BY <1>12 DEF sl2

\* A cell stamped on a tape's frontier.
LEMMA StampTape ==
    ASSUME NEW sl \in Seq(1 .. MaxBlocks), NEW q \in Addr, NEW c \in ArenaShapes,
           Tape(scopes, frames, sl, q), frames # <<>>, q[1] \in Members(sl),
           q[2] \in Nat \ {0}, q[2] + TrueWords(c) <= SlabWords
    PROVE  /\ Tape([scopes EXCEPT ![Len(scopes)] = Put(q, c, @)], frames, sl,
                   <<q[1], q[2] + TrueWords(c)>>)
           /\ scopes # <<>> /\ scopes \in Seq(Scope) /\ q \notin DOMAIN scopes[Len(scopes)]
           /\ frames \in Seq(Frame) /\ Len(frames) = Len(scopes)
           /\ \A k \in DOMAIN scopes : \A p \in DOMAIN scopes[k] : p[1] \in Members(sl)
<1> DEFINE w == TrueWords(c)  sc2 == [scopes EXCEPT ![Len(scopes)] = Put(q, c, @)]
           q2 == <<q[1], q[2] + w>>
<1>1. PICK R : Ranks(R, sl) /\ FramesOn(R, frames, sl) /\ CellsOn(R, scopes, frames, sl, q)
  BY DEF Tape
<1>2. /\ frames \in Seq(Frame) /\ scopes \in Seq(Scope) /\ Len(frames) = Len(scopes)
      /\ R \in [0 .. MaxBlocks -> Nat] /\ Frontier(q, sl)
  BY <1>1 DEF Tape, FramesOn, CellsOn, Ranks
<1>3. scopes # <<>> /\ Len(scopes) \in DOMAIN scopes /\ Len(sc2) = Len(scopes)
  BY <1>2
<1>4. CellsOn(R, sc2, frames, sl, q2) /\ \A k \in DOMAIN scopes : q \notin DOMAIN scopes[k]
  BY <1>1, <1>2, <1>3, StampOn
<1>5. w \in Nat \ {0} /\ q[1] \in 1 .. MaxBlocks /\ q[1] # 0
  BY ArenaWords DEF Addr
<1>6. Frontier(q2, sl)
  <2>1. q[2] + w \in 1 .. SlabWords /\ q[1] \in 0 .. MaxBlocks
    BY <1>5, CellAssumption DEF CellAssumption
  <2>2. QED
    BY <1>5, <2>1 DEF Frontier
<1>7. \A k \in DOMAIN scopes : \A p \in DOMAIN scopes[k] : p[1] \in Members(sl)
  BY <1>1 DEF CellsOn
<1> HIDE DEF sc2
<1>8. Tape(sc2, frames, sl, q2)
  BY <1>1, <1>3, <1>4, <1>6 DEF Tape
<1>9. QED
  BY <1>2, <1>3, <1>4, <1>7, <1>8 DEF sc2

\* The blocks on one list are not on the others, nor a cell's own.
LEMMA TailApart ==
    ASSUME NEW s \in Seq(1 .. MaxBlocks), NoRepeat(s), s # <<>>
    PROVE  /\ Tail(s) \in Seq(1 .. MaxBlocks) /\ NoRepeat(Tail(s))
           /\ Members(Tail(s)) = Members(s) \ {Head(s)} /\ Head(s) \in Members(s)
<1> DEFINE t == Tail(s)  n == Len(s)
<1>1. /\ t \in Seq(1 .. MaxBlocks) /\ n \in Nat \ {0} /\ DOMAIN s = 1 .. n /\ DOMAIN t = 1 .. n - 1
      /\ Head(s) = s[1] /\ \A i \in 1 .. n - 1 : t[i] = s[i + 1] /\ i + 1 \in 1 .. n
      /\ \A i \in 2 .. n : s[i] = t[i - 1] /\ i - 1 \in 1 .. n - 1
  OBVIOUS
<1> HIDE DEF t, n
<1>2. 1 \in DOMAIN s /\ \A i \in DOMAIN s : i = 1 \/ i \in 2 .. n
  BY <1>1
<1>3. NoRepeat(t)
  <2>1. ASSUME NEW i \in DOMAIN t, NEW j \in DOMAIN t, t[i] = t[j] PROVE i = j
    <3>1. i + 1 \in DOMAIN s /\ j + 1 \in DOMAIN s /\ s[i + 1] = s[j + 1]
      BY <1>1, <2>1
    <3>2. i + 1 = j + 1
      BY <3>1 DEF NoRepeat
    <3>3. QED
      BY <1>1, <3>2
  <2>2. QED
    BY <2>1 DEF NoRepeat
<1>4. ASSUME NEW x \in Members(t) PROVE x \in Members(s) \ {Head(s)}
  <2>1. PICK i \in DOMAIN t : x = t[i]
    BY DEF Members
  <2>2. i + 1 \in DOMAIN s /\ x = s[i + 1] /\ i + 1 # 1
    BY <1>1, <2>1
  <2>3. s[i + 1] # s[1]
    BY <1>2, <2>2 DEF NoRepeat
  <2>4. QED
    BY <1>1, <2>2, <2>3 DEF Members
<1>5. ASSUME NEW x \in Members(s) \ {Head(s)} PROVE x \in Members(t)
  <2>1. PICK i \in DOMAIN s : x = s[i]
    BY DEF Members
  <2>2. i \in 2 .. n
    BY <1>1, <1>2, <2>1
  <2>3. i - 1 \in DOMAIN t /\ x = t[i - 1]
    BY <1>1, <2>1, <2>2
  <2>4. QED
    BY <2>3 DEF Members
<1>6. Head(s) \in Members(s)
  BY <1>1, <1>2 DEF Members
<1>7. QED
  BY <1>1, <1>3, <1>4, <1>5, <1>6 DEF t

\* A cell of a class lies in a counted slab, one without in its own block.
LEMMA HeldIn ==
    ASSUME CountedInv, NEW p \in DOMAIN held
    PROVE  /\ p \in Addr /\ (IsLarge(held[p]) <=> p[1] \notin Members(slabs))
           /\ p[1] \notin Members(aSlabs) \cup Members(aFree)
<1>1. p \in Addr /\ HeldShape /\ FreeApart
  BY DEF CountedInv, HeldShape
<1>2. CASE IsLarge(held[p])
  <2>1. p \in LargeHeld
    BY <1>2 DEF LargeHeld
  <2>2. QED
    BY <1>1, <1>2, <2>1 DEF CountedInv, BlocksApart
<1>3. CASE ~IsLarge(held[p])
  <2>1. <<p, TrueWords(held[p])>> \in Laid
    BY <1>1, <1>3, AllLaid
  <2>2. p[1] \in Members(slabs)
    BY <2>1 DEF CountedInv, Filled, FullTo
  <2>3. QED
    BY <1>1, <1>3, <2>2 DEF CountedInv, BlocksApart
<1>4. QED
  BY <1>2, <1>3

\* A slab an earlier close gave back, or a fresh one, is put on the tape.
LEMMA GrowTape ==
    ASSUME CountedInv, ArenaTape, NEW c \in Requests, ArenaGrow(c)
    PROVE  /\ ArenaTape' /\ BlocksApart' /\ c \in ArenaShapes /\ scopes # <<>> /\ scopes \in Seq(Scope)
           /\ Len(frames) = Len(scopes) /\ frames \in Seq(Frame)
           /\ \E b \in 1 .. MaxBlocks :
                 /\ b \notin Members(slabs) /\ \A p \in DOMAIN held : p[1] # b
                 /\ StampedInScope(<<b, 1>>, c) /\ <<b, 1>> \in Addr
                 /\ <<b, 1>> \notin DOMAIN scopes[Len(scopes)]
                 /\ \A k \in DOMAIN scopes : \A p \in DOMAIN scopes[k] : p[1] # b
           /\ \/ phys' = phys /\ Len(aSlabs') + Len(aFree') = Len(aSlabs) + Len(aFree)
              \/ phys' = phys + SlabBytes /\ Len(aSlabs') + Len(aFree') = Len(aSlabs) + Len(aFree) + 1
           /\ aSlabs' \in Seq(1 .. MaxBlocks)
<1>1. /\ frames # <<>> /\ c.kind = "con" /\ frames' = frames /\ held' = held
      /\ slabs' = slabs
      /\ scopes' = [scopes EXCEPT ![Len(scopes)] = Put(<<Head(aSlabs'), 1>>, c, @)]
      /\ aBump' = <<Head(aSlabs'), 1 + WordsOf(c)>>
  BY DEF ArenaGrow, ArenaStamp, counted
<1>2. c \in ArenaShapes /\ WordsOf(c) = TrueWords(c) /\ 1 + TrueWords(c) <= SlabWords
  BY <1>1, ArenaWords DEF ArenaShapes
<1>3. /\ slabs \in Seq(1 .. MaxBlocks) /\ aSlabs \in Seq(1 .. MaxBlocks) /\ aFree \in Seq(1 .. MaxBlocks)
      /\ NoRepeat(slabs) /\ NoRepeat(aSlabs) /\ NoRepeat(aFree)
      /\ Members(slabs) \cap Members(aSlabs) = {} /\ Members(slabs) \cap Members(aFree) = {}
      /\ Members(aSlabs) \cap Members(aFree) = {}
      /\ \A p \in LargeHeld : p[1] \notin Members(slabs) \cup Members(aSlabs) \cup Members(aFree)
  BY DEF CountedInv, BlocksApart
<1>4. \E b \in 1 .. MaxBlocks :
         /\ b \notin Members(slabs) \cup Members(aSlabs) /\ \A p \in DOMAIN held : p[1] # b
         /\ aSlabs' = <<b>> \o aSlabs /\ aFree' \in Seq(1 .. MaxBlocks) /\ NoRepeat(aFree')
         /\ Members(aFree') \subseteq Members(aFree) /\ b \notin Members(aFree')
         /\ \/ phys' = phys /\ Len(aFree') = Len(aFree) - 1
            \/ phys' = phys + SlabBytes /\ Len(aFree') = Len(aFree)
  <2>1. CASE aFree # <<>>
    <3>1. aSlabs' = <<Head(aFree)>> \o aSlabs /\ aFree' = Tail(aFree) /\ phys' = phys
      BY <2>1 DEF ArenaGrow
    <3>2. /\ aFree' \in Seq(1 .. MaxBlocks) /\ NoRepeat(aFree') /\ Len(aFree') = Len(aFree) - 1
          /\ Members(aFree') = Members(aFree) \ {Head(aFree)} /\ Head(aFree) \in Members(aFree)
      BY <1>3, <2>1, <3>1, TailApart, TailKeeps
    <3>3. Head(aFree) \in 1 .. MaxBlocks
      BY <1>3, <2>1, TailKeeps
    <3>4. \A p \in DOMAIN held : p[1] # Head(aFree)
      BY <3>2, HeldIn
    <3>5. QED
      BY <1>3, <3>1, <3>2, <3>3, <3>4
  <2>2. CASE aFree = <<>>
    <3>1. Unused # {} /\ aSlabs' = <<NewBlock>> \o aSlabs /\ phys' = phys + SlabBytes /\ aFree' = aFree
      BY <2>2 DEF ArenaGrow
    <3>2. QED
      BY <1>3, <3>1, FreshBlock
  <2>3. QED
    BY <2>1, <2>2
<1>5. PICK b \in 1 .. MaxBlocks :
         /\ b \notin Members(slabs) \cup Members(aSlabs) /\ \A p \in DOMAIN held : p[1] # b
         /\ aSlabs' = <<b>> \o aSlabs /\ aFree' \in Seq(1 .. MaxBlocks) /\ NoRepeat(aFree')
         /\ Members(aFree') \subseteq Members(aFree) /\ b \notin Members(aFree')
         /\ \/ phys' = phys /\ Len(aFree') = Len(aFree) - 1
            \/ phys' = phys + SlabBytes /\ Len(aFree') = Len(aFree)
  BY <1>4
<1>6. /\ aSlabs' \in Seq(1 .. MaxBlocks) /\ NoRepeat(aSlabs')
      /\ Members(aSlabs') = Members(aSlabs) \cup {b}
  BY <1>3, <1>5, PushApart
<1>7. Head(aSlabs') = b /\ Len(aSlabs') = Len(aSlabs) + 1
  BY <1>3, <1>5, PushKeeps
<1>8. LargeHeld' = LargeHeld /\ \A p \in LargeHeld : p[1] # b
  BY <1>1, <1>5 DEF LargeHeld
<1>9. BlocksApart'
  BY <1>1, <1>3, <1>5, <1>6, <1>8 DEF BlocksApart
<1> DEFINE q == <<b, 1>>
<1>10. Tape(scopes, frames, aSlabs', q)
  BY <1>3, <1>5, PushTape DEF ArenaTape
<1>11. q \in Addr /\ q[1] = b /\ b \in Members(aSlabs') /\ q[2] = 1 /\ 1 \in Nat \ {0}
  BY <1>6, CellAssumption DEF Addr, CellAssumption
<1> HIDE DEF q
<1>12. /\ Tape([scopes EXCEPT ![Len(scopes)] = Put(q, c, @)], frames, aSlabs', <<b, 1 + TrueWords(c)>>)
       /\ scopes # <<>> /\ scopes \in Seq(Scope) /\ q \notin DOMAIN scopes[Len(scopes)]
       /\ frames \in Seq(Frame) /\ Len(frames) = Len(scopes)
  BY <1>1, <1>2, <1>6, <1>10, <1>11, StampTape
<1>13. \A k \in DOMAIN scopes : \A p \in DOMAIN scopes[k] : p[1] \in Members(aSlabs)
  BY DEF ArenaTape, Tape, CellsOn
<1>14. scopes' = [scopes EXCEPT ![Len(scopes)] = Put(q, c, @)] /\ aBump' = <<b, 1 + TrueWords(c)>>
  BY <1>1, <1>2, <1>7 DEF q
<1>15. ArenaTape'
  BY <1>1, <1>12, <1>14 DEF ArenaTape
<1>16. StampedInScope(q, c)
  BY <1>1, <1>11, <1>14 DEF StampedInScope
<1>17. Len(aSlabs) \in Nat /\ Len(aFree) \in Nat /\ Len(aFree') \in Nat
  BY <1>3, <1>5, LenType
<1>18. \/ phys' = phys /\ Len(aSlabs') + Len(aFree') = Len(aSlabs) + Len(aFree)
       \/ phys' = phys + SlabBytes /\ Len(aSlabs') + Len(aFree') = Len(aSlabs) + Len(aFree) + 1
  <2>1. CASE phys' = phys /\ Len(aFree') = Len(aFree) - 1
    BY <1>7, <1>17, <2>1
  <2>2. CASE phys' = phys + SlabBytes /\ Len(aFree') = Len(aFree)
    BY <1>7, <1>17, <2>2
  <2>3. QED
    BY <1>5, <2>1, <2>2
<1>19. \A k \in DOMAIN scopes : \A p \in DOMAIN scopes[k] : p[1] # b
  BY <1>5, <1>13
<1>20. \E x \in 1 .. MaxBlocks :
          /\ x \notin Members(slabs) /\ \A p \in DOMAIN held : p[1] # x
          /\ StampedInScope(<<x, 1>>, c) /\ <<x, 1>> \in Addr
          /\ <<x, 1>> \notin DOMAIN scopes[Len(scopes)]
          /\ \A k \in DOMAIN scopes : \A p \in DOMAIN scopes[k] : p[1] # x
  <2>1. /\ b \notin Members(slabs) /\ \A p \in DOMAIN held : p[1] # b
        /\ StampedInScope(<<b, 1>>, c) /\ <<b, 1>> \in Addr
        /\ <<b, 1>> \notin DOMAIN scopes[Len(scopes)]
        /\ \A k \in DOMAIN scopes : \A p \in DOMAIN scopes[k] : p[1] # b
    BY <1>5, <1>11, <1>12, <1>16, <1>19 DEF q
  <2>2. QED
    BY <2>1
<1>21. QED
  BY <1>2, <1>6, <1>9, <1>12, <1>15, <1>18, <1>20

\* A list cut in two.
LEMMA SplitApart ==
    ASSUME NEW s \in Seq(1 .. MaxBlocks), NoRepeat(s), NEW k \in 0 .. Len(s)
    PROVE  LET a == SubSeq(s, 1, k)  z == SubSeq(s, k + 1, Len(s))
           IN  /\ NoRepeat(a) /\ NoRepeat(z) /\ Members(a) \cap Members(z) = {}
               /\ Members(a) \cup Members(z) \subseteq Members(s)
               /\ \A i \in DOMAIN z : z[i] = s[k + i] /\ k + i \in DOMAIN s
               /\ \A i \in DOMAIN s : i > k => s[i] \in Members(z)
<1> DEFINE a == SubSeq(s, 1, k)  z == SubSeq(s, k + 1, Len(s))  n == Len(s)
<1>1. /\ n \in Nat /\ DOMAIN s = 1 .. n /\ DOMAIN a = 1 .. k /\ DOMAIN z = 1 .. n - k
      /\ \A i \in 1 .. k : a[i] = s[i] /\ i \in 1 .. n
      /\ \A i \in 1 .. n - k : z[i] = s[k + i] /\ k + i \in 1 .. n
  OBVIOUS
<1> HIDE DEF a, z, n
<1>2. NoRepeat(a)
  BY <1>1 DEF NoRepeat
<1>3. NoRepeat(z)
  <2>1. ASSUME NEW i \in DOMAIN z, NEW j \in DOMAIN z, z[i] = z[j] PROVE i = j
    <3>1. k + i \in DOMAIN s /\ k + j \in DOMAIN s /\ s[k + i] = s[k + j]
      BY <1>1, <2>1
    <3>2. k + i = k + j
      BY <3>1 DEF NoRepeat
    <3>3. QED
      BY <1>1, <3>2
  <2>2. QED
    BY <2>1 DEF NoRepeat
<1>4. Members(a) \cap Members(z) = {}
  <2>1. ASSUME NEW i \in DOMAIN a, NEW j \in DOMAIN z, a[i] = z[j] PROVE FALSE
    <3>1. i \in DOMAIN s /\ k + j \in DOMAIN s /\ s[i] = s[k + j]
      BY <1>1, <2>1
    <3>2. i = k + j
      BY <3>1 DEF NoRepeat
    <3>3. QED
      BY <1>1, <3>2
  <2>2. QED
    BY <2>1 DEF Members
<1>5. Members(a) \cup Members(z) \subseteq Members(s)
  <2>1. \A i \in DOMAIN a : a[i] \in Members(s)
    BY <1>1 DEF Members
  <2>2. \A i \in DOMAIN z : z[i] \in Members(s)
    BY <1>1 DEF Members
  <2>3. QED
    BY <2>1, <2>2 DEF Members
<1>6. ASSUME NEW i \in DOMAIN s, i > k PROVE s[i] \in Members(z)
  <2>1. i - k \in DOMAIN z /\ k + (i - k) = i
    BY <1>1, <1>6
  <2>2. z[i - k] = s[i]
    BY <1>1, <2>1
  <2>3. QED
    BY <2>1, <2>2 DEF Members
<1>7. QED
  BY <1>1, <1>2, <1>3, <1>4, <1>5, <1>6 DEF a, z, n

LEMMA FlipApart ==
    ASSUME NEW s \in Seq(1 .. MaxBlocks), NoRepeat(s)
    PROVE  NoRepeat(Flip(s)) /\ Members(Flip(s)) \subseteq Members(s)
<1> DEFINE t == Flip(s)  n == Len(s)
<1>1. /\ n \in Nat /\ DOMAIN s = 1 .. n /\ DOMAIN t = 1 .. n
      /\ \A i \in 1 .. n : t[i] = s[n + 1 - i] /\ n + 1 - i \in 1 .. n
  BY DEF Flip
<1> HIDE DEF t, n
<1>2. NoRepeat(t)
  <2>1. ASSUME NEW i \in DOMAIN t, NEW j \in DOMAIN t, t[i] = t[j] PROVE i = j
    <3>1. n + 1 - i \in DOMAIN s /\ n + 1 - j \in DOMAIN s /\ s[n + 1 - i] = s[n + 1 - j]
      BY <1>1, <2>1
    <3>2. n + 1 - i = n + 1 - j
      BY <3>1 DEF NoRepeat
    <3>3. QED
      BY <1>1, <3>2
  <2>2. QED
    BY <2>1 DEF NoRepeat
<1>3. Members(t) \subseteq Members(s)
  BY <1>1 DEF Members
<1>4. QED
  BY <1>2, <1>3 DEF t

LEMMA JoinApart ==
    ASSUME NEW s \in Seq(1 .. MaxBlocks), NoRepeat(s), NEW t \in Seq(1 .. MaxBlocks), NoRepeat(t),
           Members(s) \cap Members(t) = {}
    PROVE  NoRepeat(s \o t) /\ Members(s \o t) \subseteq Members(s) \cup Members(t)
<1> DEFINE u == s \o t  n == Len(s)  m == Len(t)
<1>1. /\ n \in Nat /\ m \in Nat /\ DOMAIN s = 1 .. n /\ DOMAIN t = 1 .. m /\ DOMAIN u = 1 .. n + m
      /\ \A i \in 1 .. n : u[i] = s[i]
      /\ \A i \in n + 1 .. n + m : u[i] = t[i - n] /\ i - n \in 1 .. m
  OBVIOUS
<1> HIDE DEF u, n, m
<1>2. \A i \in DOMAIN u : (i \in 1 .. n /\ u[i] \in Members(s)) \/ (i \in n + 1 .. n + m /\ u[i] \in Members(t))
  <2>1. ASSUME NEW i \in 1 .. n PROVE u[i] \in Members(s)
    BY <1>1 DEF Members
  <2>2. ASSUME NEW i \in n + 1 .. n + m PROVE u[i] \in Members(t)
    BY <1>1 DEF Members
  <2>3. \A i \in DOMAIN u : i \in 1 .. n \/ i \in n + 1 .. n + m
    BY <1>1
  <2>4. ASSUME NEW i \in DOMAIN u
        PROVE  (i \in 1 .. n /\ u[i] \in Members(s)) \/ (i \in n + 1 .. n + m /\ u[i] \in Members(t))
    <3>1. CASE i \in 1 .. n
      BY <2>1, <3>1
    <3>2. CASE i \in n + 1 .. n + m
      BY <2>2, <3>2
    <3>3. QED
      BY <2>3, <3>1, <3>2
  <2>5. QED
    BY <2>4
<1>3. NoRepeat(u)
  <2>1. ASSUME NEW i \in DOMAIN u, NEW j \in DOMAIN u, u[i] = u[j] PROVE i = j
    <3>1. CASE i \in 1 .. n /\ j \in 1 .. n
      BY <1>1, <2>1, <3>1 DEF NoRepeat
    <3>2. CASE i \in n + 1 .. n + m /\ j \in n + 1 .. n + m
      <4>1. i - n \in DOMAIN t /\ j - n \in DOMAIN t /\ t[i - n] = t[j - n]
        BY <1>1, <2>1, <3>2
      <4>2. i - n = j - n
        BY <4>1 DEF NoRepeat
      <4>3. QED
        BY <1>1, <3>2, <4>2
    <3>3. u[i] \notin Members(s) \/ u[i] \notin Members(t)
      OBVIOUS
    <3>4. QED
      BY <1>2, <2>1, <3>1, <3>2, <3>3
  <2>2. QED
    BY <2>1 DEF NoRepeat
<1>4. Members(u) \subseteq Members(s) \cup Members(t)
  BY <1>2 DEF Members
<1>5. QED
  BY <1>3, <1>4 DEF u

\* What was put on the tape since the innermost scope opened.
LEMMA GrownIs ==
    ASSUME NEW S, aSlabs \in Seq(S), NoRepeat(aSlabs), 0 \notin Members(aSlabs),
           TopFrame.slab \in {0} \cup Members(aSlabs)
    PROVE  /\ Grown \in 0 .. Len(aSlabs)
           /\ TopFrame.slab = 0 => Grown = Len(aSlabs)
           /\ TopFrame.slab # 0 => Grown + 1 \in DOMAIN aSlabs /\ aSlabs[Grown + 1] = TopFrame.slab
<1> DEFINE G == {i \in DOMAIN aSlabs : \A j \in 1 .. i : aSlabs[j] # TopFrame.slab}
           x == TopFrame.slab  n == Len(aSlabs)
<1>1. Grown = Cardinality(G)
  BY DEF Grown
<1>2. n \in Nat /\ DOMAIN aSlabs = 1 .. n
  OBVIOUS
<1>3. CASE x = 0
  <2>1. \A i \in DOMAIN aSlabs : aSlabs[i] # x
    BY <1>3 DEF Members
  <2>2. G = 1 .. n
    BY <1>2, <2>1
  <2>3. Cardinality(1 .. n) = n
    BY <1>2, FS_Interval
  <2> HIDE DEF G, n, x
  <2>4. QED
    BY <1>1, <1>2, <1>3, <2>2, <2>3 DEF n, x
<1>4. CASE x # 0
  <2>1. PICK m \in DOMAIN aSlabs : aSlabs[m] = x
    BY <1>4 DEF Members
  <2>2. \A i \in DOMAIN aSlabs : aSlabs[i] = x => i = m
    BY <2>1 DEF NoRepeat
  <2>3. G = 1 .. m - 1
    <3>1. ASSUME NEW i \in DOMAIN aSlabs, i < m, NEW j \in 1 .. i PROVE aSlabs[j] # x
      <4>1. j \in DOMAIN aSlabs /\ j # m
        BY <1>2, <3>1
      <4>2. QED
        BY <2>2, <4>1
    <3>2. ASSUME NEW i \in DOMAIN aSlabs, ~(i < m) PROVE \E j \in 1 .. i : aSlabs[j] = x
      BY <1>2, <2>1, <3>2
    <3>3. QED
      BY <1>2, <3>1, <3>2
  <2>4. Cardinality(1 .. m - 1) = m - 1
    <3>1. 1 \in Int /\ m - 1 \in Int /\ m - 1 >= 0
      BY <1>2
    <3>2. QED
      BY <3>1, FS_Interval
  <2>5. m - 1 \in 0 .. n /\ (m - 1) + 1 = m
    BY <1>2
  <2> HIDE DEF G, n, x
  <2>6. Grown = m - 1
    BY <1>1, <2>3, <2>4
  <2>7. QED
    BY <1>4, <2>1, <2>5, <2>6 DEF n, x
<1>5. QED
  BY <1>3, <1>4

LEMMA FrontOf ==
    ASSUME NEW S, NEW s \in Seq(S), s # <<>>
    PROVE  /\ SubSeq(s, 1, Len(s) - 1) \in Seq(S) /\ Len(SubSeq(s, 1, Len(s) - 1)) = Len(s) - 1
           /\ DOMAIN SubSeq(s, 1, Len(s) - 1) = 1 .. Len(s) - 1 /\ Len(s) \in Nat \ {0}
           /\ \A i \in 1 .. Len(s) - 1 : SubSeq(s, 1, Len(s) - 1)[i] = s[i] /\ i \in DOMAIN s
           /\ Len(s) \in DOMAIN s /\ DOMAIN s = 1 .. Len(s)
  OBVIOUS

\* The innermost scope closes: what was put on the tape since is taken off,
\* and no cell of another scope lies there.
LEMMA CloseTape ==
    ASSUME BlocksApart, ArenaTape, ArenaClose
    PROVE  /\ ArenaTape' /\ BlocksApart' /\ scopes # <<>> /\ scopes \in Seq(Scope)
           /\ Len(frames) = Len(scopes) /\ frames \in Seq(Frame)
           /\ Len(aSlabs') + Len(aFree') = Len(aSlabs) + Len(aFree)
<1> DEFINE g == Grown  n == Len(frames)  top == frames[n]  N == Len(aSlabs)
           gone == SubSeq(aSlabs, 1, g)  kept == SubSeq(aSlabs, g + 1, N)
<1>1. /\ frames # <<>> /\ aFree' = Flip(gone) \o aFree /\ aSlabs' = kept /\ aBump' = top.bump
      /\ frames' = SubSeq(frames, 1, n - 1) /\ scopes' = SubSeq(scopes, 1, Len(scopes) - 1)
      /\ UNCHANGED <<held, slabs>>
  BY DEF ArenaClose, Pop, counted, TopFrame
<1>2. /\ aSlabs \in Seq(1 .. MaxBlocks) /\ aFree \in Seq(1 .. MaxBlocks) /\ NoRepeat(aSlabs)
      /\ NoRepeat(aFree) /\ Members(aSlabs) \subseteq 1 .. MaxBlocks
      /\ Members(aSlabs) \cap Members(aFree) = {}
      /\ slabs \in Seq(1 .. MaxBlocks) /\ NoRepeat(slabs)
      /\ Members(slabs) \cap Members(aSlabs) = {} /\ Members(slabs) \cap Members(aFree) = {}
      /\ \A p \in LargeHeld : p[1] \notin Members(slabs) \cup Members(aSlabs) \cup Members(aFree)
  BY MembersIn DEF BlocksApart
<1>3. PICK R : Ranks(R, aSlabs) /\ FramesOn(R, frames, aSlabs)
               /\ CellsOn(R, scopes, frames, aSlabs, aBump)
  BY DEF ArenaTape, Tape
<1>4. /\ frames \in Seq(Frame) /\ scopes \in Seq(Scope) /\ Len(scopes) = n /\ n <= MaxDepth
      /\ R \in [0 .. MaxBlocks -> Nat] /\ R[0] = 0
      /\ \A i \in DOMAIN aSlabs : R[aSlabs[i]] = N + 1 - i
      /\ \A k \in DOMAIN frames : frames[k].slab = frames[k].bump[1] /\ Frontier(frames[k].bump, aSlabs)
      /\ \A j, k \in DOMAIN frames : j <= k => R[frames[j].slab] <= R[frames[k].slab]
  BY <1>3 DEF ArenaTape, Tape, FramesOn, CellsOn, Ranks
<1>5. scopes # <<>>
  BY <1>1, <1>4
<1>6. /\ frames' \in Seq(Frame) /\ Len(frames') = n - 1 /\ DOMAIN frames' = 1 .. n - 1
      /\ \A i \in 1 .. n - 1 : frames'[i] = frames[i] /\ i \in DOMAIN frames
      /\ n \in DOMAIN frames /\ n \in Nat \ {0} /\ DOMAIN frames = 1 .. n
  BY <1>1, <1>4, FrontOf
<1>7. /\ scopes' \in Seq(Scope) /\ Len(scopes') = n - 1 /\ DOMAIN scopes' = 1 .. n - 1
      /\ \A i \in 1 .. n - 1 : scopes'[i] = scopes[i] /\ i \in DOMAIN scopes
  BY <1>1, <1>4, <1>5, FrontOf
<1>8. /\ top.slab = top.bump[1] /\ Frontier(top.bump, aSlabs) /\ TopFrame = top
      /\ \A j \in DOMAIN frames : R[frames[j].slab] <= R[top.slab]
  BY <1>4, <1>6 DEF TopFrame
<1>9. top.slab \in {0} \cup Members(aSlabs) /\ 0 \notin Members(aSlabs) /\ top.slab \in 0 .. MaxBlocks
  BY <1>2, <1>8 DEF Frontier
<1>10. /\ g \in 0 .. N /\ N \in Nat
       /\ top.slab = 0 => g = N
       /\ top.slab # 0 => g + 1 \in DOMAIN aSlabs /\ aSlabs[g + 1] = top.slab
  BY <1>2, <1>8, <1>9, GrownIs
<1> HIDE DEF g, n, top
<1>11. /\ gone \in Seq(1 .. MaxBlocks) /\ Len(gone) = g /\ kept \in Seq(1 .. MaxBlocks)
       /\ Len(kept) = N - g
  <2>1. aSlabs \in Seq(1 .. MaxBlocks) /\ g \in 0 .. Len(aSlabs)
    BY <1>2, <1>10
  <2>2. QED
    BY <2>1, SplitKeeps, Zenon
<1>12. /\ NoRepeat(gone) /\ NoRepeat(kept) /\ Members(gone) \cap Members(kept) = {}
       /\ Members(gone) \cup Members(kept) \subseteq Members(aSlabs)
       /\ \A i \in DOMAIN kept : kept[i] = aSlabs[g + i] /\ g + i \in DOMAIN aSlabs
       /\ \A i \in DOMAIN aSlabs : i > g => aSlabs[i] \in Members(kept)
  BY <1>2, <1>10, SplitApart
<1>13. DOMAIN kept = 1 .. N - g /\ DOMAIN aSlabs = 1 .. N
  BY <1>2, <1>10
<1> HIDE DEF gone, kept, N
<1>14. R[top.slab] = N - g
  <2>1. CASE top.slab = 0
    BY <1>4, <1>10, <2>1
  <2>2. CASE top.slab # 0
    <3>1. R[aSlabs[g + 1]] = N + 1 - (g + 1)
      BY <1>4, <1>10, <2>2
    <3>2. QED
      BY <1>10, <2>2, <3>1
  <2>3. QED
    BY <2>1, <2>2
<1>15. \A b \in {0} \cup Members(aSlabs) : R[b] <= N - g => b \in {0} \cup Members(kept)
  <2>1. ASSUME NEW i \in DOMAIN aSlabs, R[aSlabs[i]] <= N - g PROVE aSlabs[i] \in Members(kept)
    <3>1. i > g
      BY <1>4, <1>10, <1>13, <2>1
    <3>2. QED
      BY <1>12, <3>1
  <2>2. QED
    BY <2>1 DEF Members
<1>16. \A b \in Members(aSlabs) : R[b] \in Nat \ {0}
  BY <1>4, <1>10, <1>13 DEF Members
<1>17. Ranks(R, kept)
  <2>1. ASSUME NEW i \in DOMAIN kept PROVE R[kept[i]] = Len(kept) + 1 - i
    <3>1. R[aSlabs[g + i]] = N + 1 - (g + i) /\ kept[i] = aSlabs[g + i]
      BY <1>4, <1>12
    <3>2. QED
      BY <1>10, <1>11, <1>13, <3>1
  <2>2. QED
    BY <1>4, <2>1 DEF Ranks
<1>18. \A f : Frontier(f, aSlabs) /\ R[f[1]] <= N - g => Frontier(f, kept)
  BY <1>15 DEF Frontier
<1>19. FramesOn(R, frames', kept)
  <2>1. ASSUME NEW k \in DOMAIN frames'
        PROVE  frames'[k].slab = frames'[k].bump[1] /\ Frontier(frames'[k].bump, kept)
    <3>1. frames'[k] = frames[k] /\ k \in DOMAIN frames
      BY <1>6
    <3>2. R[frames[k].slab] <= N - g
      BY <1>8, <1>14, <3>1
    <3>3. QED
      BY <1>4, <1>18, <3>1, <3>2
  <2>2. \A j, k \in DOMAIN frames' : j <= k => R[frames'[j].slab] <= R[frames'[k].slab]
    BY <1>4, <1>6
  <2>3. QED
    BY <1>6, <2>1, <2>2 DEF FramesOn
<1>20. Frontier(top.bump, kept)
  <2>1. R[top.bump[1]] = N - g /\ N - g <= N - g
    BY <1>8, <1>10, <1>14
  <2>2. QED
    BY <1>8, <1>18, <2>1
<1>21. top.bump[1] = IF kept = <<>> THEN 0 ELSE kept[1]
  <2>1. CASE top.slab = 0
    <3>1. Len(kept) = 0
      BY <1>10, <1>11, <2>1
    <3>2. kept = <<>>
      BY <1>11, <3>1
    <3>3. QED
      BY <1>8, <2>1, <3>2
  <2>2. CASE top.slab # 0
    <3>1. g + 1 \in DOMAIN aSlabs /\ aSlabs[g + 1] = top.slab
      BY <1>10, <2>2
    <3>2. 1 \in DOMAIN kept
      BY <1>10, <1>13, <3>1
    <3>3. kept[1] = aSlabs[g + 1] /\ kept # <<>>
      BY <1>12, <3>2
    <3>4. QED
      BY <1>8, <3>1, <3>3
  <2>3. QED
    BY <2>1, <2>2
<1>22. CellsOn(R, scopes', frames', kept, top.bump)
  <2>1. ASSUME NEW k \in DOMAIN scopes', NEW p \in DOMAIN scopes'[k]
        PROVE  /\ p[1] \in Members(kept) /\ p[2] + TrueWords(scopes'[k][p]) <= SlabWords
               /\ Ends(R, p, TrueWords(scopes'[k][p]), top.bump)
               /\ \A j \in DOMAIN frames' : k < j => Ends(R, p, TrueWords(scopes'[k][p]), frames'[j].bump)
    <3>1. k \in DOMAIN scopes /\ scopes'[k] = scopes[k] /\ k < n
      BY <1>6, <1>7
    <3>2. /\ p[1] \in Members(aSlabs) /\ p[2] + TrueWords(scopes[k][p]) <= SlabWords
          /\ \A j \in DOMAIN frames : k < j => Ends(R, p, TrueWords(scopes[k][p]), frames[j].bump)
      BY <1>3, <3>1 DEF CellsOn
    <3>3. Ends(R, p, TrueWords(scopes[k][p]), top.bump)
      BY <1>6, <3>1, <3>2 DEF top
    <3>4. R[p[1]] <= N - g
      <4>1. R[top.bump[1]] = N - g
        BY <1>8, <1>14
      <4>2. R[p[1]] \in Nat
        BY <1>16, <3>2
      <4>3. QED
        BY <1>10, <3>3, <4>1, <4>2 DEF Ends
    <3>5. p[1] # 0 /\ p[1] \in Members(kept)
      BY <1>9, <1>15, <3>2, <3>4
    <3>6. \A j \in DOMAIN frames' : j \in DOMAIN frames /\ frames'[j] = frames[j]
      BY <1>6
    <3>7. QED
      BY <3>1, <3>2, <3>3, <3>5, <3>6
  <2>2. QED
    BY <1>7, <2>1 DEF CellsOn
<1>23. ArenaTape'
  <2>1. Len(frames') = Len(scopes') /\ Len(frames') <= MaxDepth
    BY <1>4, <1>6, <1>7, SlabAssumption DEF SlabAssumption
  <2>2. Tape(scopes', frames', kept, top.bump)
    BY <1>17, <1>19, <1>20, <1>21, <1>22, <2>1 DEF Tape
  <2>3. QED
    BY <1>1, <2>2 DEF ArenaTape
<1>24. /\ Flip(gone) \in Seq(1 .. MaxBlocks) /\ Len(Flip(gone)) = g
       /\ NoRepeat(Flip(gone)) /\ Members(Flip(gone)) \subseteq Members(gone)
  BY <1>11, <1>12, FlipKeeps, FlipApart
<1> DEFINE back == Flip(gone)
<1> HIDE DEF back
<1>25. /\ back \in Seq(1 .. MaxBlocks) /\ Len(back) = g /\ NoRepeat(back)
       /\ Members(back) \subseteq Members(gone) /\ aFree' = back \o aFree
  BY <1>1, <1>24 DEF back
<1>26. /\ aFree' \in Seq(1 .. MaxBlocks) /\ Len(aFree') = g + Len(aFree) /\ NoRepeat(aFree')
       /\ Members(aFree') \subseteq Members(gone) \cup Members(aFree)
  <2>1. Members(back) \cap Members(aFree) = {}
    BY <1>2, <1>12, <1>25
  <2>2. back \o aFree \in Seq(1 .. MaxBlocks) /\ Len(back \o aFree) = Len(back) + Len(aFree)
    BY <1>2, <1>25, JoinKeeps
  <2>3. /\ NoRepeat(back \o aFree)
        /\ Members(back \o aFree) \subseteq Members(back) \cup Members(aFree)
    BY <1>2, <1>25, <2>1, JoinApart
  <2>4. QED
    BY <1>25, <2>2, <2>3
<1>27. LargeHeld' = LargeHeld
  BY <1>1 DEF LargeHeld
<1>28. BlocksApart'
  <2>1. Members(kept) \cap Members(aFree') = {} /\ Members(slabs) \cap Members(aFree') = {}
        /\ Members(slabs) \cap Members(kept) = {}
    BY <1>2, <1>12, <1>26
  <2>2. \A p \in LargeHeld : p[1] \notin Members(slabs) \cup Members(kept) \cup Members(aFree')
    BY <1>2, <1>12, <1>26
  <2>3. QED
    BY <1>1, <1>2, <1>11, <1>12, <1>26, <1>27, <2>1, <2>2 DEF BlocksApart
<1>29. Len(aSlabs') + Len(aFree') = Len(aSlabs) + Len(aFree)
  <2>1. Len(aFree) \in Nat
    BY <1>2, LenType
  <2>2. QED
    BY <1>1, <1>10, <1>11, <1>26, <2>1 DEF N
<1>30. QED
  BY <1>4, <1>5, <1>23, <1>28, <1>29 DEF n

-----------------------------------------------------------------------------
(* The figures.                                                             *)

ArenaSum(sc) == SumFunction([i \in DOMAIN sc |-> BytesHeld(sc[i])])

\* They count what is held, and a frame has kept what the scopes outside it weigh.
FiguresOf(st, h, sc, fr) ==
    /\ st \in [live : Nat, bytes : Nat, arena : Nat]
    /\ st.live = Cardinality(DOMAIN h) /\ st.bytes = BytesHeld(h) /\ st.arena = ArenaSum(sc)
    /\ \A k \in DOMAIN fr : fr[k].bytes = ArenaSum(SubSeq(sc, 1, k - 1))

\* Teardown leaves them as they were.
Figures ==
    /\ stats \in [live : Nat, bytes : Nat, arena : Nat]
    /\ up => FiguresOf(stats, held, scopes, frames)

\* The cells with no class.
Large == Restrict(held, LargeHeld)

LEMMA HeldBulk ==
    ASSUME HeldShape
    PROVE  /\ Bulk(held) /\ Bulk(Large) /\ DOMAIN Large = LargeHeld
           /\ \A p \in DOMAIN held :
                 TrueWords(held[p]) \in Nat \ {0} /\ Bytes(held[p]) = Word * TrueWords(held[p])
           /\ \A p \in LargeHeld : Large[p] = held[p] /\ p \in DOMAIN held
<1>1. ASSUME NEW p \in DOMAIN held
      PROVE  TrueWords(held[p]) \in Nat \ {0} /\ Bytes(held[p]) = Word * TrueWords(held[p])
  <2>1. Askable(ShapeOf(held[p]))
    BY DEF HeldShape
  <2>2. QED
    BY <2>1, BytesExact, ShapeAlone
<1>2. LargeHeld \subseteq DOMAIN held
  BY DEF LargeHeld
<1>3. DOMAIN Large = LargeHeld /\ \A p \in LargeHeld : Large[p] = held[p]
  BY <1>2 DEF Large, Restrict
<1>4. IsFiniteSet(DOMAIN held) /\ IsFiniteSet(LargeHeld)
  BY <1>2, FS_Subset DEF HeldShape
<1>5. QED
  BY <1>1, <1>2, <1>3, <1>4 DEF Bulk

Spent(st, c) == [st EXCEPT !.live = @ + 1, !.bytes = @ + Bytes(c)]
Regained(st, c) == [st EXCEPT !.live = @ - 1, !.bytes = @ - Bytes(c)]

\* What a stamped counted cell does to the figures.
LEMMA StampCounts ==
    ASSUME NEW st, NEW h, NEW sc, NEW fr, FiguresOf(st, h, sc, fr), Bulk(h),
           NEW c \in Requests, ~Overflows(c), NEW p, p \notin DOMAIN h
    PROVE  FiguresOf(Spent(st, c), Put(p, Counted(c), h), sc, fr)
<1> DEFINE h2 == Put(p, Counted(c), h)  st2 == Spent(st, c)
<1>2. Bytes(c) = Word * TrueWords(c) /\ TrueWords(c) \in Nat \ {0} /\ TrueWords(Counted(c)) = TrueWords(c)
  BY Asked, BytesExact, ShapeAlone
<1>3. IsFiniteSet(DOMAIN h)
  BY DEF Bulk
<1>4. /\ BytesHeld(h) \in Nat
      /\ BytesHeld(h2) = BytesHeld(h) + Bytes(c)
  BY <1>2, BytesPut
<1>5. Cardinality(DOMAIN h2) = Cardinality(DOMAIN h) + 1 /\ Cardinality(DOMAIN h) \in Nat
  <2>1. DOMAIN h2 = DOMAIN h \cup {p}
    BY DEF Put
  <2>2. QED
    BY <1>3, <2>1, FS_AddElement, FS_CardinalityType
<1>6. Bytes(c) \in Nat
  BY <1>2 DEF Word
<1> HIDE DEF h2
<1>7. st2 \in [live : Nat, bytes : Nat, arena : Nat]
      /\ st2.live = st.live + 1 /\ st2.bytes = st.bytes + Bytes(c) /\ st2.arena = st.arena
  <2>1. st \in [live : Nat, bytes : Nat, arena : Nat]
    BY DEF FiguresOf
  <2>2. /\ st2.live = st.live + 1 /\ st2.bytes = st.bytes + Bytes(c)
        /\ st2.arena = st.arena
    BY <2>1 DEF Spent
  <2>3. st.live + 1 \in Nat /\ st.bytes + Bytes(c) \in Nat
    BY <1>6, <2>1
  <2>4. st2 \in [live : Nat, bytes : Nat, arena : Nat]
    BY <2>1, <2>3 DEF Spent
  <2>5. QED
    BY <2>2, <2>4
<1> HIDE DEF st2
<1>8. FiguresOf(st2, h2, sc, fr)
  BY <1>4, <1>5, <1>7 DEF FiguresOf
<1>9. QED
  BY <1>8 DEF h2, st2

\* And a cell given back.
LEMMA FreeCounts ==
    ASSUME NEW st, NEW h, NEW sc, NEW fr, FiguresOf(st, h, sc, fr), Bulk(h),
           NEW p \in DOMAIN h, Bytes(h[p]) = Word * TrueWords(h[p])
    PROVE  FiguresOf(Regained(st, h[p]), Restrict(h, DOMAIN h \ {p}), sc, fr)
<1> DEFINE h2 == Restrict(h, DOMAIN h \ {p})  st2 == Regained(st, h[p])
<1>2. IsFiniteSet(DOMAIN h)
  BY DEF Bulk
<1>3. /\ BytesHeld(h) \in Nat /\ BytesHeld(h2) \in Nat
      /\ BytesHeld(h2) = BytesHeld(h) - Bytes(h[p])
  BY BytesTake
<1>4. /\ Cardinality(DOMAIN h2) = Cardinality(DOMAIN h) - 1
      /\ Cardinality(DOMAIN h2) \in Nat
  <2>1. DOMAIN h2 = DOMAIN h \ {p}
    BY DEF Restrict
  <2>2. QED
    BY <1>2, <2>1, FS_RemoveElement, FS_CardinalityType
<1> HIDE DEF h2
<1>5. /\ st.live = Cardinality(DOMAIN h) /\ st.bytes = BytesHeld(h)
      /\ st \in [live : Nat, bytes : Nat, arena : Nat] /\ st.arena = ArenaSum(sc)
  BY DEF FiguresOf
<1>6. st2.live = st.live - 1 /\ st2.bytes = st.bytes - Bytes(h[p]) /\ st2.arena = st.arena
  BY <1>5 DEF Regained
<1>7. st2 \in [live : Nat, bytes : Nat, arena : Nat]
  BY <1>3, <1>4, <1>5 DEF Regained
<1> HIDE DEF st2
<1>8. FiguresOf(st2, h2, sc, fr)
  BY <1>3, <1>4, <1>5, <1>6, <1>7 DEF FiguresOf
<1>9. QED
  BY <1>8 DEF h2, st2

LEMMA StampFigures ==
    ASSUME HeldShape, Figures, NEW c \in Requests, ~Overflows(c), up,
           NEW p, p \notin DOMAIN held, Stamp(p, c)
    PROVE  Figures'
<1>1. /\ held' = Put(p, Counted(c), held) /\ up' = up /\ scopes' = scopes /\ frames' = frames
      /\ stats' = Spent(stats, c)
  BY DEF Stamp, arena, Spent
<1>2. FiguresOf(stats, held, scopes, frames) /\ Bulk(held)
  BY HeldBulk DEF Figures
<1>3. FiguresOf(Spent(stats, c), Put(p, Counted(c), held), scopes, frames)
  BY <1>2, StampCounts
<1>4. FiguresOf(stats', held', scopes', frames')
  BY <1>1, <1>3
<1>5. QED
  BY <1>4 DEF Figures, FiguresOf

\* Counts change, and shells are stamped again: the figures stand.
LEMMA StillFigures ==
    ASSUME HeldShape, Figures, DOMAIN held' = DOMAIN held,
           \A q \in DOMAIN held : TrueWords(held'[q]) = TrueWords(held[q]),
           UNCHANGED <<stats, up, scopes, frames>>
    PROVE  Figures'
<1>1. Bulk(held)
  BY HeldBulk
<1>2. BytesHeld(held') = BytesHeld(held)
  BY <1>1, BytesStill
<1>3. QED
  BY <1>2 DEF Figures, FiguresOf

LEMMA FreeFigures ==
    ASSUME HeldShape, Figures, up, NEW p \in DOMAIN held, Reclaim(p),
           UNCHANGED <<up, scopes, frames>>
    PROVE  Figures'
<1>1. /\ held' = Restrict(held, DOMAIN held \ {p})
      /\ stats' = Regained(stats, held[p])
  BY DEF Reclaim, Regained
<1>2. /\ FiguresOf(stats, held, scopes, frames) /\ Bulk(held)
      /\ Bytes(held[p]) = Word * TrueWords(held[p])
  BY HeldBulk DEF Figures
<1>3. FiguresOf(Regained(stats, held[p]), Restrict(held, DOMAIN held \ {p}), scopes, frames)
  BY <1>2, FreeCounts
<1>4. FiguresOf(stats', held', scopes', frames')
  BY <1>1, <1>3
<1>5. QED
  BY <1>4 DEF Figures, FiguresOf

-----------------------------------------------------------------------------
(* Sums over scopes.                                                        *)

LEMMA ScopeBulk ==
    ASSUME NEW x \in Scope
    PROVE  Bulk(x) /\ BytesHeld(x) \in Nat
<1>1. IsFiniteSet(DOMAIN x) /\ \A p \in DOMAIN x : TrueWords(x[p]) \in Nat
  BY ScopeIs, ArenaWords
<1>2. Bulk(x)
  BY <1>1 DEF Bulk
<1>3. DOMAIN x \ {x} = DOMAIN x \ {x} /\ \A y \in DOMAIN x \ {x} : x[y] = x[y]
  OBVIOUS
<1>4. QED
  BY <1>2, <1>3, BytesOther

LEMMA NothingWeighs == BytesHeld(<<>>) = 0
<1>1. DOMAIN [p \in DOMAIN <<>> |-> Word * TrueWords(<<>>[p])] = {}
  OBVIOUS
<1>2. QED
  BY <1>1, SumEmpty DEF BytesHeld

LEMMA Balance ==
    ASSUME NEW a \in Nat, NEW b \in Nat, NEW d \in Nat, NEW e \in Nat, NEW x, x = d + e, b - x = a - d
    PROVE  b = a + e
  OBVIOUS

\* One scope more, or one that differs.
LEMMA ArenaSumOther ==
    ASSUME NEW s \in Seq(Scope), NEW t \in Seq(Scope), NEW a,
           DOMAIN s \ {a} = DOMAIN t \ {a}, \A i \in DOMAIN s \ {a} : s[i] = t[i]
    PROVE  /\ ArenaSum(s) \in Nat /\ ArenaSum(t) \in Nat
           /\ ArenaSum(t) - (IF a \in DOMAIN t THEN BytesHeld(t[a]) ELSE 0)
                = ArenaSum(s) - (IF a \in DOMAIN s THEN BytesHeld(s[a]) ELSE 0)
<1> DEFINE F == [i \in DOMAIN s |-> BytesHeld(s[i])]
           G == [i \in DOMAIN t |-> BytesHeld(t[i])]
<1>1. /\ DOMAIN F = DOMAIN s /\ DOMAIN G = DOMAIN t
      /\ \A i \in DOMAIN s : F[i] = BytesHeld(s[i])
      /\ \A i \in DOMAIN t : G[i] = BytesHeld(t[i])
  OBVIOUS
<1>2. ArenaSum(s) = SumFunction(F) /\ ArenaSum(t) = SumFunction(G)
  BY DEF ArenaSum
<1> HIDE DEF F, G
<1>3. IsFiniteSet(DOMAIN s) /\ IsFiniteSet(DOMAIN t)
  <2>1. DOMAIN s = 1 .. Len(s) /\ DOMAIN t = 1 .. Len(t) /\ Len(s) \in Int /\ Len(t) \in Int /\ 1 \in Int
    OBVIOUS
  <2>2. QED
    BY <2>1, FS_Interval
<1>4. /\ \A i \in DOMAIN F : F[i] \in Nat
      /\ \A i \in DOMAIN G : G[i] \in Nat
  BY <1>1, ScopeBulk
<1>5. /\ SumFunction(F) \in Nat /\ SumFunction(G) \in Nat
      /\ SumFunction(G) - (IF a \in DOMAIN G THEN G[a] ELSE 0)
            = SumFunction(F) - (IF a \in DOMAIN F THEN F[a] ELSE 0)
  BY <1>1, <1>3, <1>4, SumOther
<1>6. QED
  BY <1>1, <1>2, <1>5

\* A scope opens.
LEMMA OpenCounts ==
    ASSUME NEW st, NEW h, NEW sc \in Seq(Scope), NEW F, NEW fr \in Seq(F), FiguresOf(st, h, sc, fr),
           Len(fr) = Len(sc), NEW f \in F, f.bytes = st.arena
    PROVE  FiguresOf(st, h, Append(sc, <<>>), Append(fr, f))
<1> DEFINE n == Len(sc)  sc2 == Append(sc, <<>>)  fr2 == Append(fr, f)
<1>1. /\ sc2 \in Seq(Scope) /\ n \in Nat /\ DOMAIN sc2 = 1 .. n + 1 /\ DOMAIN sc = 1 .. n
      /\ sc2[n + 1] = <<>> /\ \A i \in 1 .. n : sc2[i] = sc[i]
  BY ScopeEmpty, AppendIs
<1>2. /\ DOMAIN fr2 = 1 .. n + 1 /\ DOMAIN fr = 1 .. n
      /\ fr2[n + 1] = f /\ \A i \in 1 .. n : fr2[i] = fr[i]
  BY AppendIs
<1>4. ASSUME NEW k \in 1 .. n + 1 PROVE SubSeq(sc2, 1, k - 1) = SubSeq(sc, 1, k - 1)
  <2>1. sc \in Seq(Scope) /\ k - 1 \in 0 .. n
    BY <1>1
  <2>2. QED
    BY <1>1, <2>1
<1>5. SubSeq(sc, 1, n) = sc
  OBVIOUS
<1> HIDE DEF sc2, fr2
<1>3. ArenaSum(sc2) = ArenaSum(sc)
  <2>1. DOMAIN sc \ {n + 1} = DOMAIN sc2 \ {n + 1} /\ n + 1 \notin DOMAIN sc
        /\ n + 1 \in DOMAIN sc2
    BY <1>1
  <2>2. \A i \in DOMAIN sc \ {n + 1} : sc[i] = sc2[i]
    BY <1>1
  <2>3. /\ ArenaSum(sc) \in Nat /\ ArenaSum(sc2) \in Nat
        /\ ArenaSum(sc2) - (IF n + 1 \in DOMAIN sc2 THEN BytesHeld(sc2[n + 1]) ELSE 0)
             = ArenaSum(sc) - (IF n + 1 \in DOMAIN sc THEN BytesHeld(sc[n + 1]) ELSE 0)
    BY <1>1, <2>1, <2>2, ArenaSumOther
  <2>4. QED
    BY <1>1, <2>1, <2>3, NothingWeighs
<1>6. ASSUME NEW k \in DOMAIN fr2
      PROVE  fr2[k].bytes = ArenaSum(SubSeq(sc2, 1, k - 1))
  <2>1. CASE k \in 1 .. n
    BY <1>1, <1>2, <1>4, <2>1 DEF FiguresOf
  <2>2. CASE k = n + 1
    <3>1. SubSeq(sc2, 1, k - 1) = sc
      <4>1. k \in 1 .. n + 1 /\ k - 1 = n
        BY <1>1, <2>2
      <4>2. QED
        BY <1>4, <1>5, <4>1
    <3>2. st.arena = ArenaSum(sc) /\ fr2[k].bytes = st.arena
      BY <1>2, <2>2 DEF FiguresOf
    <3>3. QED
      BY <3>1, <3>2
  <2>3. QED
    BY <1>1, <1>2, <2>1, <2>2
<1>7. FiguresOf(st, h, sc2, fr2)
  BY <1>3, <1>6 DEF FiguresOf
<1>8. QED
  BY <1>7 DEF sc2, fr2

Marked(st, c) == [st EXCEPT !.arena = @ + Bytes(c)]
Deeper(sc, q, c) == [sc EXCEPT ![Len(sc)] = Put(q, c, @)]

\* An arena cell is stamped; what the frames have kept stands.
LEMMA ArenaCounts ==
    ASSUME NEW st, NEW h, NEW sc \in Seq(Scope), NEW fr, FiguresOf(st, h, sc, fr),
           sc # <<>>, DOMAIN fr = DOMAIN sc, NEW fr2, DOMAIN fr2 = DOMAIN fr,
           \A k \in DOMAIN fr : fr2[k].bytes = fr[k].bytes,
           NEW c \in ArenaShapes, NEW q \in Addr, q \notin DOMAIN sc[Len(sc)]
    PROVE  FiguresOf(Marked(st, c), h, Deeper(sc, q, c), fr2)
<1> DEFINE n == Len(sc)  last == Put(q, c, sc[n])  sc2 == Deeper(sc, q, c)  st2 == Marked(st, c)
<1>1. /\ n \in DOMAIN sc /\ DOMAIN sc2 = DOMAIN sc /\ DOMAIN sc = 1 .. n
      /\ n \in Nat /\ sc[n] \in Scope /\ sc2[n] = last
      /\ \A i \in DOMAIN sc : i # n => sc2[i] = sc[i]
  BY DEF Deeper
<1>2. last \in Scope
  BY <1>1, ScopePut
<1>3. sc2 \in Seq(Scope)
  <2> HIDE DEF last
  <2>1. sc2 = [sc EXCEPT ![n] = last]
    BY DEF Deeper, last
  <2>2. QED
    BY <1>1, <1>2, <2>1
<1>4. /\ Bytes(c) = Word * TrueWords(c) /\ TrueWords(c) \in Nat \ {0} /\ Bytes(c) \in Nat
  BY ArenaWords DEF Word
<1>5. BytesHeld(last) = BytesHeld(sc[n]) + Bytes(c) /\ BytesHeld(sc[n]) \in Nat
  <2>1. Bulk(sc[n]) /\ TrueWords(c) \in Nat
    BY <1>1, <1>4, ScopeBulk
  <2>2. QED
    BY <1>4, <2>1, BytesPut
<1> HIDE DEF last, sc2, st2
<1>6. ArenaSum(sc2) = ArenaSum(sc) + Bytes(c) /\ ArenaSum(sc) \in Nat
  <2>1. /\ ArenaSum(sc) \in Nat /\ ArenaSum(sc2) \in Nat
        /\ ArenaSum(sc2) - (IF n \in DOMAIN sc2 THEN BytesHeld(sc2[n]) ELSE 0)
             = ArenaSum(sc) - (IF n \in DOMAIN sc THEN BytesHeld(sc[n]) ELSE 0)
    BY <1>1, <1>3, ArenaSumOther
  <2>2. ArenaSum(sc2) - BytesHeld(last) = ArenaSum(sc) - BytesHeld(sc[n])
    BY <1>1, <2>1
  <2>3. QED
    <3>1. /\ ArenaSum(sc) \in Nat /\ ArenaSum(sc2) \in Nat /\ Bytes(c) \in Nat
          /\ BytesHeld(sc[n]) \in Nat
      BY <1>4, <1>5, <2>1
    <3>2. BytesHeld(last) = BytesHeld(sc[n]) + Bytes(c)
      BY <1>5
    <3> DEFINE a == ArenaSum(sc)  b == ArenaSum(sc2)  d == BytesHeld(sc[n])
               e == Bytes(c)  x == BytesHeld(last)
    <3>3. a \in Nat /\ b \in Nat /\ d \in Nat /\ e \in Nat /\ x = d + e /\ b - x = a - d
      BY <2>2, <3>1, <3>2
    <3> HIDE DEF a, b, d, e, x
    <3>4. b = a + e
      BY <3>3, Balance
    <3>5. QED
      BY <3>3, <3>4 DEF a, b, e
<1>7. ASSUME NEW k \in DOMAIN fr2 PROVE SubSeq(sc2, 1, k - 1) = SubSeq(sc, 1, k - 1)
  <2>1. /\ sc \in Seq(Scope) /\ sc2 \in Seq(Scope) /\ Len(sc2) = n /\ k - 1 \in 0 .. n
        /\ \A i \in 1 .. k - 1 : sc2[i] = sc[i]
    BY <1>1, <1>3
  <2>2. QED
    BY <2>1
<1>8. st2 \in [live : Nat, bytes : Nat, arena : Nat]
      /\ st2.live = st.live /\ st2.bytes = st.bytes /\ st2.arena = st.arena + Bytes(c)
  BY <1>4 DEF FiguresOf, Marked, st2
<1>9. FiguresOf(st2, h, sc2, fr2)
  BY <1>6, <1>7, <1>8 DEF FiguresOf
<1>10. QED
  BY <1>9 DEF st2, sc2

\* The innermost scope closes.
Front(s) == SubSeq(s, 1, Len(s) - 1)

LEMMA CloseCounts ==
    ASSUME NEW st, NEW h, NEW sc \in Seq(Scope), NEW F, NEW fr \in Seq(F), FiguresOf(st, h, sc, fr),
           sc # <<>>, Len(fr) = Len(sc), fr[Len(fr)].bytes \in Nat
    PROVE  FiguresOf([st EXCEPT !.arena = fr[Len(fr)].bytes], h, Front(sc), Front(fr))
<1> DEFINE n == Len(sc)  sc2 == Front(sc)  fr2 == Front(fr)
           st2 == [st EXCEPT !.arena = fr[Len(fr)].bytes]
<1>2. /\ sc2 \in Seq(Scope) /\ DOMAIN sc2 = 1 .. n - 1 /\ n \in Nat \ {0} /\ n \in DOMAIN sc
      /\ \A i \in 1 .. n - 1 : sc2[i] = sc[i]
  BY FrontOf DEF Front
<1>3. /\ DOMAIN fr2 = 1 .. n - 1 /\ DOMAIN fr = 1 .. n /\ sc2 = SubSeq(sc, 1, n - 1)
      /\ \A i \in 1 .. n - 1 : fr2[i] = fr[i] /\ i \in DOMAIN fr
  BY FrontOf DEF Front
<1> HIDE DEF sc2, fr2
<1>4. fr[n].bytes \in Nat /\ fr[n].bytes = ArenaSum(sc2)
  <2>1. \A k \in DOMAIN fr : fr[k].bytes = ArenaSum(SubSeq(sc, 1, k - 1))
    BY DEF FiguresOf
  <2>2. n \in DOMAIN fr
    BY <1>2, <1>3
  <2>3. fr[n].bytes = ArenaSum(SubSeq(sc, 1, n - 1))
    BY <2>1, <2>2
  <2>4. QED
    BY <1>3, <2>3
<1>5. ASSUME NEW k \in DOMAIN fr2 PROVE SubSeq(sc2, 1, k - 1) = SubSeq(sc, 1, k - 1)
  <2>1. /\ sc \in Seq(Scope) /\ sc2 \in Seq(Scope) /\ k - 1 \in 0 .. n - 1
        /\ \A i \in 1 .. k - 1 : sc2[i] = sc[i] /\ Len(sc2) = n - 1
    BY <1>2, <1>3
  <2>2. QED
    BY <1>2, <2>1
<1>6. st2 \in [live : Nat, bytes : Nat, arena : Nat]
      /\ st2.live = st.live /\ st2.bytes = st.bytes /\ st2.arena = fr[n].bytes
  BY <1>4 DEF FiguresOf
<1> HIDE DEF st2
<1>7. FiguresOf(st2, h, sc2, fr2)
  BY <1>3, <1>4, <1>5, <1>6 DEF FiguresOf
<1>8. QED
  BY <1>7 DEF st2, sc2, fr2

LEMMA OpenFigures ==
    ASSUME Figures, up, scopes \in Seq(Scope), frames \in Seq(Frame), Len(frames) = Len(scopes),
           scopes' = Append(scopes, <<>>), NEW f \in Frame, frames' = Append(frames, f),
           f.bytes = stats.arena, UNCHANGED <<held, stats, up>>
    PROVE  Figures'
<1>1. FiguresOf(stats, held, scopes, frames)
  BY DEF Figures
<1>2. FiguresOf(stats, held, Append(scopes, <<>>), Append(frames, f))
  BY <1>1, OpenCounts
<1>3. FiguresOf(stats', held', scopes', frames')
  BY <1>2
<1>4. QED
  BY <1>3 DEF Figures, FiguresOf

LEMMA ArenaFigures ==
    ASSUME Figures, up, scopes \in Seq(Scope), scopes # <<>>, Len(frames) = Len(scopes), frames \in Seq(Frame),
           NEW c \in ArenaShapes, NEW q \in Addr, q \notin DOMAIN scopes[Len(scopes)],
           scopes' = [scopes EXCEPT ![Len(scopes)] = Put(q, c, @)],
           stats' = [stats EXCEPT !.arena = @ + Bytes(c)],
           UNCHANGED <<held, up, frames>>
    PROVE  Figures'
<1>1. FiguresOf(stats, held, scopes, frames) /\ DOMAIN frames = DOMAIN scopes
  BY DEF Figures
<1>2. FiguresOf(Marked(stats, c), held, Deeper(scopes, q, c), frames)
  BY <1>1, ArenaCounts
<1>3. scopes' = Deeper(scopes, q, c) /\ stats' = Marked(stats, c)
  BY DEF Deeper, Marked
<1>4. FiguresOf(stats', held', scopes', frames')
  BY <1>2, <1>3
<1>5. QED
  BY <1>4 DEF Figures, FiguresOf

LEMMA CloseFigures ==
    ASSUME Figures, up, scopes \in Seq(Scope), scopes # <<>>, frames \in Seq(Frame),
           Len(frames) = Len(scopes), Pop
    PROVE  Figures'
<1>1. /\ frames' = Front(frames) /\ scopes' = Front(scopes)
      /\ stats' = [stats EXCEPT !.arena = frames[Len(frames)].bytes] /\ held' = held /\ up' = up
  BY DEF Pop, TopFrame, Front
<1>2. FiguresOf(stats, held, scopes, frames)
  BY DEF Figures
<1>3. frames[Len(frames)].bytes \in Nat
  <2>1. Len(frames) \in DOMAIN frames
    OBVIOUS
  <2>2. frames[Len(frames)] \in Frame
    BY <2>1
  <2>3. QED
    BY <2>2 DEF Frame
<1>4. FiguresOf([stats EXCEPT !.arena = frames[Len(frames)].bytes], held, Front(scopes), Front(frames))
  BY <1>2, <1>3, CloseCounts
<1>5. FiguresOf(stats', held', scopes', frames')
  BY <1>1, <1>4
<1>6. QED
  BY <1>5 DEF Figures, FiguresOf

-----------------------------------------------------------------------------
(* The physical figure.                                                     *)

Slots == Len(slabs) + Len(aSlabs) + Len(aFree)

LEMMA OneMore ==
    ASSUME NEW n \in Nat
    PROVE  SlabBytes * (n + 1) = SlabBytes * n + SlabBytes /\ SlabBytes * n \in Nat /\ SlabBytes \in Nat
           /\ SlabBytes * 0 = 0
<1>1. SlabBytes \in Nat
  BY CellAssumption DEF SlabBytes, Word, CellAssumption
<1>2. \A x \in Nat : x * (n + 1) = x * n + x /\ x * n \in Nat /\ x * 0 = 0
  OBVIOUS
<1>3. QED
  BY <1>1, <1>2

LEMMA SlotsType == ASSUME BlocksApart PROVE Slots \in Nat
<1>1. /\ slabs \in Seq(1 .. MaxBlocks) /\ aSlabs \in Seq(1 .. MaxBlocks)
      /\ aFree \in Seq(1 .. MaxBlocks)
  BY DEF BlocksApart
<1>2. Len(slabs) \in Nat /\ Len(aSlabs) \in Nat /\ Len(aFree) \in Nat
  BY <1>1, LenType
<1>3. QED
  BY <1>2 DEF Slots

\* The cells without a class weigh the same when none comes or goes.
LEMMA LargeStill ==
    ASSUME HeldShape, LargeHeld' = LargeHeld, LargeHeld \subseteq DOMAIN held',
           \A p \in LargeHeld : TrueWords(held'[p]) = TrueWords(held[p])
    PROVE  BytesHeld(Large') = BytesHeld(Large)
<1>1. Bulk(Large) /\ DOMAIN Large = LargeHeld /\ \A p \in LargeHeld : Large[p] = held[p]
  BY HeldBulk
<1>2. Large' = Restrict(held', LargeHeld)
  BY DEF Large
<1> DEFINE h == Restrict(held', LargeHeld)
<1>3. DOMAIN h = DOMAIN Large /\ \A p \in DOMAIN Large : TrueWords(h[p]) = TrueWords(Large[p])
  BY <1>1 DEF Restrict
<1> HIDE DEF h
<1>4. BytesHeld(h) = BytesHeld(Large)
  BY <1>1, <1>3, BytesStill
<1>5. QED
  BY <1>2, <1>4 DEF h

LEMMA PhysStill ==
    ASSUME PhysicalExact, BytesHeld(Large') = BytesHeld(Large), phys' = phys, Slots' = Slots
    PROVE  PhysicalExact'
  BY DEF PhysicalExact, Slots, Large

\* A slab more.
LEMMA PhysSlab ==
    ASSUME PhysicalExact, BlocksApart, HeldShape,
           BytesHeld(Large') = BytesHeld(Large), phys' = phys + SlabBytes, Slots' = Slots + 1
    PROVE  PhysicalExact'
<1>1. phys = SlabBytes * Slots + BytesHeld(Large)
  BY DEF PhysicalExact, Slots, Large
<1>2. BytesHeld(Large) \in Nat
  <2>1. Bulk(Large) /\ DOMAIN Large \ {0} = DOMAIN Large \ {0} /\ \A x \in DOMAIN Large \ {0} : Large[x] = Large[x]
    BY HeldBulk
  <2>2. QED
    BY <2>1, BytesOther
<1>3. /\ SlabBytes * (Slots + 1) = SlabBytes * Slots + SlabBytes /\ SlabBytes * Slots \in Nat
      /\ SlabBytes \in Nat
  BY SlotsType, OneMore
<1>4. phys' = SlabBytes * (Slots + 1) + BytesHeld(Large)
  BY <1>1, <1>2, <1>3
<1>5. phys' = SlabBytes * Slots' + BytesHeld(Large')
  BY <1>4
<1>6. QED
  BY <1>5 DEF PhysicalExact, Slots, Large

\* A cell without a class comes.
LEMMA PhysLarge ==
    ASSUME CountedInv, PhysicalExact, NEW c \in Requests, AllocLarge(c)
    PROVE  PhysicalExact'
<1> DEFINE p == <<NewBlock, 0>>
<1>1. /\ CountedInv' /\ p \notin DOMAIN held /\ LargeHeld' = LargeHeld \cup {p}
  BY LargeKeeps
<1>2. /\ up /\ ~Overflows(c) /\ phys' = phys + Bytes(c) /\ UNCHANGED <<slabs, aSlabs, aFree>>
      /\ held' = Put(p, Counted(c), held)
  BY DEF AllocLarge, Admit, Stamp, arena, counted
<1> HIDE DEF p
<1>3. TrueWords(Counted(c)) = TrueWords(c) /\ TrueWords(c) \in Nat /\ Bytes(c) = Word * TrueWords(c)
  BY <1>2, Asked, BytesExact, ShapeAlone
<1>4. Bulk(Large) /\ DOMAIN Large = LargeHeld /\ LargeHeld \subseteq DOMAIN held
      /\ \A q \in LargeHeld : Large[q] = held[q]
  BY HeldBulk DEF CountedInv, LargeHeld
<1>5. Large' = Put(p, Counted(c), Large)
  <2>1. Large' = Restrict(held', LargeHeld \cup {p})
    BY <1>1 DEF Large
  <2> DEFINE h == Restrict(held', LargeHeld \cup {p})  k == Put(p, Counted(c), Large)
  <2>2. DOMAIN h = LargeHeld \cup {p} /\ DOMAIN k = LargeHeld \cup {p}
    BY <1>2, <1>4 DEF Restrict, Put
  <2>3. \A x \in LargeHeld \cup {p} : h[x] = k[x]
    BY <1>2, <1>4 DEF Restrict, Put
  <2>4. h = [x \in DOMAIN h |-> h[x]] /\ k = [x \in DOMAIN k |-> k[x]]
    BY DEF Restrict, Put
  <2> HIDE DEF h, k
  <2>5. h = k
    BY <2>2, <2>3, <2>4
  <2>6. QED
    BY <2>1, <2>5 DEF h, k
<1>6. p \notin DOMAIN Large
  BY <1>1, <1>4
<1>7. BytesHeld(Large) \in Nat /\ BytesHeld(Put(p, Counted(c), Large)) = BytesHeld(Large) + Bytes(c)
  BY <1>3, <1>4, <1>6, BytesPut
<1>8. phys = SlabBytes * Slots + BytesHeld(Large) /\ SlabBytes * Slots \in Nat /\ Bytes(c) \in Nat
  <2>1. SlabBytes * Slots \in Nat
    BY SlotsType, OneMore DEF CountedInv
  <2>2. QED
    BY <1>3, <2>1 DEF PhysicalExact, Slots, Large, Word
<1>9. phys' = SlabBytes * Slots + BytesHeld(Large')
  BY <1>2, <1>5, <1>7, <1>8
<1>10. Slots' = Slots
  BY <1>2 DEF Slots
<1>11. phys' = SlabBytes * Slots' + BytesHeld(Large')
  BY <1>9, <1>10
<1>12. QED
  BY <1>11 DEF PhysicalExact, Slots, Large

LEMMA PhysFree ==
    ASSUME CountedInv, PhysicalExact, NEW p \in DOMAIN held, Free(p)
    PROVE  PhysicalExact'
<1>1. LargeHeld' = LargeHeld \ {p} /\ held' = Restrict(held, DOMAIN held \ {p})
      /\ UNCHANGED <<slabs, aSlabs, aFree>>
  BY FreeKeeps DEF Free, Reclaim, arena
<1>2. Bulk(Large) /\ DOMAIN Large = LargeHeld /\ LargeHeld \subseteq DOMAIN held
      /\ \A q \in LargeHeld : Large[q] = held[q]
  BY HeldBulk DEF CountedInv, LargeHeld
<1>3. Slots' = Slots
  BY <1>1 DEF Slots
<1>4. CASE ~IsLarge(held[p])
  <2>1. p \notin LargeHeld /\ phys' = phys
    BY <1>4 DEF LargeHeld, Free
  <2>2. LargeHeld' = LargeHeld /\ LargeHeld \subseteq DOMAIN held' /\ \A q \in LargeHeld : held'[q] = held[q]
    BY <1>1, <1>2, <2>1 DEF Restrict
  <2>3. BytesHeld(Large') = BytesHeld(Large)
    BY <2>2, LargeStill DEF CountedInv
  <2>4. QED
    BY <1>3, <2>1, <2>3, PhysStill
<1>5. CASE IsLarge(held[p])
  <2>1. p \in LargeHeld /\ phys' = phys - Bytes(held[p])
    BY <1>5 DEF LargeHeld, Free
  <2>2. Large' = Restrict(Large, DOMAIN Large \ {p})
    <3>1. Large' = Restrict(held', LargeHeld \ {p})
      BY <1>1 DEF Large
    <3> DEFINE h == Restrict(held', LargeHeld \ {p})  k == Restrict(Large, DOMAIN Large \ {p})
    <3>2. DOMAIN h = LargeHeld \ {p} /\ DOMAIN k = LargeHeld \ {p}
      BY <1>2 DEF Restrict
    <3>3. \A x \in LargeHeld \ {p} : h[x] = k[x]
      BY <1>1, <1>2 DEF Restrict
    <3>4. h = [x \in DOMAIN h |-> h[x]] /\ k = [x \in DOMAIN k |-> k[x]]
      BY DEF Restrict
    <3> HIDE DEF h, k
    <3>5. h = k
      BY <3>2, <3>3, <3>4
    <3>6. QED
      BY <3>1, <3>5 DEF h, k
  <2>3. /\ BytesHeld(Large) \in Nat
        /\ BytesHeld(Restrict(Large, DOMAIN Large \ {p})) = BytesHeld(Large) - Word * TrueWords(Large[p])
    BY <1>2, <2>1, BytesTake
  <2>4. Word * TrueWords(Large[p]) = Bytes(held[p]) /\ Bytes(held[p]) \in Nat
    <3>1. Bytes(held[p]) = Word * TrueWords(held[p]) /\ TrueWords(held[p]) \in Nat
      BY HeldBulk DEF CountedInv
    <3>2. QED
      BY <1>2, <2>1, <3>1 DEF Word
  <2>5. phys = SlabBytes * Slots + BytesHeld(Large) /\ SlabBytes * Slots \in Nat
    <3>1. SlabBytes * Slots \in Nat
      BY SlotsType, OneMore DEF CountedInv
    <3>2. QED
      BY <3>1 DEF PhysicalExact, Slots, Large
  <2>6. phys' = SlabBytes * Slots + BytesHeld(Large')
    BY <2>1, <2>2, <2>3, <2>4, <2>5
  <2>7. phys' = SlabBytes * Slots' + BytesHeld(Large')
    BY <1>3, <2>6
  <2>8. QED
    BY <2>7 DEF PhysicalExact, Slots, Large
<1>6. QED
  BY <1>4, <1>5

LEMMA PhysTornDown ==
    ASSUME CountedInv, PhysicalExact, HeapFree
    PROVE  PhysicalExact'
<1>1. LargeHeld' = LargeHeld /\ DOMAIN held' = LargeHeld /\ \A p \in LargeHeld : held'[p] = held[p]
  BY TornDown
<1>2. /\ phys' = phys - SlabBytes * Slots /\ slabs' = <<>> /\ aSlabs' = <<>> /\ aFree' = <<>>
  BY DEF HeapFree, Slots
<1>3. BytesHeld(Large') = BytesHeld(Large)
  BY <1>1, LargeStill DEF CountedInv
<1>4. BytesHeld(Large) \in Nat
  <2>1. Bulk(Large) /\ DOMAIN Large \ {0} = DOMAIN Large \ {0} /\ \A x \in DOMAIN Large \ {0} : Large[x] = Large[x]
    BY HeldBulk DEF CountedInv
  <2>2. QED
    BY <2>1, BytesOther
<1>5. phys = SlabBytes * Slots + BytesHeld(Large) /\ SlabBytes * Slots \in Nat
  <2>1. SlabBytes * Slots \in Nat
    BY SlotsType, OneMore DEF CountedInv
  <2>2. QED
    BY <2>1 DEF PhysicalExact, Slots, Large
<1>6. Len(slabs') + Len(aSlabs') + Len(aFree') = 0
  BY <1>2
<1>7. SlabBytes * (Len(slabs') + Len(aSlabs') + Len(aFree')) = 0
  BY <1>6, OneMore
<1>8. phys' = BytesHeld(Large)
  BY <1>2, <1>4, <1>5
<1>9. phys' = SlabBytes * (Len(slabs') + Len(aSlabs') + Len(aFree')) + BytesHeld(Large')
  BY <1>3, <1>4, <1>7, <1>8
<1>10. QED
  BY <1>9 DEF PhysicalExact, Large

-----------------------------------------------------------------------------
(* The invariant of the slab backend, and what each step hands out.          *)

SlabInv == CountedInv /\ ArenaTape /\ Figures /\ PhysicalExact /\ ArenaInv

\* w words at p do not meet v words at q.
Clear(p, w, q, v) == p[1] # q[1] \/ p[2] + w <= q[2] \/ q[2] + v <= p[2]

FreshAt(p, w) ==
    /\ \A q \in DOMAIN held : Clear(p, w, q, TrueWords(held[q]))
    /\ \A k \in DOMAIN scopes : \A q \in DOMAIN scopes[k] : Clear(p, w, q, TrueWords(scopes[k][q]))

Placed(p, c) ==
    /\ p \in Addr /\ up /\ FreshAt(p, TrueWords(c))
    /\ held' = Put(p, Counted(c), held) /\ UNCHANGED <<scopes, up>>

PlacedInScope(q, c) ==
    /\ q \in Addr /\ up /\ scopes # <<>> /\ FreshAt(q, TrueWords(c))
    /\ scopes' = [scopes EXCEPT ![Len(scopes)] = Put(q, c, @)] /\ UNCHANGED <<held, up>>

LEMMA ArenaCells ==
    ASSUME ArenaTape
    PROVE  /\ scopes \in Seq(Scope) /\ frames \in Seq(Frame) /\ Len(frames) = Len(scopes)
           /\ \A k \in DOMAIN scopes : scopes[k] \in Scope
           /\ \A k \in DOMAIN scopes : \A q \in DOMAIN scopes[k] : q[1] \in Members(aSlabs)
<1>1. scopes \in Seq(Scope) /\ frames \in Seq(Frame) /\ Len(frames) = Len(scopes)
      /\ \A k \in DOMAIN scopes : \A q \in DOMAIN scopes[k] : q[1] \in Members(aSlabs)
  BY DEF ArenaTape, Tape, FramesOn, CellsOn
<1>2. \A k \in DOMAIN scopes : scopes[k] \in Scope
  BY <1>1
<1>3. QED
  BY <1>1, <1>2

\* A block that is nobody's, or off the arena and clear of the cells held.
LEMMA CountedFresh ==
    ASSUME ArenaTape, NEW p, NEW w, p[1] \notin Members(aSlabs),
           \A q \in DOMAIN held : Clear(p, w, q, TrueWords(held[q]))
    PROVE  FreshAt(p, w)
  BY ArenaCells DEF FreshAt, Clear

LEMMA TapeStill ==
    ASSUME ArenaTape, UNCHANGED <<scopes, frames, aSlabs, aBump>>
    PROVE  ArenaTape'
  BY DEF ArenaTape

\* A step that leaves the arena alone.
LEMMA ArenaStill ==
    ASSUME SlabInv, UNCHANGED arena, UNCHANGED up
    PROVE  ArenaTape' /\ ArenaInv'
  BY TapeStill DEF SlabInv, arena, ArenaInv

LEMMA ReuseStep ==
    ASSUME SlabInv, NEW c \in Requests, AllocReuse(c)
    PROVE  SlabInv' /\ Placed(Head(freelist[Class(c)]), c)
<1> DEFINE p == Head(freelist[Class(c)])  w == TrueWords(c)
<1>1. /\ up /\ ~Overflows(c) /\ ~IsLarge(c) /\ Stamp(p, c) /\ UNCHANGED <<slabs, bump, phys, arena, up>>
      /\ held' = Put(p, Counted(c), held) /\ UNCHANGED <<scopes, up, aSlabs, aFree>>
  BY DEF AllocReuse, Admit, Stamp, arena
<1>2. CountedInv' /\ p \in Addr \ DOMAIN held /\ <<p, w>> \in Laid
  BY ReuseKeeps DEF SlabInv
<1> HIDE DEF p, w
<1>3. CountedInv /\ HeldShape /\ FreeApart /\ BlocksApart /\ ArenaTape /\ Figures /\ PhysicalExact
  BY DEF SlabInv, CountedInv
<1>4. ArenaTape' /\ ArenaInv'
  BY <1>1, ArenaStill
<1>5. Figures'
  BY <1>1, <1>2, <1>3, StampFigures
<1>6. Slots' = Slots /\ phys' = phys
  BY <1>1 DEF Slots
<1>7. LargeHeld' = LargeHeld /\ LargeHeld \subseteq DOMAIN held'
      /\ \A q \in LargeHeld : TrueWords(held'[q]) = TrueWords(held[q])
  <2>1. /\ DOMAIN held' = DOMAIN held \cup {p} /\ held'[p] = Counted(c)
        /\ \A q \in DOMAIN held : held'[q] = held[q]
    BY <1>1, <1>2 DEF Put
  <2>2. ~IsLarge(held'[p])
    BY <1>1, <2>1, ShapeAlone
  <2>3. QED
    BY <1>2, <2>1, <2>2 DEF LargeHeld
<1>8. PhysicalExact'
  BY <1>3, <1>6, <1>7, LargeStill, PhysStill
<1>9. p[1] \in Members(slabs) /\ p[1] \notin Members(aSlabs)
  <2>1. p[1] \in Members(slabs)
    BY <1>2, <1>3 DEF CountedInv, Filled, FullTo
  <2>2. QED
    BY <1>3, <2>1 DEF BlocksApart
<1>10. ASSUME NEW q \in DOMAIN held PROVE Clear(p, w, q, TrueWords(held[q]))
  <2>1. CASE IsLarge(held[q])
    BY <1>3, <1>9, <2>1, HeldIn DEF Clear
  <2>2. CASE ~IsLarge(held[q])
    <3>1. <<q, TrueWords(held[q])>> \in Laid /\ q # p
      BY <1>2, <1>3, <2>2, AllLaid
    <3>2. PICK fill : FullTo(Laid, slabs, bump, fill)
      BY <1>3 DEF CountedInv, Filled
    <3>3. \A l, m \in Laid : l # m /\ l[1][1] = m[1][1] => EndsBy(l, m[1][2]) \/ EndsBy(m, l[1][2])
      BY <3>2 DEF FullTo
    <3>4. <<p, w>> # <<q, TrueWords(held[q])>>
      BY <3>1
    <3>5. p[1] = q[1] => EndsBy(<<p, w>>, q[2]) \/ EndsBy(<<q, TrueWords(held[q])>>, p[2])
      BY <1>2, <3>1, <3>3, <3>4
    <3>6. QED
      BY <3>5 DEF EndsBy, Clear
  <2>3. QED
    BY <2>1, <2>2
<1>11. FreshAt(p, w)
  BY <1>3, <1>9, <1>10, CountedFresh
<1>12. Placed(p, c)
  BY <1>1, <1>2, <1>11 DEF Placed, w
<1>13. QED
  BY <1>2, <1>4, <1>5, <1>8, <1>12 DEF SlabInv, p

LEMMA BumpStep ==
    ASSUME SlabInv, NEW c \in Requests, AllocBump(c)
    PROVE  SlabInv' /\ Placed(bump, c)
<1> DEFINE p == bump  w == TrueWords(c)
<1>1. /\ up /\ ~Overflows(c) /\ ~IsLarge(c) /\ Stamp(p, c) /\ UNCHANGED <<slabs, phys, arena, up>>
      /\ held' = Put(p, Counted(c), held) /\ UNCHANGED <<scopes, up, aSlabs, aFree>>
  BY DEF AllocBump, Admit, Stamp, arena
<1>2. /\ CountedInv' /\ p \in Addr \ DOMAIN held /\ p[1] \in Members(slabs)
      /\ \A l \in Laid : l[1][1] = p[1] => EndsBy(l, p[2])
  BY BumpKeeps DEF SlabInv
<1>3. CountedInv /\ HeldShape /\ FreeApart /\ BlocksApart /\ ArenaTape /\ Figures /\ PhysicalExact
  BY DEF SlabInv, CountedInv
<1>4. ArenaTape' /\ ArenaInv'
  BY <1>1, ArenaStill
<1>5. Figures'
  BY <1>1, <1>2, <1>3, StampFigures
<1>6. Slots' = Slots /\ phys' = phys
  BY <1>1 DEF Slots
<1>7. LargeHeld' = LargeHeld /\ LargeHeld \subseteq DOMAIN held'
      /\ \A q \in LargeHeld : TrueWords(held'[q]) = TrueWords(held[q])
  <2>1. /\ DOMAIN held' = DOMAIN held \cup {p} /\ held'[p] = Counted(c)
        /\ \A q \in DOMAIN held : held'[q] = held[q]
    BY <1>1, <1>2 DEF Put
  <2>2. ~IsLarge(held'[p])
    BY <1>1, <2>1, ShapeAlone
  <2>3. QED
    BY <1>2, <2>1, <2>2 DEF LargeHeld
<1>8. PhysicalExact'
  BY <1>3, <1>6, <1>7, LargeStill, PhysStill
<1>9. p[1] \notin Members(aSlabs)
  BY <1>2, <1>3 DEF BlocksApart
<1>10. ASSUME NEW q \in DOMAIN held PROVE Clear(p, w, q, TrueWords(held[q]))
  <2>1. CASE IsLarge(held[q])
    BY <1>2, <1>3, <2>1, HeldIn DEF Clear
  <2>2. CASE ~IsLarge(held[q])
    <3>1. <<q, TrueWords(held[q])>> \in Laid
      BY <1>3, <2>2, AllLaid
    <3>2. QED
      BY <1>2, <3>1 DEF EndsBy, Clear
  <2>3. QED
    BY <2>1, <2>2
<1>11. FreshAt(p, w)
  BY <1>3, <1>9, <1>10, CountedFresh
<1>12. Placed(p, c)
  BY <1>1, <1>2, <1>11 DEF Placed, w
<1>13. QED
  BY <1>2, <1>4, <1>5, <1>8, <1>12 DEF SlabInv, p

LEMMA NewSlabStep ==
    ASSUME SlabInv, NEW c \in Requests, AllocGrow(c)
    PROVE  SlabInv' /\ Placed(<<NewBlock, 1>>, c)
<1> DEFINE b == NewBlock  p == <<b, 1>>  w == TrueWords(c)
<1>1. /\ up /\ ~Overflows(c) /\ ~IsLarge(c) /\ Stamp(p, c) /\ UNCHANGED <<arena, up>>
      /\ held' = Put(p, Counted(c), held) /\ UNCHANGED <<scopes, up, aSlabs, aFree>>
      /\ Unused # {} /\ slabs' = <<b>> \o slabs /\ phys' = phys + SlabBytes
  BY DEF AllocGrow, Admit, Stamp, arena
<1>2. CountedInv' /\ p \in Addr \ DOMAIN held
  BY NewSlabKeeps DEF SlabInv
<1>3. CountedInv /\ HeldShape /\ FreeApart /\ BlocksApart /\ ArenaTape /\ Figures /\ PhysicalExact
  BY DEF SlabInv, CountedInv
<1>14. /\ b \in 1 .. MaxBlocks /\ b \notin Members(slabs) \cup Members(aSlabs) \cup Members(aFree)
       /\ \A q \in DOMAIN held : q[1] # b
  BY <1>1, FreshBlock
<1>15. p[1] = b
  OBVIOUS
<1> HIDE DEF b, p, w
<1>4. ArenaTape' /\ ArenaInv'
  BY <1>1, ArenaStill
<1>5. Figures'
  BY <1>1, <1>2, <1>3, StampFigures
<1>6. Slots' = Slots + 1
  <2>1. slabs \in Seq(1 .. MaxBlocks) /\ aSlabs \in Seq(1 .. MaxBlocks) /\ aFree \in Seq(1 .. MaxBlocks)
    BY <1>3 DEF BlocksApart
  <2>2. Len(slabs) \in Nat /\ Len(aSlabs) \in Nat /\ Len(aFree) \in Nat /\ Len(slabs') = Len(slabs) + 1
    BY <1>1, <1>14, <2>1, LenType, PushKeeps
  <2>3. QED
    BY <1>1, <2>2 DEF Slots
<1>7. LargeHeld' = LargeHeld /\ LargeHeld \subseteq DOMAIN held'
      /\ \A q \in LargeHeld : TrueWords(held'[q]) = TrueWords(held[q])
  <2>1. /\ DOMAIN held' = DOMAIN held \cup {p} /\ held'[p] = Counted(c)
        /\ \A q \in DOMAIN held : held'[q] = held[q]
    BY <1>1, <1>2 DEF Put
  <2>2. ~IsLarge(held'[p])
    BY <1>1, <2>1, ShapeAlone
  <2>3. QED
    BY <1>2, <2>1, <2>2 DEF LargeHeld
<1>8. PhysicalExact'
  <2>1. BytesHeld(Large') = BytesHeld(Large)
    BY <1>3, <1>7, LargeStill
  <2>2. QED
    BY <1>1, <1>3, <1>6, <2>1, PhysSlab
<1>10. \A q \in DOMAIN held : Clear(p, w, q, TrueWords(held[q]))
  BY <1>14, <1>15 DEF Clear
<1>11. FreshAt(p, w)
  BY <1>3, <1>10, <1>14, <1>15, CountedFresh
<1>12. Placed(p, c)
  BY <1>1, <1>2, <1>11 DEF Placed, w
<1>13. QED
  BY <1>2, <1>4, <1>5, <1>8, <1>12 DEF SlabInv, p, b

LEMMA LargeStep ==
    ASSUME SlabInv, NEW c \in Requests, AllocLarge(c)
    PROVE  SlabInv' /\ Placed(<<NewBlock, 0>>, c)
<1> DEFINE b == NewBlock  p == <<b, 0>>  w == TrueWords(c)
<1>1. /\ up /\ ~Overflows(c) /\ Stamp(p, c) /\ UNCHANGED <<arena, up>>
      /\ held' = Put(p, Counted(c), held) /\ UNCHANGED <<scopes, up>> /\ Unused # {}
  BY DEF AllocLarge, Admit, Stamp, arena
<1>2. CountedInv' /\ p \in Addr \ DOMAIN held
  BY LargeKeeps DEF SlabInv
<1>3. CountedInv /\ HeldShape /\ ArenaTape /\ Figures /\ PhysicalExact
  BY DEF SlabInv, CountedInv
<1>14. /\ b \notin Members(slabs) \cup Members(aSlabs) \cup Members(aFree)
       /\ \A q \in DOMAIN held : q[1] # b
  BY <1>1, FreshBlock
<1>15. p[1] = b
  OBVIOUS
<1> HIDE DEF b, p, w
<1>4. ArenaTape' /\ ArenaInv'
  BY <1>1, ArenaStill
<1>5. Figures'
  BY <1>1, <1>2, <1>3, StampFigures
<1>8. PhysicalExact'
  BY <1>3, PhysLarge
<1>10. \A q \in DOMAIN held : Clear(p, w, q, TrueWords(held[q]))
  BY <1>14, <1>15 DEF Clear
<1>11. FreshAt(p, w)
  BY <1>3, <1>10, <1>14, <1>15, CountedFresh
<1>12. Placed(p, c)
  BY <1>1, <1>2, <1>11 DEF Placed, w
<1>13. QED
  BY <1>2, <1>4, <1>5, <1>8, <1>12 DEF SlabInv, p, b

\* A cell changes in place for another of its size.
InPlace(p, x) ==
    /\ up /\ held' = [held EXCEPT ![p] = x] /\ TrueWords(x) = TrueWords(held[p])
    /\ UNCHANGED <<scopes, stats, up>>

LEMMA InPlaceStep ==
    ASSUME SlabInv, NEW p \in DOMAIN held, NEW x \in HeldCell, Askable(ShapeOf(x)),
           Class(x) = Class(held[p]), InPlace(p, x), UNCHANGED <<counted, arena, phys>>
    PROVE  SlabInv'
<1>1. CountedInv /\ HeldShape /\ Figures /\ PhysicalExact
  BY DEF SlabInv, CountedInv
<1>2. UNCHANGED <<slabs, bump, freelist, aSlabs, aFree, scopes, frames, stats, up, phys>>
  BY DEF counted, arena, InPlace
<1>3. CountedInv' /\ LargeHeld' = LargeHeld
  BY <1>1, <1>2, InPlaceKeeps DEF InPlace
<1>4. /\ DOMAIN held' = DOMAIN held
      /\ \A q \in DOMAIN held : TrueWords(held'[q]) = TrueWords(held[q])
  BY DEF InPlace
<1>5. Figures'
  BY <1>1, <1>2, <1>4, StillFigures
<1>6. Slots' = Slots
  BY <1>2 DEF Slots
<1>7. PhysicalExact'
  <2>1. BytesHeld(Large') = BytesHeld(Large)
    BY <1>1, <1>3, <1>4, LargeStill DEF LargeHeld
  <2>2. QED
    BY <1>1, <1>2, <1>6, <2>1, PhysStill
<1>8. ArenaTape' /\ ArenaInv'
  BY <1>2, ArenaStill
<1>9. QED
  BY <1>3, <1>5, <1>7, <1>8 DEF SlabInv

\* A count goes up or down.
Recounted(p, rc) == [kind |-> held[p].kind, n |-> held[p].n, rc |-> rc]

LEMMA RecountStep ==
    ASSUME SlabInv, NEW p \in DOMAIN held, NEW rc \in 0 .. MaxRc, up,
           held' = [held EXCEPT ![p].rc = rc],
           UNCHANGED <<stats, up, counted, arena, phys>>
    PROVE  SlabInv'
<1>1. held[p] \in HeldCell /\ Askable(ShapeOf(held[p]))
  BY DEF SlabInv, CountedInv, HeldShape
<1>2. held[p] = [kind |-> held[p].kind, n |-> held[p].n, rc |-> held[p].rc]
  BY <1>1 DEF HeldCell
<1> DEFINE x == Recounted(p, rc)
<1>3. /\ x \in HeldCell /\ ShapeOf(x) = ShapeOf(held[p])
      /\ x = [held[p] EXCEPT !.rc = rc]
  BY <1>1, <1>2 DEF Recounted, HeldCell, ShapeOf
<1>4. held' = [held EXCEPT ![p] = x]
  BY <1>3
<1> HIDE DEF x
<1>5. Class(x) = Class(held[p]) /\ TrueWords(x) = TrueWords(held[p])
  <2>1. Class(ShapeOf(x)) = Class(x) /\ TrueWords(ShapeOf(x)) = TrueWords(x)
    BY ShapeAlone
  <2>2. Class(ShapeOf(held[p])) = Class(held[p]) /\ TrueWords(ShapeOf(held[p])) = TrueWords(held[p])
    BY ShapeAlone
  <2>3. QED
    BY <1>3, <2>1, <2>2
<1>6. InPlace(p, x)
  BY <1>4, <1>5 DEF InPlace, arena
<1>7. QED
  BY <1>1, <1>3, <1>5, <1>6, InPlaceStep

LEMMA CountsStep ==
    ASSUME SlabInv, NEW p \in DOMAIN held, Dup(p) \/ Dec(p)
    PROVE  /\ SlabInv' /\ up /\ UNCHANGED <<scopes, stats, up>> /\ held[p].rc \in Nat \ {0}
           /\ \E rc \in 0 .. held[p].rc + 1 :
                 rc \in {held[p].rc - 1, held[p].rc + 1} /\ held' = [held EXCEPT ![p].rc = rc]
<1>1. held[p] \in HeldCell /\ held[p].rc \in 0 .. MaxRc /\ MaxRc \in Nat
  BY SlabAssumption DEF SlabInv, CountedInv, HeldShape, HeldCell, SlabAssumption
<1>2. UNCHANGED <<scopes, stats, up, counted, arena, phys>> /\ up
  BY DEF Dup, Dec, arena
<1>3. CASE Dup(p)
  <2>1. held[p].rc \in 1 .. MaxRc - 1 /\ held' = [held EXCEPT ![p].rc = held[p].rc + 1]
    BY <1>3 DEF Dup
  <2>2. held[p].rc + 1 \in 0 .. MaxRc
    BY <1>1, <2>1
  <2>3. SlabInv'
    BY <1>2, <2>1, <2>2, RecountStep
  <2>4. held[p].rc + 1 \in 0 .. held[p].rc + 1 /\ held[p].rc \in Nat \ {0}
    BY <1>1, <2>1
  <2>5. QED
    BY <1>2, <2>1, <2>3, <2>4
<1>4. CASE Dec(p)
  <2>1. held[p].rc > 0 /\ held' = [held EXCEPT ![p].rc = held[p].rc - 1]
    BY <1>4 DEF Dec
  <2>2. held[p].rc - 1 \in 0 .. MaxRc
    BY <1>1, <2>1
  <2>3. SlabInv'
    BY <1>2, <2>1, <2>2, RecountStep
  <2>4. held[p].rc - 1 \in 0 .. held[p].rc + 1 /\ held[p].rc \in Nat \ {0}
    BY <1>1, <2>1
  <2>5. QED
    BY <1>2, <2>1, <2>3, <2>4
<1>5. QED
  BY <1>3, <1>4

LEMMA ShellStep ==
    ASSUME SlabInv, NEW c \in Requests, NEW p \in DOMAIN held, AllocAt(p, c)
    PROVE  SlabInv' /\ held[p].rc = 0 /\ InPlace(p, Counted(c))
<1>1. /\ up /\ c.kind = "con" /\ held[p].kind = "con" /\ held[p].rc = 0 /\ held[p].n = c.n
      /\ held' = [held EXCEPT ![p] = Counted(c)]
      /\ UNCHANGED <<stats, up, counted, arena, phys, scopes>>
  BY DEF AllocAt, HeaderArity, arena
<1>2. c \in ArenaShapes
  BY <1>1 DEF ArenaShapes
<1>3. Counted(c) \in HeldCell /\ Askable(ShapeOf(Counted(c)))
  BY <1>2, ArenaWords, Asked
<1>4. Class(Counted(c)) = Class(held[p]) /\ TrueWords(Counted(c)) = TrueWords(held[p])
  <2>1. Class(Counted(c)) = c.n /\ TrueWords(Counted(c)) = 1 + c.n
    BY <1>1 DEF Counted, Class, TrueWords, ByteBlocks
  <2>2. Class(held[p]) = c.n /\ TrueWords(held[p]) = 1 + c.n
    BY <1>1 DEF Class, TrueWords, ByteBlocks
  <2>3. QED
    BY <2>1, <2>2
<1>5. InPlace(p, Counted(c))
  BY <1>1, <1>4 DEF InPlace
<1>6. SlabInv'
  BY <1>1, <1>3, <1>4, <1>5, InPlaceStep
<1>7. QED
  BY <1>1, <1>5, <1>6

LEMMA FreeStep ==
    ASSUME SlabInv, NEW p \in DOMAIN held, Free(p)
    PROVE  /\ SlabInv' /\ up /\ held[p].rc = 0 /\ held' = Restrict(held, DOMAIN held \ {p})
           /\ UNCHANGED <<scopes, up>>
<1>1. /\ up /\ held[p].rc = 0 /\ Reclaim(p) /\ held' = Restrict(held, DOMAIN held \ {p})
      /\ UNCHANGED <<scopes, up, arena, frames>>
  BY DEF Free, Reclaim, arena
<1>2. CountedInv /\ HeldShape /\ Figures /\ PhysicalExact
  BY DEF SlabInv, CountedInv
<1>3. CountedInv'
  BY <1>2, FreeKeeps
<1>4. Figures'
  BY <1>1, <1>2, FreeFigures
<1>5. PhysicalExact'
  BY <1>2, PhysFree
<1>6. ArenaTape' /\ ArenaInv'
  BY <1>1, ArenaStill
<1>7. QED
  BY <1>1, <1>3, <1>4, <1>5, <1>6 DEF SlabInv

\* A step that leaves the counted cells alone.
LEMMA CountedStill ==
    ASSUME CountedInv, UNCHANGED <<held, counted>>, BlocksApart'
    PROVE  /\ CountedInv' /\ LargeHeld' = LargeHeld /\ LargeHeld \subseteq DOMAIN held'
           /\ \A q \in LargeHeld : TrueWords(held'[q]) = TrueWords(held[q])
<1>1. held' = held /\ slabs' = slabs /\ bump' = bump /\ freelist' = freelist
  BY DEF counted
<1>2. HeldShape' /\ FreeApart' /\ Laid' = Laid
  BY <1>1 DEF CountedInv, HeldShape, FreeApart, Laid
<1>3. QED
  BY <1>1, <1>2 DEF CountedInv, LargeHeld

LEMMA OpenStep ==
    ASSUME SlabInv, ArenaOpen
    PROVE  /\ SlabInv' /\ up /\ Len(scopes) < MaxDepth /\ scopes' = Append(scopes, <<>>)
           /\ UNCHANGED <<held, stats, up>>
<1>1. CountedInv /\ BlocksApart /\ ArenaTape /\ Figures /\ PhysicalExact /\ ArenaInv
  BY DEF SlabInv, CountedInv
<1>2. UNCHANGED <<held, stats, up, counted, slabs, aSlabs, aBump, aFree, phys, aMalloced, aNeed>> /\ up
  BY DEF ArenaOpen, counted
<1>3. aSlabs \in Seq(1 .. MaxBlocks) /\ stats.arena \in Nat
  BY <1>1 DEF BlocksApart, Figures
<1>4. /\ ArenaTape' /\ scopes \in Seq(Scope) /\ scopes' = Append(scopes, <<>>)
      /\ frames \in Seq(Frame) /\ Len(frames) = Len(scopes) /\ Len(scopes) < MaxDepth
      /\ frames' = Append(frames, frames'[Len(frames) + 1])
      /\ frames'[Len(frames) + 1].bytes = stats.arena
  BY <1>1, <1>3, OpenTape
<1>5. frames'[Len(frames) + 1] \in Frame
  <2>1. frames' \in Seq(Frame)
    BY <1>4 DEF ArenaTape, Tape, FramesOn
  <2>2. Len(frames) + 1 \in DOMAIN frames'
    <3>1. \A x : Len(Append(frames, x)) = Len(frames) + 1
      BY <1>4
    <3>2. Len(frames') = Len(frames) + 1
      BY <1>4, <3>1
    <3>3. Len(frames) \in Nat /\ DOMAIN frames' = 1 .. Len(frames')
      BY <1>4, <2>1
    <3>4. QED
      BY <3>2, <3>3
  <2>3. QED
    BY <2>1, <2>2
<1>6. Figures'
  BY <1>1, <1>2, <1>4, <1>5, OpenFigures
<1>7. BlocksApart'
  BY <1>1, <1>2 DEF BlocksApart, LargeHeld
<1>8. CountedInv'
  BY <1>1, <1>2, <1>7, CountedStill
<1>9. PhysicalExact'
  BY <1>1, <1>2 DEF PhysicalExact, LargeHeld
<1>10. ArenaInv'
  BY <1>1, <1>2 DEF ArenaInv
<1>11. QED
  BY <1>2, <1>4, <1>6, <1>8, <1>9, <1>10 DEF SlabInv

LEMMA ArenaBumpStep ==
    ASSUME SlabInv, NEW c \in Requests, ArenaBump(c)
    PROVE  SlabInv' /\ PlacedInScope(aBump, c)
<1>1. CountedInv /\ BlocksApart /\ ArenaTape /\ Figures /\ PhysicalExact /\ ArenaInv
  BY DEF SlabInv, CountedInv
<1>2. /\ UNCHANGED <<held, up, counted, slabs, frames, aSlabs, aFree, phys, aMalloced, aNeed>> /\ up
      /\ stats' = [stats EXCEPT !.arena = @ + Bytes(c)]
  BY DEF ArenaBump, ArenaStamp, counted
<1>3. /\ ArenaTape' /\ aBump \in Addr /\ aBump[1] \in Members(aSlabs) /\ c \in ArenaShapes
      /\ StampedInScope(aBump, c) /\ scopes \in Seq(Scope) /\ scopes # <<>>
      /\ Len(frames) = Len(scopes) /\ frames \in Seq(Frame)
      /\ aBump \notin DOMAIN scopes[Len(scopes)]
      /\ \A k \in DOMAIN scopes : \A p \in DOMAIN scopes[k] :
            p[1] = aBump[1] => p[2] + TrueWords(scopes[k][p]) <= aBump[2]
  BY <1>1, BumpTape DEF BlocksApart
<1>4. Figures'
  BY <1>1, <1>2, <1>3, ArenaFigures DEF StampedInScope
<1>5. BlocksApart'
  BY <1>1, <1>2 DEF BlocksApart, LargeHeld
<1>6. CountedInv'
  BY <1>1, <1>2, <1>5, CountedStill
<1>7. PhysicalExact'
  BY <1>1, <1>2 DEF PhysicalExact, LargeHeld
<1>8. ArenaInv'
  BY <1>1, <1>2 DEF ArenaInv
<1>9. FreshAt(aBump, TrueWords(c))
  <2>1. ASSUME NEW q \in DOMAIN held PROVE q[1] # aBump[1]
    BY <1>1, <1>3, HeldIn
  <2>2. QED
    BY <1>3, <2>1 DEF FreshAt, Clear
<1>10. PlacedInScope(aBump, c)
  BY <1>2, <1>3, <1>9 DEF PlacedInScope, StampedInScope
<1>11. QED
  BY <1>3, <1>4, <1>6, <1>7, <1>8, <1>10 DEF SlabInv

LEMMA ArenaGrowStep ==
    ASSUME SlabInv, NEW c \in Requests, ArenaGrow(c)
    PROVE  SlabInv' /\ \E q \in Addr : PlacedInScope(q, c)
<1>1. CountedInv /\ HeldShape /\ BlocksApart /\ ArenaTape /\ Figures /\ PhysicalExact /\ ArenaInv
  BY DEF SlabInv, CountedInv
<1>2. /\ UNCHANGED <<held, up, counted, slabs, frames>> /\ up
      /\ stats' = [stats EXCEPT !.arena = @ + Bytes(c)]
  BY DEF ArenaGrow, ArenaStamp, counted
<1>3. /\ ArenaTape' /\ BlocksApart' /\ c \in ArenaShapes /\ scopes # <<>> /\ scopes \in Seq(Scope)
      /\ Len(frames) = Len(scopes) /\ frames \in Seq(Frame)
      /\ \/ phys' = phys /\ Len(aSlabs') + Len(aFree') = Len(aSlabs) + Len(aFree)
         \/ phys' = phys + SlabBytes /\ Len(aSlabs') + Len(aFree') = Len(aSlabs) + Len(aFree) + 1
  BY <1>1, GrowTape
<1>4. PICK b \in 1 .. MaxBlocks :
         /\ b \notin Members(slabs) /\ \A p \in DOMAIN held : p[1] # b
         /\ StampedInScope(<<b, 1>>, c) /\ <<b, 1>> \in Addr
         /\ <<b, 1>> \notin DOMAIN scopes[Len(scopes)]
         /\ \A k \in DOMAIN scopes : \A p \in DOMAIN scopes[k] : p[1] # b
  BY <1>1, GrowTape
<1> DEFINE q == <<b, 1>>
<1>5. q[1] = b /\ q \in Addr
  BY <1>4
<1> HIDE DEF q
<1>6. Figures'
  BY <1>1, <1>2, <1>3, <1>4, <1>5, ArenaFigures DEF StampedInScope, q
<1>7. /\ CountedInv' /\ LargeHeld' = LargeHeld /\ LargeHeld \subseteq DOMAIN held'
      /\ \A x \in LargeHeld : TrueWords(held'[x]) = TrueWords(held[x])
  BY <1>1, <1>2, <1>3, CountedStill
<1>8. BytesHeld(Large') = BytesHeld(Large)
  BY <1>1, <1>7, LargeStill
<1>9. PhysicalExact'
  <2>1. /\ Len(slabs) \in Nat /\ Len(aSlabs) \in Nat /\ Len(aFree) \in Nat
        /\ Len(aSlabs') \in Nat /\ Len(aFree') \in Nat
    <3>1. /\ slabs \in Seq(1 .. MaxBlocks) /\ aSlabs \in Seq(1 .. MaxBlocks) /\ aFree \in Seq(1 .. MaxBlocks)
          /\ aSlabs' \in Seq(1 .. MaxBlocks) /\ aFree' \in Seq(1 .. MaxBlocks)
      BY <1>1, <1>3 DEF BlocksApart
    <3>2. QED
      BY <3>1, LenType
  <2>2. CASE phys' = phys /\ Len(aSlabs') + Len(aFree') = Len(aSlabs) + Len(aFree)
    <3>1. Slots' = Slots
      BY <1>2, <2>1, <2>2 DEF Slots
    <3>2. QED
      BY <1>1, <1>8, <2>2, <3>1, PhysStill
  <2>3. CASE phys' = phys + SlabBytes /\ Len(aSlabs') + Len(aFree') = Len(aSlabs) + Len(aFree) + 1
    <3>1. Slots' = Slots + 1
      BY <1>2, <2>1, <2>3 DEF Slots
    <3>2. QED
      BY <1>1, <1>8, <2>3, <3>1, PhysSlab
  <2>4. QED
    BY <1>3, <2>2, <2>3
<1>10. ArenaInv'
  BY <1>1, GrowStep
<1>11. FreshAt(q, TrueWords(c))
  BY <1>4, <1>5 DEF FreshAt, Clear
<1>12. PlacedInScope(q, c)
  BY <1>2, <1>3, <1>4, <1>5, <1>11 DEF PlacedInScope, StampedInScope, q
<1>13. QED
  BY <1>3, <1>5, <1>6, <1>7, <1>9, <1>10, <1>12 DEF SlabInv

LEMMA ArenaCloseStep ==
    ASSUME SlabInv, ArenaClose
    PROVE  /\ SlabInv' /\ up /\ scopes # <<>> /\ scopes' = SubSeq(scopes, 1, Len(scopes) - 1)
           /\ UNCHANGED <<held, up>>
<1>1. CountedInv /\ HeldShape /\ BlocksApart /\ ArenaTape /\ Figures /\ PhysicalExact /\ ArenaInv
  BY DEF SlabInv, CountedInv
<1>2. /\ Pop /\ up /\ scopes' = SubSeq(scopes, 1, Len(scopes) - 1)
      /\ UNCHANGED <<held, up, counted, slabs, phys>>
  BY DEF ArenaClose, Pop, counted
<1>3. /\ ArenaTape' /\ BlocksApart' /\ scopes # <<>> /\ scopes \in Seq(Scope)
      /\ Len(frames) = Len(scopes) /\ frames \in Seq(Frame)
      /\ Len(aSlabs') + Len(aFree') = Len(aSlabs) + Len(aFree)
  BY <1>1, CloseTape
<1>4. Figures'
  BY <1>1, <1>2, <1>3, CloseFigures
<1>5. /\ CountedInv' /\ LargeHeld' = LargeHeld /\ LargeHeld \subseteq DOMAIN held'
      /\ \A x \in LargeHeld : TrueWords(held'[x]) = TrueWords(held[x])
  BY <1>1, <1>2, <1>3, CountedStill
<1>6. BytesHeld(Large') = BytesHeld(Large)
  BY <1>1, <1>5, LargeStill
<1>7. Slots' = Slots
  <2>1. /\ Len(slabs) \in Nat /\ Len(aSlabs) \in Nat /\ Len(aFree) \in Nat
        /\ Len(aSlabs') \in Nat /\ Len(aFree') \in Nat
    <3>1. /\ slabs \in Seq(1 .. MaxBlocks) /\ aSlabs \in Seq(1 .. MaxBlocks) /\ aFree \in Seq(1 .. MaxBlocks)
          /\ aSlabs' \in Seq(1 .. MaxBlocks) /\ aFree' \in Seq(1 .. MaxBlocks)
      BY <1>1, <1>3 DEF BlocksApart
    <3>2. QED
      BY <3>1, LenType
  <2>2. Len(slabs') = Len(slabs)
    BY <1>2
  <2>3. Len(aSlabs') + Len(aFree') = Len(aSlabs) + Len(aFree)
    BY <1>3
  <2>4. Slots' = Len(slabs') + Len(aSlabs') + Len(aFree')
    BY DEF Slots
  <2>5. QED
    BY <2>1, <2>2, <2>3, <2>4 DEF Slots
<1>8. PhysicalExact'
  BY <1>1, <1>2, <1>6, <1>7, PhysStill
<1>9. ArenaInv'
  BY <1>1, CloseStep
<1>10. QED
  BY <1>2, <1>3, <1>4, <1>5, <1>8, <1>9 DEF SlabInv

LEMMA TearDownStep ==
    ASSUME SlabInv, HeapFree
    PROVE  /\ SlabInv' /\ up /\ up' = FALSE /\ held' = Restrict(held, LargeHeld)
           /\ scopes' = <<>> /\ stats' = stats
<1>1. CountedInv /\ ArenaTape /\ Figures /\ PhysicalExact /\ ArenaInv
  BY DEF SlabInv, CountedInv
<1>2. /\ up /\ up' = FALSE /\ held' = Restrict(held, LargeHeld) /\ scopes' = <<>> /\ stats' = stats
      /\ frames' = <<>> /\ aSlabs' = <<>> /\ aBump' = Null /\ aFree' = <<>>
      /\ aMalloced' = aMalloced /\ aNeed' = aNeed
  BY DEF HeapFree
<1>3. CountedInv'
  BY <1>1, TornDown
<1>4. PhysicalExact'
  BY <1>1, PhysTornDown
<1>5. Figures'
  BY <1>1, <1>2 DEF Figures
<1>6. ArenaInv'
  <2>1. <<>> \in Seq(1 .. MaxBlocks)
    OBVIOUS
  <2>2. aMalloced \in Nat /\ aNeed = aMalloced
    BY <1>1 DEF ArenaInv
  <2>3. QED
    BY <1>2, <2>1, <2>2, Zenon DEF ArenaInv
<1>7. ArenaTape'
  <2>1. Ranks([b \in 0 .. MaxBlocks |-> 0], <<>>)
    BY SlabAssumption DEF Ranks, SlabAssumption
  <2>2. \A R : FramesOn(R, <<>>, <<>>) /\ CellsOn(R, <<>>, <<>>, <<>>, Null)
    BY DEF FramesOn, CellsOn
  <2>3. Frontier(Null, <<>>) /\ Null[1] = 0
    BY SlabAssumption, CellAssumption DEF Frontier, Null, SlabAssumption, CellAssumption
  <2>4. Tape(<<>>, <<>>, <<>>, Null)
    BY <2>1, <2>2, <2>3, SlabAssumption DEF Tape, SlabAssumption
  <2>5. QED
    BY <1>2, <2>4 DEF ArenaTape
<1>8. QED
  BY <1>2, <1>3, <1>4, <1>5, <1>6, <1>7 DEF SlabInv

LEMMA SlabInit == Init => SlabInv
<1> SUFFICES ASSUME Init PROVE SlabInv
  OBVIOUS
<1>0. /\ NumClasses \in Nat /\ SlabWords \in Nat \ {0}
  BY CellAssumption DEF CellAssumption
<1>1. /\ held = <<>> /\ scopes = <<>> /\ up = TRUE /\ stats = [live |-> 0, bytes |-> 0, arena |-> 0]
      /\ slabs = <<>> /\ bump = Null /\ freelist = [c \in 0 .. NumClasses - 1 |-> <<>>]
      /\ frames = <<>> /\ aSlabs = <<>> /\ aBump = Null /\ aFree = <<>>
      /\ phys = 0
  BY DEF Init
<1>2. DOMAIN held = {} /\ LargeHeld = {}
  BY <1>1 DEF LargeHeld
<1>3. HeldShape
  BY <1>2, FS_EmptySet DEF HeldShape
<1>4. FreeApart
  <2>1. <<>> \in Seq(Addr) /\ DOMAIN <<>> = {}
    OBVIOUS
  <2>2. freelist \in [0 .. NumClasses - 1 -> Seq(Addr)] /\ \A d \in DOMAIN freelist : DOMAIN freelist[d] = {}
    BY <1>1, <2>1
  <2>3. QED
    BY <2>2 DEF FreeApart
<1>5. BlocksApart
  <2>1. Members(<<>>) = {} /\ NoRepeat(<<>>) /\ <<>> \in Seq(1 .. MaxBlocks)
    BY DEF Members, NoRepeat
  <2>2. QED
    BY <1>1, <1>2, <2>1 DEF BlocksApart
<1>6. Filled(Laid, slabs, bump)
  <2>1. Laid = {}
    <3>1. ASSUME NEW q \in Addr, NEW v \in 1 .. NumClasses PROVE ~LiesIn(held, freelist, q, v)
      <4>1. v - 1 \in 0 .. NumClasses - 1
        BY <1>0
      <4>2. freelist[v - 1] = <<>>
        BY <1>1, <4>1
      <4>3. QED
        BY <1>2, <4>2 DEF LiesIn
    <3>2. QED
      BY <3>1 DEF Laid
  <2>2. Members(<<>>) = {} /\ <<>> \in [{} -> 1 .. SlabWords]
    BY DEF Members
  <2>3. FullTo({}, <<>>, Null, <<>>)
    BY <2>2 DEF FullTo
  <2>4. QED
    BY <1>1, <2>1, <2>3 DEF Filled
<1>7. ArenaTape
  <2>1. Ranks([b \in 0 .. MaxBlocks |-> 0], <<>>)
    BY SlabAssumption DEF Ranks, SlabAssumption
  <2>2. \A R : FramesOn(R, <<>>, <<>>) /\ CellsOn(R, <<>>, <<>>, <<>>, Null)
    BY DEF FramesOn, CellsOn
  <2>3. Frontier(Null, <<>>) /\ Null[1] = 0
    BY <1>0, SlabAssumption DEF Frontier, Null, SlabAssumption
  <2>4. Tape(<<>>, <<>>, <<>>, Null)
    BY <2>1, <2>2, <2>3, SlabAssumption DEF Tape, SlabAssumption
  <2>5. QED
    BY <1>1, <2>4 DEF ArenaTape
<1>8. Figures
  <2>1. BytesHeld(held) = 0 /\ Cardinality(DOMAIN held) = 0
    BY <1>1, <1>2, NothingWeighs, FS_EmptySet
  <2>2. ArenaSum(<<>>) = 0
    <3>1. DOMAIN [i \in DOMAIN <<>> |-> BytesHeld(<<>>[i])] = {}
      OBVIOUS
    <3>2. QED
      BY <3>1, SumEmpty DEF ArenaSum
  <2>3. QED
    BY <1>1, <2>1, <2>2 DEF Figures, FiguresOf
<1>9. PhysicalExact
  <2>1. DOMAIN Large = {}
    BY <1>2 DEF Large, Restrict
  <2>2. DOMAIN [p \in DOMAIN Large |-> Word * TrueWords(Large[p])] = {}
    BY <2>1
  <2>3. BytesHeld(Large) = 0
    BY <2>2, SumEmpty DEF BytesHeld
  <2>4. Slots = 0 /\ SlabBytes * 0 = 0
    BY <1>1, OneMore DEF Slots
  <2>5. phys = SlabBytes * Slots + BytesHeld(Large)
    BY <1>1, <2>3, <2>4
  <2>6. QED
    BY <2>5 DEF PhysicalExact, Slots, Large
<1>10. QED
  BY <1>3, <1>4, <1>5, <1>6, <1>7, <1>8, <1>9, ArenaInit DEF SlabInv, CountedInv

LEMMA SlabStep == SlabInv /\ [Next]_vars => SlabInv'
<1> SUFFICES ASSUME SlabInv, [Next]_vars PROVE SlabInv'
  OBVIOUS
<1>1. ASSUME NEW c \in Requests,
             \/ AllocReuse(c) \/ AllocBump(c) \/ AllocGrow(c) \/ AllocLarge(c)
             \/ ArenaBump(c) \/ ArenaGrow(c)
             \/ \E p \in DOMAIN held : AllocAt(p, c)
      PROVE  SlabInv'
  BY <1>1, ReuseStep, BumpStep, NewSlabStep, LargeStep, ArenaBumpStep, ArenaGrowStep, ShellStep
<1>2. ASSUME NEW p \in DOMAIN held, Dup(p) \/ Dec(p) \/ Free(p) PROVE SlabInv'
  BY <1>2, CountsStep, FreeStep
<1>3. CASE ArenaOpen \/ ArenaClose \/ HeapFree
  BY <1>3, OpenStep, ArenaCloseStep, TearDownStep
<1>4. CASE UNCHANGED vars
  <2>1. CountedInv'
    BY <1>4 DEF vars, SlabInv, CountedInv, HeldShape, FreeApart, BlocksApart, LargeHeld, Laid
  <2>2. ArenaTape'
    BY <1>4 DEF vars, SlabInv, ArenaTape
  <2>3. Figures' /\ PhysicalExact' /\ ArenaInv'
    BY <1>4 DEF vars, SlabInv, Figures, FiguresOf, PhysicalExact, LargeHeld, ArenaInv
  <2>4. QED
    BY <2>1, <2>2, <2>3 DEF SlabInv
<1>5. QED
  BY <1>1, <1>2, <1>3, <1>4 DEF Next

-----------------------------------------------------------------------------
(* What the invariant says of the words of a slab.                          *)

LEMMA ExtentsApart ==
    ASSUME NEW p \in Addr, NEW w \in Nat, NEW q \in Addr, NEW v \in Nat, Clear(p, w, q, v)
    PROVE  Extent(p, w) \cap Extent(q, v) = {}
<1>1. p[2] \in Nat /\ q[2] \in Nat
  BY DEF Addr
<1>2. ASSUME NEW x \in Extent(p, w), x \in Extent(q, v) PROVE FALSE
  <2>1. PICK o \in p[2] .. p[2] + w - 1 : x = <<p[1], o>>
    BY DEF Extent
  <2>2. PICK r \in q[2] .. q[2] + v - 1 : x = <<q[1], r>>
    BY <1>2 DEF Extent
  <2>3. p[1] = q[1] /\ o = r
    BY <2>1, <2>2
  <2>4. QED
    BY <1>1, <2>3 DEF Clear
<1>3. QED
  BY <1>2

LEMMA LaidApart ==
    ASSUME CountedInv, NEW l \in Laid, NEW m \in Laid, l # m
    PROVE  Clear(l[1], l[2], m[1], m[2])
<1>1. PICK fill : FullTo(Laid, slabs, bump, fill)
  BY DEF CountedInv, Filled
<1>2. l[1][1] = m[1][1] => EndsBy(l, m[1][2]) \/ EndsBy(m, l[1][2])
  BY <1>1 DEF FullTo
<1>3. QED
  BY <1>2 DEF EndsBy, Clear

\* A dead cell is as long as the class of its list says.
LEMMA DeadIs ==
    ASSUME CountedInv
    PROVE  /\ \A p \in DOMAIN Dead :
                 /\ p \in Addr /\ p \notin DOMAIN held
                 /\ TrueWords(Dead[p]) \in 1 .. NumClasses /\ <<p, TrueWords(Dead[p])>> \in Laid
           /\ \A c \in DOMAIN freelist : \A i \in DOMAIN freelist[c] :
                 /\ freelist[c][i] \in DOMAIN Dead /\ TrueWords(Dead[freelist[c][i]]) = c + 1
<1>1. /\ DOMAIN Dead = UNION {Members(freelist[c]) : c \in DOMAIN freelist}
      /\ \A p \in DOMAIN Dead :
            Dead[p] = [kind |-> "con", n |-> CHOOSE c \in DOMAIN freelist : p \in Members(freelist[c])]
  BY DEF Dead
<1>2. ASSUME NEW p \in DOMAIN Dead
      PROVE  \E c \in DOMAIN freelist : \E i \in DOMAIN freelist[c] :
                p = freelist[c][i] /\ TrueWords(Dead[p]) = 1 + c
  <2>1. \E c \in DOMAIN freelist : p \in Members(freelist[c])
    BY <1>1
  <2> DEFINE k == CHOOSE c \in DOMAIN freelist : p \in Members(freelist[c])
  <2>2. k \in DOMAIN freelist /\ p \in Members(freelist[k])
    BY <2>1
  <2>3. Dead[p] = [kind |-> "con", n |-> k]
    BY <1>1
  <2> HIDE DEF k
  <2>4. TrueWords(Dead[p]) = 1 + k
    BY <2>3 DEF TrueWords, ByteBlocks
  <2>5. PICK i \in DOMAIN freelist[k] : p = freelist[k][i]
    BY <2>2 DEF Members
  <2>6. QED
    BY <2>2, <2>4, <2>5
<1>3. /\ HeldShape /\ FreeApart /\ DOMAIN freelist = 0 .. NumClasses - 1 /\ NumClasses \in Nat
      /\ \A c, d \in DOMAIN freelist : \A i \in DOMAIN freelist[c], j \in DOMAIN freelist[d] :
            freelist[c][i] = freelist[d][j] => c = d /\ i = j
      /\ \A c \in DOMAIN freelist : \A i \in DOMAIN freelist[c] : freelist[c][i] \notin DOMAIN held
  BY CellAssumption DEF CountedInv, FreeApart, CellAssumption
<1>4. \A c \in DOMAIN freelist : \A i \in DOMAIN freelist[c] :
         freelist[c][i] \in Addr /\ c + 1 \in 1 .. NumClasses /\ <<freelist[c][i], c + 1>> \in Laid
  BY <1>3, AllLaid
<1>5. \A c \in DOMAIN freelist : 1 + c = c + 1
  BY <1>3
<1>6. ASSUME NEW c \in DOMAIN freelist, NEW i \in DOMAIN freelist[c]
      PROVE  freelist[c][i] \in DOMAIN Dead /\ TrueWords(Dead[freelist[c][i]]) = c + 1
  <2>1. freelist[c][i] \in DOMAIN Dead
    BY <1>1 DEF Members
  <2>2. PICK d \in DOMAIN freelist : \E j \in DOMAIN freelist[d] :
           freelist[c][i] = freelist[d][j] /\ TrueWords(Dead[freelist[c][i]]) = 1 + d
    BY <1>2, <2>1
  <2>3. c = d
    BY <1>3, <2>2
  <2>4. QED
    BY <1>5, <2>1, <2>2, <2>3
<1>7. ASSUME NEW p \in DOMAIN Dead
      PROVE  /\ p \in Addr /\ p \notin DOMAIN held
             /\ TrueWords(Dead[p]) \in 1 .. NumClasses /\ <<p, TrueWords(Dead[p])>> \in Laid
  <2>1. PICK c \in DOMAIN freelist : \E i \in DOMAIN freelist[c] :
           p = freelist[c][i] /\ TrueWords(Dead[p]) = 1 + c
    BY <1>2
  <2>2. QED
    BY <1>3, <1>4, <1>5, <2>1
<1>8. QED
  BY <1>6, <1>7

\* A word is used if and only if a carved cell covers it.
LEMMA UsedIs ==
    ASSUME CountedInv, NEW b \in 1 .. MaxBlocks, NEW o \in Nat
    PROVE  <<b, o>> \in Used(b) <=> \E l \in Laid : Covers(l, b, o)
<1>0. HeldShape /\ FreeApart /\ NumClasses \in Nat
  BY CellAssumption DEF CountedInv, CellAssumption
<1>1. \A p \in Addr : p[1] \in 1 .. MaxBlocks /\ p[2] \in Nat
  BY DEF Addr
<1>2. \A p \in Addr : \A w \in Nat :
         <<b, o>> \in Extent(p, w) <=> p[1] = b /\ p[2] <= o /\ o < p[2] + w
  BY <1>1 DEF Extent
<1>3. DOMAIN SmallHeld = {p \in DOMAIN held : ~IsLarge(held[p])}
      /\ \A p \in DOMAIN SmallHeld : SmallHeld[p] = held[p]
  BY DEF SmallHeld, LargeHeld, Restrict
<1>4. \A p \in DOMAIN SmallHeld : p \in Addr /\ TrueWords(SmallHeld[p]) \in Nat
                                  /\ <<p, TrueWords(SmallHeld[p])>> \in Laid
  <2>1. ASSUME NEW p \in DOMAIN SmallHeld
        PROVE  p \in Addr /\ TrueWords(SmallHeld[p]) \in Nat /\ <<p, TrueWords(SmallHeld[p])>> \in Laid
    <3>1. p \in DOMAIN held /\ ~IsLarge(held[p]) /\ SmallHeld[p] = held[p]
      BY <1>3
    <3>2. p \in Addr
      BY <1>0, <3>1 DEF HeldShape
    <3>3. QED
      BY <1>0, <3>1, <3>2, AllLaid, HeldBulk
  <2>2. QED
    BY <2>1
<1>5. \A p \in DOMAIN Dead : p \in Addr /\ TrueWords(Dead[p]) \in Nat /\ <<p, TrueWords(Dead[p])>> \in Laid
  BY <1>0, DeadIs
<1>6. <<b, o>> \in Used(b) <=>
         \/ \E p \in DOMAIN SmallHeld : <<b, o>> \in Extent(p, TrueWords(SmallHeld[p]))
         \/ \E p \in DOMAIN Dead : <<b, o>> \in Extent(p, TrueWords(Dead[p]))
  BY DEF Used, Covered
<1>7. ASSUME <<b, o>> \in Used(b) PROVE \E l \in Laid : Covers(l, b, o)
  <2>1. CASE \E p \in DOMAIN SmallHeld : <<b, o>> \in Extent(p, TrueWords(SmallHeld[p]))
    <3>1. PICK p \in DOMAIN SmallHeld : <<b, o>> \in Extent(p, TrueWords(SmallHeld[p]))
      BY <2>1
    <3>2. p[1] = b /\ p[2] <= o /\ o < p[2] + TrueWords(SmallHeld[p])
      BY <1>2, <1>4, <3>1
    <3>3. Covers(<<p, TrueWords(SmallHeld[p])>>, b, o)
      BY <3>2 DEF Covers
    <3>4. QED
      BY <1>4, <3>3
  <2>2. CASE \E p \in DOMAIN Dead : <<b, o>> \in Extent(p, TrueWords(Dead[p]))
    <3>1. PICK p \in DOMAIN Dead : <<b, o>> \in Extent(p, TrueWords(Dead[p]))
      BY <2>2
    <3>2. p[1] = b /\ p[2] <= o /\ o < p[2] + TrueWords(Dead[p])
      BY <1>2, <1>5, <3>1
    <3>3. Covers(<<p, TrueWords(Dead[p])>>, b, o)
      BY <3>2 DEF Covers
    <3>4. QED
      BY <1>5, <3>3
  <2>3. QED
    BY <1>6, <1>7, <2>1, <2>2
<1>8. ASSUME NEW l \in Laid, Covers(l, b, o) PROVE <<b, o>> \in Used(b)
  <2>1. l[1] \in Addr /\ l[2] \in 1 .. NumClasses /\ LiesIn(held, freelist, l[1], l[2])
    BY DEF Laid
  <2>2. l[2] \in Nat /\ <<b, o>> \in Extent(l[1], l[2])
    BY <1>2, <1>8, <2>1 DEF Covers
  <2>3. CASE l[1] \in DOMAIN held /\ ~IsLarge(held[l[1]]) /\ l[2] = Class(held[l[1]]) + 1
    <3>1. TrueWords(held[l[1]]) = Class(held[l[1]]) + 1
      BY <1>0, <2>3, AllLaid
    <3>2. l[1] \in DOMAIN SmallHeld /\ l[2] = TrueWords(SmallHeld[l[1]])
      BY <1>3, <2>3, <3>1
    <3>3. QED
      BY <1>6, <2>2, <3>2
  <2>4. CASE \E i \in DOMAIN freelist[l[2] - 1] : freelist[l[2] - 1][i] = l[1]
    <3>1. l[2] - 1 \in DOMAIN freelist /\ (l[2] - 1) + 1 = l[2]
      BY <1>0, <2>1 DEF FreeApart
    <3>2. l[1] \in DOMAIN Dead /\ TrueWords(Dead[l[1]]) = l[2]
      BY <2>4, <3>1, DeadIs
    <3>3. QED
      BY <1>6, <2>2, <3>2
  <2>5. QED
    BY <2>1, <2>3, <2>4 DEF LiesIn
<1>9. QED
  BY <1>7, <1>8

LEMMA TypesHold == SlabInv => TypeOK
<1> SUFFICES ASSUME SlabInv PROVE TypeOK
  OBVIOUS
<1> USE CellAssumption, SlabAssumption DEF CellAssumption, SlabAssumption
<1>1. CountedInv /\ HeldShape /\ FreeApart /\ BlocksApart /\ ArenaTape /\ Figures /\ PhysicalExact /\ ArenaInv
  BY DEF SlabInv, CountedInv
<1>2. \A p \in DOMAIN held :
          /\ p \in Addr
          /\ [kind |-> held[p].kind, n |-> held[p].n] \in Cell
          /\ held[p].rc \in 0 .. MaxRc
  BY <1>1 DEF HeldShape, HeldCell, Cell
<1>3. \A i \in DOMAIN scopes : \A p \in DOMAIN scopes[i] : p \in Addr /\ scopes[i][p] \in Cell
  <2>1. \A i \in DOMAIN scopes : scopes[i] \in Scope
    BY <1>1, ArenaCells
  <2>2. ArenaShapes \subseteq Cell
    BY DEF ArenaShapes
  <2>3. QED
    BY <2>1, <2>2, ScopeIs
<1>4. stats \in [live : Nat, bytes : Nat, arena : Nat]
  BY <1>1 DEF Figures
<1>5. \A s \in {slabs, aSlabs, aFree} : s \in Seq(1 .. MaxBlocks) /\ Members(s) \subseteq 1 .. MaxBlocks
  BY <1>1 DEF BlocksApart, Members
<1>6. bump \in (0 .. MaxBlocks) \X (0 .. SlabWords)
  <2>1. PICK fill : FullTo(Laid, slabs, bump, fill)
    BY <1>1 DEF CountedInv, Filled
  <2>2. CASE slabs = <<>>
    BY <2>1, <2>2 DEF FullTo, Null
  <2>3. CASE slabs # <<>>
    <3>1. 1 \in DOMAIN slabs /\ slabs[1] \in 1 .. MaxBlocks
      BY <1>5, <2>3, FrontIn
    <3>2. slabs[1] \in Members(slabs)
      BY <3>1 DEF Members
    <3>3. bump = <<slabs[1], fill[slabs[1]]>> /\ fill[slabs[1]] \in 1 .. SlabWords
      BY <2>1, <2>3, <3>2 DEF FullTo
    <3>4. QED
      BY <3>1, <3>3
  <2>4. QED
    BY <2>2, <2>3
<1>7. aBump \in (0 .. MaxBlocks) \X (0 .. SlabWords)
  <2>1. aBump \in (0 .. MaxBlocks) \X (1 .. SlabWords)
    BY <1>1 DEF ArenaTape, Tape, Frontier
  <2>2. QED
    BY <2>1
<1>8. DOMAIN freelist = 0 .. NumClasses - 1 /\ \A c \in DOMAIN freelist : Members(freelist[c]) \subseteq Addr
  BY <1>1 DEF FreeApart, Members
<1>9. Len(frames) <= MaxDepth /\ Len(frames) = Len(scopes)
  BY <1>1 DEF ArenaTape, Tape
<1>10. phys \in Nat
  <2>1. Slots \in Nat /\ Bulk(Large)
    BY <1>1, SlotsType, HeldBulk
  <2>2. DOMAIN Large \ {<<>>} = DOMAIN Large \ {<<>>} /\ \A y \in DOMAIN Large \ {<<>>} : Large[y] = Large[y]
    OBVIOUS
  <2>3. BytesHeld(Large) \in Nat
    BY <2>1, <2>2, BytesOther
  <2>4. SlabBytes \in Nat
    BY DEF SlabBytes, Word
  <2>5. phys = SlabBytes * Slots + BytesHeld(Large)
    BY <1>1 DEF PhysicalExact, Slots, Large
  <2>6. QED
    BY <2>1, <2>3, <2>4, <2>5
<1>11. up \in BOOLEAN /\ aMalloced \in Nat /\ aNeed \in Nat
  BY <1>1 DEF ArenaInv
<1>12. QED
  BY <1>2, <1>3, <1>4, <1>5, <1>6, <1>7, <1>8, <1>9, <1>10, <1>11 DEF TypeOK

LEMMA DeadHold == SlabInv => DeadCellsApart
<1> SUFFICES ASSUME SlabInv PROVE DeadCellsApart
  OBVIOUS
<1>1. CountedInv /\ HeldShape /\ FreeApart
  BY DEF SlabInv, CountedInv
<1>2. NumClasses \in Nat /\ SlabWords \in Nat
  BY CellAssumption DEF CellAssumption
<1>3. \A p \in DOMAIN Dead : /\ p \in Addr /\ p \notin DOMAIN held
                             /\ TrueWords(Dead[p]) \in Nat /\ <<p, TrueWords(Dead[p])>> \in Laid
  BY <1>1, <1>2, DeadIs
<1>4. PICK fill : FullTo(Laid, slabs, bump, fill)
  BY <1>1 DEF CountedInv, Filled
<1>5. \A p \in DOMAIN Dead : /\ p[1] \in Members(slabs) /\ p[2] >= 1 /\ p[2] \in Nat
                             /\ p[2] + TrueWords(Dead[p]) <= fill[p[1]] /\ fill[p[1]] \in 1 .. SlabWords
  <2>1. ASSUME NEW p \in DOMAIN Dead
        PROVE  /\ p[1] \in Members(slabs) /\ p[2] >= 1 /\ p[2] \in Nat
               /\ p[2] + TrueWords(Dead[p]) <= fill[p[1]] /\ fill[p[1]] \in 1 .. SlabWords
    <3>1. <<p, TrueWords(Dead[p])>> \in Laid /\ p \in Addr
      BY <1>3
    <3>2. p[1] \in Members(slabs) /\ p[2] >= 1 /\ EndsBy(<<p, TrueWords(Dead[p])>>, fill[p[1]])
      BY <1>4, <3>1 DEF FullTo
    <3>3. fill[p[1]] \in 1 .. SlabWords
      BY <1>4, <3>2 DEF FullTo
    <3>4. QED
      BY <3>1, <3>2, <3>3 DEF EndsBy, Addr
  <2>2. QED
    BY <2>1
<1>6. ASSUME NEW p \in DOMAIN Dead, NEW q \in DOMAIN Dead, p # q
      PROVE  Extent(p, TrueWords(Dead[p])) \cap Extent(q, TrueWords(Dead[q])) = {}
  <2> DEFINE l == <<p, TrueWords(Dead[p])>>  m == <<q, TrueWords(Dead[q])>>
  <2>1. l \in Laid /\ m \in Laid /\ l # m /\ l[1] = p /\ l[2] = TrueWords(Dead[p])
        /\ m[1] = q /\ m[2] = TrueWords(Dead[q])
    BY <1>3, <1>6
  <2> HIDE DEF l, m
  <2>2. Clear(l[1], l[2], m[1], m[2])
    BY <1>1, <2>1, LaidApart
  <2>3. Clear(p, TrueWords(Dead[p]), q, TrueWords(Dead[q]))
    BY <2>1, <2>2
  <2>4. QED
    BY <1>3, <2>3, ExtentsApart
<1>7. ASSUME NEW p \in DOMAIN Dead, NEW q \in DOMAIN held
      PROVE  Extent(p, TrueWords(Dead[p])) \cap Extent(q, TrueWords(held[q])) = {}
  <2>1. q \in Addr /\ TrueWords(held[q]) \in Nat
    BY <1>1, HeldBulk DEF HeldShape
  <2>2. Clear(p, TrueWords(Dead[p]), q, TrueWords(held[q]))
    <3>1. CASE IsLarge(held[q])
      BY <1>1, <1>5, <3>1, HeldIn DEF Clear
    <3>2. CASE ~IsLarge(held[q])
      <4> DEFINE l == <<p, TrueWords(Dead[p])>>  m == <<q, TrueWords(held[q])>>
      <4>1. m \in Laid
        BY <1>1, <3>2, AllLaid
      <4>2. l \in Laid /\ l # m /\ l[1] = p /\ l[2] = TrueWords(Dead[p])
            /\ m[1] = q /\ m[2] = TrueWords(held[q])
        BY <1>3
      <4> HIDE DEF l, m
      <4>3. Clear(l[1], l[2], m[1], m[2])
        BY <1>1, <4>1, <4>2, LaidApart
      <4>4. QED
        BY <4>2, <4>3
    <3>3. QED
      BY <3>1, <3>2
  <2>3. QED
    BY <1>3, <2>1, <2>2, ExtentsApart
<1>8. Covered(Dead) \cap Covered(held) = {}
  <2>1. ASSUME NEW x \in Covered(Dead), x \in Covered(held) PROVE FALSE
    <3>1. PICK p \in DOMAIN Dead : x \in Extent(p, TrueWords(Dead[p]))
      BY DEF Covered
    <3>2. PICK q \in DOMAIN held : x \in Extent(q, TrueWords(held[q]))
      BY <2>1 DEF Covered
    <3>3. QED
      BY <1>7, <3>1, <3>2
  <2>2. QED
    BY <2>1
<1>9. ASSUME NEW x \in Covered(Dead) PROVE x[1] \in Members(slabs) /\ x[2] \in 1 .. SlabWords - 1
  <2>1. PICK p \in DOMAIN Dead : x \in Extent(p, TrueWords(Dead[p]))
    BY DEF Covered
  <2>2. PICK o \in p[2] .. p[2] + TrueWords(Dead[p]) - 1 : x = <<p[1], o>>
    BY <2>1 DEF Extent
  <2>3. x[1] = p[1] /\ x[2] = o
    BY <2>2
  <2>4. /\ p[2] >= 1 /\ p[2] \in Nat /\ TrueWords(Dead[p]) \in Nat /\ p[1] \in Members(slabs)
        /\ p[2] + TrueWords(Dead[p]) <= fill[p[1]] /\ fill[p[1]] \in 1 .. SlabWords
    BY <1>3, <1>5
  <2>5. o \in 1 .. SlabWords - 1
    BY <1>2, <2>4
  <2>6. QED
    BY <2>3, <2>4, <2>5
<1>10. \A c, d \in DOMAIN freelist : \A i \in DOMAIN freelist[c], j \in DOMAIN freelist[d] :
          freelist[c][i] = freelist[d][j] => c = d /\ i = j
  BY <1>1 DEF FreeApart
<1>11. QED
  BY <1>6, <1>8, <1>9, <1>10 DEF DeadCellsApart

LEMMA MemberIs == ASSUME NEW S, NEW s \in Seq(S), NEW i \in DOMAIN s PROVE s[i] \in S
  OBVIOUS

LEMMA WordsHold == SlabInv => NoWordLost
<1> SUFFICES ASSUME SlabInv, NEW i \in DOMAIN slabs
             PROVE  LET last == IF i = 1 THEN bump[2] - 1 ELSE SlabWords - 1
                        cut  == {o \in 1 .. last : <<slabs[i], o>> \notin Used(slabs[i])}
                    IN  /\ \A o \in cut : o .. last \subseteq cut
                        /\ i = 1 => cut = {}
                        /\ Cardinality(cut) < NumClasses
  BY DEF NoWordLost
<1> DEFINE b == slabs[i]
           last == IF i = 1 THEN bump[2] - 1 ELSE SlabWords - 1
           cut  == {o \in 1 .. last : <<b, o>> \notin Used(b)}
<1>1. CountedInv /\ BlocksApart
  BY DEF SlabInv, CountedInv
<1>2. NumClasses \in Nat /\ NumClasses >= 4 /\ SlabWords \in Nat
  BY CellAssumption DEF CellAssumption
<1>3. PICK fill : FullTo(Laid, slabs, bump, fill)
  BY <1>1 DEF CountedInv, Filled
<1>4. b \in 1 .. MaxBlocks /\ b \in Members(slabs)
  <2>1. slabs \in Seq(1 .. MaxBlocks)
    BY <1>1 DEF BlocksApart
  <2>2. slabs[i] \in 1 .. MaxBlocks
    BY <2>1, MemberIs
  <2>3. slabs[i] \in Members(slabs)
    BY DEF Members
  <2>4. QED
    BY <2>2, <2>3
<1>5. fill[b] \in 1 .. SlabWords
  BY <1>3, <1>4 DEF FullTo
<1>6. i = 1 => bump[2] = fill[b]
  BY <1>3 DEF FullTo
<1>7. i # 1 => SlabWords - fill[b] < NumClasses
  BY <1>3 DEF FullTo
<1>8. last \in Nat /\ fill[b] - 1 <= last /\ last \in Int
  BY <1>2, <1>5, <1>6
<1> HIDE DEF b
<1>9. \A l \in Laid : l[1][1] = b => EndsBy(l, fill[b])
  BY <1>3 DEF FullTo
<1>10. \A o \in 1 .. fill[b] - 1 : \E l \in Laid : Covers(l, b, o)
  BY <1>3, <1>4 DEF FullTo
<1>11. ASSUME NEW o \in Nat, o >= 1 PROVE <<b, o>> \in Used(b) <=> o < fill[b]
  <2>1. <<b, o>> \in Used(b) <=> \E l \in Laid : Covers(l, b, o)
    BY <1>1, <1>4, UsedIs
  <2>2. ASSUME NEW l \in Laid, Covers(l, b, o) PROVE o < fill[b]
    <3>1. l[1][1] = b /\ o < l[1][2] + l[2] /\ l[1][2] \in Nat /\ l[2] \in Nat
      BY <1>2, <2>2 DEF Covers, Laid, Addr
    <3>2. l[1][2] + l[2] <= fill[b]
      BY <1>9, <3>1 DEF EndsBy
    <3>3. QED
      BY <1>5, <3>1, <3>2
  <2>3. ASSUME o < fill[b] PROVE \E l \in Laid : Covers(l, b, o)
    BY <1>5, <1>10, <1>11, <2>3
  <2>4. QED
    BY <2>1, <2>2, <2>3
<1>12. cut = fill[b] .. last
  <2>1. ASSUME NEW o \in cut PROVE o \in fill[b] .. last
    <3>1. o \in 1 .. last /\ <<b, o>> \notin Used(b)
      OBVIOUS
    <3>2. QED
      BY <1>5, <1>8, <1>11, <3>1
  <2>2. ASSUME NEW o \in fill[b] .. last PROVE o \in cut
    <3>1. o \in 1 .. last /\ o \in Nat /\ o >= 1 /\ ~(o < fill[b])
      BY <1>5, <1>8
    <3>2. QED
      BY <1>11, <3>1
  <2>3. QED
    BY <2>1, <2>2
<1>13. i = 1 => cut = {}
  <2>1. i = 1 => last < fill[b]
    BY <1>5, <1>6
  <2>2. QED
    BY <1>5, <1>8, <1>12, <2>1
<1>14. Cardinality(cut) < NumClasses
  <2>0. fill[b] \in Int
    BY <1>5
  <2>1. Cardinality(cut) = IF fill[b] > last THEN 0 ELSE last - fill[b] + 1
    BY <1>8, <1>12, <2>0, FS_Interval
  <2>2. CASE i = 1
    <3>1. Cardinality(cut) = 0
      BY <1>13, <2>2, FS_EmptySet
    <3>2. QED
      BY <1>2, <3>1
  <2>3. CASE i # 1
    <3>1. last = SlabWords - 1 /\ SlabWords - fill[b] < NumClasses
      BY <1>7, <2>3
    <3>2. QED
      BY <1>2, <1>5, <2>1, <3>1
  <2>4. QED
    BY <2>2, <2>3
<1>15. \A o \in cut : o .. last \subseteq cut
  BY <1>5, <1>8, <1>12
<1>16. QED
  BY <1>13, <1>14, <1>15 DEF b

\* The whole allocator, for every shape, every size of slab and every bound:
\* dead cells lie apart from live ones, whole inside counted slabs, each on
\* one list once; and no word carved is lost (wok_rc.c 596-598, 683-694,
\* 786-788).
THEOREM StorageKept == Spec => [](TypeOK /\ DeadCellsApart /\ NoWordLost)
<1>1. SlabInv => TypeOK /\ DeadCellsApart /\ NoWordLost
  BY TypesHold, DeadHold, WordsHold
<1>2. QED
  BY <1>1, SlabInit, SlabStep, PTL DEF Spec

\* The physical figure is the slabs plus the large cells, always.
THEOREM PhysicalKept == Spec => []PhysicalExact
<1>1. SlabInv => PhysicalExact
  BY DEF SlabInv
<1>2. QED
  BY <1>1, SlabInit, SlabStep, PTL DEF Spec
=============================================================================
