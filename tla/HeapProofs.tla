----------------------------- MODULE HeapProofs -----------------------------
(***************************************************************************)
(* The runtime heap implements its promises, whichever backend was built.   *)
(* The slab backend's invariant is SlabInv (WokSlabProofs); the malloc      *)
(* backend's is MallocInv, below: every block malloc has out is one counted *)
(* cell or one entry of one chain.  Each concrete step, read through the    *)
(* refinement mapping of MCWokHeap, is a step of WokHeap.                   *)
(***************************************************************************)
EXTENDS MCWokHeap, WokSlabProofs

-----------------------------------------------------------------------------
(* The abstract heap reads the cells, the figures and the life of the heap   *)
(* as they are, and the scopes of the backend that was built.                *)

ChainScopes(ch) == [i \in DOMAIN ch |-> M!ChainCells(ch[i])]
Scopes == IF backend = "slab" THEN scopes ELSE ChainScopes(chains)

\* An instance names its own copies of the operators of WokCells.
LEMMA SameSums ==
    ASSUME NEW f
    PROVE  /\ H!SumFunction(f) = SumFunction(f) /\ M!SumFunction(f) = SumFunction(f)
           /\ H!Cardinality(f) = Cardinality(f)
<1>1. H!SumFunction(f) = SumFunction(f)
  BY DEF H!SumFunction, SumFunction, H!SumFunctionOnSet, SumFunctionOnSet,
         H!FoldFunctionOnSet, FoldFunctionOnSet, H!MapThenFoldSet, MapThenFoldSet
<1>2. M!SumFunction(f) = SumFunction(f)
  BY DEF M!SumFunction, SumFunction, M!SumFunctionOnSet, SumFunctionOnSet,
         M!FoldFunctionOnSet, FoldFunctionOnSet, M!MapThenFoldSet, MapThenFoldSet
<1>3. H!Cardinality(f) = Cardinality(f)
  BY DEF H!Cardinality, Cardinality
<1>4. QED
  BY <1>1, <1>2, <1>3

LEMMA SameWords ==
    ASSUME NEW c
    PROVE  /\ H!TrueWords(c) = TrueWords(c) /\ M!TrueWords(c) = TrueWords(c)
           /\ M!Bytes(c) = Bytes(c) /\ (M!Overflows(c) <=> Overflows(c))
           /\ H!Counted(c) = Counted(c) /\ M!Counted(c) = Counted(c)
           /\ H!Word = Word /\ M!Word = Word
  BY DEF H!TrueWords, M!TrueWords, TrueWords, H!ByteBlocks, M!ByteBlocks, ByteBlocks,
         M!Bytes, Bytes, M!Wrap, Wrap, H!Word, M!Word, Word, M!Overflows, Overflows,
         H!Counted, M!Counted, Counted

LEMMA SameCells ==
    ASSUME NEW f, NEW p, NEW c, NEW S
    PROVE  /\ H!BytesHeld(f) = BytesHeld(f) /\ M!BytesHeld(f) = BytesHeld(f)
           /\ H!Put(p, c, f) = Put(p, c, f) /\ M!Put(p, c, f) = Put(p, c, f)
           /\ H!Restrict(f, S) = Restrict(f, S) /\ M!Restrict(f, S) = Restrict(f, S)
<1>1. H!BytesHeld(f) = BytesHeld(f) /\ M!BytesHeld(f) = BytesHeld(f)
  BY SameSums, SameWords DEF H!BytesHeld, M!BytesHeld, BytesHeld
<1>2. /\ H!Put(p, c, f) = Put(p, c, f) /\ M!Put(p, c, f) = Put(p, c, f)
      /\ H!Restrict(f, S) = Restrict(f, S) /\ M!Restrict(f, S) = Restrict(f, S)
  BY DEF H!Put, M!Put, Put, H!Restrict, M!Restrict, Restrict
<1>3. QED
  BY <1>1, <1>2

LEMMA SamePlaces ==
    ASSUME NEW f, NEW p, NEW w
    PROVE  H!Extent(p, w) = Extent(p, w) /\ H!Covered(f) = Covered(f)
<1>1. \A q, v : H!Extent(q, v) = Extent(q, v)
  BY DEF H!Extent, Extent
<1>2. H!Covered(f) = Covered(f)
  BY <1>1, SameWords DEF H!Covered, Covered
<1>3. QED
  BY <1>1, <1>2

-----------------------------------------------------------------------------
(* The actions of the abstract heap, in the operators of this project.      *)

StatOf(h, sc) == [live |-> Cardinality(DOMAIN h), bytes |-> BytesHeld(h), arena |-> ArenaSum(sc)]

LEMMA SameStats == ASSUME NEW h, NEW sc PROVE H!StatsOf(h, sc) = StatOf(h, sc)
<1>1. [i \in DOMAIN sc |-> H!BytesHeld(sc[i])] = [i \in DOMAIN sc |-> BytesHeld(sc[i])]
  BY SameCells
<1>2. QED
  BY <1>1, SameSums, SameCells DEF H!StatsOf, StatOf, ArenaSum

\* The figures as a frame of either backend keeps them give the accounts.
LEMMA FiguresStat ==
    ASSUME NEW st, NEW h, NEW sc, NEW fr, FiguresOf(st, h, sc, fr)
    PROVE  st = StatOf(h, sc)
  BY DEF FiguresOf, StatOf

ClearOf(p, w, h, sc) ==
    /\ \A q \in DOMAIN h : Clear(p, w, q, TrueWords(h[q]))
    /\ \A k \in DOMAIN sc : \A q \in DOMAIN sc[k] : Clear(p, w, q, TrueWords(sc[k][q]))

\* Cells that have an address and a length.
Located(h, sc) ==
    /\ \A q \in DOMAIN h : q \in Addr /\ TrueWords(h[q]) \in Nat
    /\ \A k \in DOMAIN sc : \A q \in DOMAIN sc[k] : q \in Addr /\ TrueWords(sc[k][q]) \in Nat

LEMMA SameFresh ==
    ASSUME NEW p \in Addr, NEW c, TrueWords(c) \in Nat, Located(held, Scopes),
           ClearOf(p, TrueWords(c), held, Scopes)
    PROVE  H!Fresh(p, c)
<1>1. ASSUME NEW x \in Extent(p, TrueWords(c)), x \in Covered(held) PROVE FALSE
  <2>1. PICK q \in DOMAIN held : x \in Extent(q, TrueWords(held[q]))
    BY <1>1 DEF Covered
  <2>2. q \in Addr /\ TrueWords(held[q]) \in Nat /\ Clear(p, TrueWords(c), q, TrueWords(held[q]))
    BY DEF Located, ClearOf
  <2>3. QED
    BY <1>1, <2>1, <2>2, ExtentsApart
<1>2. ASSUME NEW x \in Extent(p, TrueWords(c)), NEW k \in DOMAIN Scopes, x \in Covered(Scopes[k])
      PROVE  FALSE
  <2>1. PICK q \in DOMAIN Scopes[k] : x \in Extent(q, TrueWords(Scopes[k][q]))
    BY <1>2 DEF Covered
  <2>2. /\ q \in Addr /\ TrueWords(Scopes[k][q]) \in Nat
        /\ Clear(p, TrueWords(c), q, TrueWords(Scopes[k][q]))
    BY DEF Located, ClearOf
  <2>3. QED
    BY <1>2, <2>1, <2>2, ExtentsApart
<1>3. Extent(p, TrueWords(c)) \cap (Covered(held) \cup UNION {Covered(Scopes[i]) : i \in DOMAIN Scopes}) = {}
  BY <1>1, <1>2
<1>4. H!InUse = Covered(held) \cup UNION {Covered(Scopes[i]) : i \in DOMAIN Scopes}
  <2>1. H!InUse = H!Covered(held) \cup UNION {H!Covered(Scopes[i]) : i \in DOMAIN Scopes}
    BY DEF H!InUse, Scopes, ChainScopes
  <2>2. QED
    BY <2>1, SamePlaces
<1>5. QED
  BY <1>3, <1>4, SamePlaces, SameWords DEF H!Fresh

LEMMA SameAccount == H!Account <=> stats' = StatOf(held', Scopes')
<1>1. H!Account <=> stats' = H!StatsOf(held', Scopes')
  BY DEF H!Account, Scopes, ChainScopes
<1>2. QED
  BY <1>1, SameStats

LEMMA ImplAlloc ==
    ASSUME NEW p \in Addr, NEW c \in Requests, up, held' = Put(p, Counted(c), held), H!Fresh(p, c),
           stats' = StatOf(held', Scopes'), Scopes' = Scopes, up' = up
    PROVE  H!HNext
<1>1. held' = H!Put(p, H!Counted(c), held)
  BY SameCells, SameWords
<1>2. H!Account
  BY SameAccount
<1>3. H!HAlloc(p, c)
  BY <1>1, <1>2 DEF H!HAlloc, Scopes, ChainScopes
<1>4. QED
  BY <1>3 DEF H!HNext

LEMMA ImplArena ==
    ASSUME NEW p \in Addr, NEW c \in Requests, up, Scopes # <<>>,
           Scopes' = Deeper(Scopes, p, c), H!Fresh(p, c),
           stats' = StatOf(held', Scopes'), UNCHANGED <<held, up>>
    PROVE  H!HNext
<1>1. Scopes' = [Scopes EXCEPT ![Len(Scopes)] = H!Put(p, c, @)]
  BY SameCells DEF Deeper
<1>2. H!Account
  BY SameAccount
<1>3. H!HArenaAlloc(p, c)
  BY <1>1, <1>2 DEF H!HArenaAlloc, Scopes, ChainScopes
<1>4. QED
  BY <1>3 DEF H!HNext

LEMMA ImplCount ==
    ASSUME NEW p \in DOMAIN held, up, held[p].rc \in Nat \ {0},
           NEW rc \in 0 .. held[p].rc + 1, rc \in {held[p].rc - 1, held[p].rc + 1},
           held' = [held EXCEPT ![p].rc = rc], Scopes' = Scopes, UNCHANGED <<stats, up>>
    PROVE  H!HNext
<1>1. H!HSetRc(p, rc)
  BY DEF H!HSetRc, Scopes, ChainScopes
<1>2. QED
  BY <1>1 DEF H!HNext

LEMMA ImplFree ==
    ASSUME NEW p \in DOMAIN held, up, held[p].rc = 0,
           held' = Restrict(held, DOMAIN held \ {p}),
           stats' = StatOf(held', Scopes'), Scopes' = Scopes, up' = up
    PROVE  H!HNext
<1>1. held' = H!Restrict(held, DOMAIN held \ {p}) /\ H!Account
  BY SameCells, SameAccount
<1>2. H!HFree(p)
  BY <1>1 DEF H!HFree, Scopes, ChainScopes
<1>3. QED
  BY <1>2 DEF H!HNext

LEMMA ImplShell ==
    ASSUME NEW p \in DOMAIN held, p \in Addr, NEW c \in Requests, up, held[p].rc = 0,
           TrueWords(Counted(c)) = TrueWords(held[p]), held' = [held EXCEPT ![p] = Counted(c)],
           Scopes' = Scopes, UNCHANGED <<stats, up>>
    PROVE  H!HNext
<1>1. H!TrueWords(c) = H!TrueWords(held[p]) /\ held' = [held EXCEPT ![p] = H!Counted(c)]
  BY SameWords, ShapeAlone
<1>2. H!HAllocAt(p, c)
  BY <1>1 DEF H!HAllocAt, Scopes, ChainScopes
<1>3. QED
  BY <1>2 DEF H!HNext

LEMMA ImplOpen ==
    ASSUME up, Len(Scopes) < MaxDepth, Scopes' = Append(Scopes, <<>>), UNCHANGED <<held, stats, up>>
    PROVE  H!HNext
<1>1. H!HOpen
  BY DEF H!HOpen, Scopes, ChainScopes
<1>2. QED
  BY <1>1 DEF H!HNext

LEMMA ImplClose ==
    ASSUME up, Scopes # <<>>, Scopes' = Front(Scopes), stats' = StatOf(held', Scopes'),
           UNCHANGED <<held, up>>
    PROVE  H!HNext
<1>1. H!Account
  BY SameAccount
<1>2. H!HClose
  BY <1>1 DEF H!HClose, Scopes, ChainScopes, Front
<1>3. QED
  BY <1>2 DEF H!HNext

LEMMA ImplTearDown ==
    ASSUME up, up' = FALSE, NEW left \in SUBSET DOMAIN held, held' = Restrict(held, left),
           Scopes' = <<>>, stats' = stats
    PROVE  H!HNext
<1>1. held' = H!Restrict(held, left)
  BY SameCells
<1>2. H!HHeapFree
  BY <1>1 DEF H!HHeapFree, Scopes, ChainScopes
<1>3. QED
  BY <1>2 DEF H!HNext

-----------------------------------------------------------------------------
(* The slab backend keeps the promises.                                     *)

LEMMA SlabLocated == ASSUME SlabInv PROVE Located(held, scopes)
<1>1. HeldShape /\ ArenaTape
  BY DEF SlabInv, CountedInv
<1>2. \A q \in DOMAIN held : q \in Addr /\ TrueWords(held[q]) \in Nat
  BY <1>1, HeldBulk DEF HeldShape
<1>3. ASSUME NEW k \in DOMAIN scopes, NEW q \in DOMAIN scopes[k]
      PROVE  q \in Addr /\ TrueWords(scopes[k][q]) \in Nat
  <2>1. scopes[k] \in Scope
    BY <1>1, ArenaCells
  <2>2. q \in Addr /\ scopes[k][q] \in ArenaShapes
    BY <2>1, ScopeIs
  <2>3. QED
    BY <2>2, ArenaWords
<1>4. QED
  BY <1>2, <1>3 DEF Located

LEMMA SlabStat == ASSUME SlabInv, up PROVE stats = StatOf(held, scopes)
<1>1. FiguresOf(stats, held, scopes, frames)
  BY DEF SlabInv, Figures
<1>2. QED
  BY <1>1, FiguresStat

LEMMA SlabFresh ==
    ASSUME SlabInv, backend = "slab", NEW p \in Addr, NEW c, TrueWords(c) \in Nat,
           FreshAt(p, TrueWords(c))
    PROVE  H!Fresh(p, c)
<1>1. Scopes = scopes
  BY DEF Scopes
<1>2. Located(held, Scopes) /\ ClearOf(p, TrueWords(c), held, Scopes)
  BY <1>1, SlabLocated DEF FreshAt, ClearOf
<1>3. QED
  BY <1>2, SameFresh

LEMMA SlabPlaced ==
    ASSUME SlabInv, SlabInv', backend = "slab", backend' = backend,
           NEW p, NEW c \in Requests, ~Overflows(c), Placed(p, c)
    PROVE  H!HNext
<1>1. p \in Addr /\ up /\ FreshAt(p, TrueWords(c)) /\ held' = Put(p, Counted(c), held)
      /\ UNCHANGED <<scopes, up>>
  BY DEF Placed
<1>2. TrueWords(c) \in Nat
  BY Asked, BytesExact
<1>3. H!Fresh(p, c)
  BY <1>1, <1>2, SlabFresh
<1>4. (SlabInv /\ up => stats = StatOf(held, scopes))'
  BY SlabStat, PTL
<1>5. Scopes' = scopes' /\ Scopes = scopes
  BY DEF Scopes
<1>6. stats' = StatOf(held', Scopes')
  BY <1>1, <1>4, <1>5 DEF StatOf
<1>7. QED
  BY <1>1, <1>3, <1>5, <1>6, ImplAlloc

LEMMA SlabPlacedInScope ==
    ASSUME SlabInv, SlabInv', backend = "slab", backend' = backend,
           NEW q, NEW c \in ArenaShapes, PlacedInScope(q, c)
    PROVE  H!HNext
<1>1. q \in Addr /\ up /\ scopes # <<>> /\ FreshAt(q, TrueWords(c))
      /\ scopes' = Deeper(scopes, q, c) /\ UNCHANGED <<held, up>>
  BY DEF PlacedInScope, Deeper
<1>2. TrueWords(c) \in Nat /\ c \in Requests
  BY ArenaWords
<1>3. H!Fresh(q, c)
  BY <1>1, <1>2, SlabFresh
<1>4. (SlabInv /\ up => stats = StatOf(held, scopes))'
  BY SlabStat, PTL
<1>5. Scopes' = scopes' /\ Scopes = scopes
  BY DEF Scopes
<1>6. stats' = StatOf(held', Scopes')
  BY <1>1, <1>4, <1>5
<1>7. Scopes' = Deeper(Scopes, q, c) /\ Scopes # <<>>
  BY <1>1, <1>5
<1>8. QED
  BY <1>1, <1>2, <1>3, <1>6, <1>7, ImplArena

LEMMA SlabPromise ==
    ASSUME SlabInv, Next, backend = "slab", backend' = backend
    PROVE  SlabInv' /\ H!HNext
<1>0. SlabInv'
  BY SlabStep
<1>1. Scopes' = scopes' /\ Scopes = scopes
  BY DEF Scopes
<1>2. SlabInv' /\ up' => stats' = StatOf(held', scopes')
  <2>1. (SlabInv /\ up => stats = StatOf(held, scopes))'
    BY SlabStat, PTL
  <2>2. QED
    BY <2>1
<1>3. ASSUME NEW c \in Requests, AllocReuse(c) \/ AllocBump(c) \/ AllocGrow(c) \/ AllocLarge(c)
      PROVE  H!HNext
  <2>1. ~Overflows(c)
    BY <1>3 DEF AllocReuse, AllocBump, AllocGrow, AllocLarge, Admit
  <2>2. \E p : Placed(p, c)
    BY <1>3, ReuseStep, BumpStep, NewSlabStep, LargeStep
  <2>3. QED
    BY <1>0, <2>1, <2>2, SlabPlaced
<1>4. ASSUME NEW c \in Requests, ArenaBump(c) \/ ArenaGrow(c) PROVE H!HNext
  <2>1. c \in ArenaShapes
    BY <1>4 DEF ArenaBump, ArenaGrow, ArenaShapes
  <2>2. \E q : PlacedInScope(q, c)
    BY <1>4, ArenaBumpStep, ArenaGrowStep
  <2>3. QED
    BY <1>0, <2>1, <2>2, SlabPlacedInScope
<1>5. ASSUME NEW c \in Requests, NEW p \in DOMAIN held, AllocAt(p, c) PROVE H!HNext
  <2>1. held[p].rc = 0 /\ InPlace(p, Counted(c))
    BY <1>5, ShellStep
  <2>2. p \in Addr
    BY DEF SlabInv, CountedInv, HeldShape
  <2>3. /\ up /\ held' = [held EXCEPT ![p] = Counted(c)] /\ TrueWords(Counted(c)) = TrueWords(held[p])
        /\ UNCHANGED <<scopes, stats, up>>
    BY <2>1 DEF InPlace
  <2>4. QED
    BY <1>1, <2>1, <2>2, <2>3, ImplShell
<1>6. ASSUME NEW p \in DOMAIN held, Dup(p) \/ Dec(p) PROVE H!HNext
  <2>1. /\ up /\ UNCHANGED <<scopes, stats, up>> /\ held[p].rc \in Nat \ {0}
        /\ \E rc \in 0 .. held[p].rc + 1 :
              rc \in {held[p].rc - 1, held[p].rc + 1} /\ held' = [held EXCEPT ![p].rc = rc]
    BY <1>6, CountsStep
  <2>2. QED
    BY <1>1, <2>1, ImplCount
<1>7. ASSUME NEW p \in DOMAIN held, Free(p) PROVE H!HNext
  <2>1. /\ up /\ held[p].rc = 0 /\ held' = Restrict(held, DOMAIN held \ {p}) /\ UNCHANGED <<scopes, up>>
    BY <1>7, FreeStep
  <2>2. stats' = StatOf(held', Scopes') /\ Scopes' = Scopes
    BY <1>0, <1>1, <1>2, <2>1
  <2>3. QED
    BY <2>1, <2>2, ImplFree
<1>8. CASE ArenaOpen
  <2>1. up /\ scopes' = Append(scopes, <<>>) /\ UNCHANGED <<held, stats, up>>
    BY <1>8 DEF ArenaOpen
  <2>2. Len(scopes) < MaxDepth
    BY <1>8, OpenStep
  <2>3. Len(Scopes) < MaxDepth /\ Scopes' = Append(Scopes, <<>>) /\ UNCHANGED <<held, stats, up>> /\ up
    BY <1>1, <2>1, <2>2
  <2>4. QED
    BY <1>0, <2>3, ImplOpen
<1>9. CASE ArenaClose
  <2>1. up /\ scopes # <<>> /\ scopes' = Front(scopes) /\ UNCHANGED <<held, up>>
    BY <1>9, ArenaCloseStep DEF Front
  <2>2. QED
    BY <1>0, <1>1, <1>2, <2>1, ImplClose
<1>10. CASE HeapFree
  <2>1. up /\ up' = FALSE /\ held' = Restrict(held, LargeHeld) /\ scopes' = <<>> /\ stats' = stats
    BY <1>10, TearDownStep
  <2>2. LargeHeld \in SUBSET DOMAIN held
    BY DEF LargeHeld
  <2>3. Scopes' = <<>>
    BY <1>1, <2>1
  <2>4. QED
    BY <1>0, <2>1, <2>2, <2>3, ImplTearDown
<1>11. QED
  BY <1>0, <1>3, <1>4, <1>5, <1>6, <1>7, <1>8, <1>9, <1>10 DEF Next

-----------------------------------------------------------------------------
(* Chains of the malloc backend, read as scopes and weighed.                *)

Entry == [at : (1 .. MaxBlocks) \X {1}, cell : ArenaShapes]
Link  == [chain : Seq(Entry), bytes : Nat]

Ats(s) == {s[i].at : i \in DOMAIN s}
ScopeOf(s) == [p \in Ats(s) |-> (CHOOSE e \in {s[i] : i \in DOMAIN s} : e.at = p).cell]
Weight(s) == SumFunction([i \in DOMAIN s |-> Word + Bytes(s[i].cell)])
Once(s) == \A i, j \in DOMAIN s : s[i].at = s[j].at => i = j

LEMMA ChainRead ==
    ASSUME NEW f
    PROVE  M!ChainCells(f) = ScopeOf(f.chain) /\ M!ChainBytes(f) = Weight(f.chain)
<1>1. M!ChainCells(f) = ScopeOf(f.chain)
  BY DEF M!ChainCells, ScopeOf, Ats
<1>2. [i \in DOMAIN f.chain |-> M!Prefix + M!Bytes(f.chain[i].cell)]
        = [i \in DOMAIN f.chain |-> Word + Bytes(f.chain[i].cell)]
  BY SameWords DEF M!Prefix
<1>3. QED
  BY <1>1, <1>2, SameSums DEF M!ChainBytes, Weight

LEMMA EntryIs ==
    ASSUME NEW e \in Entry
    PROVE  /\ e.at \in Addr /\ e.at[1] \in 1 .. MaxBlocks /\ e.at[2] = 1 /\ e.cell \in ArenaShapes
           /\ Bytes(e.cell) = Word * TrueWords(e.cell) /\ Word + Bytes(e.cell) \in Nat
<1>1. SlabWords \in Nat /\ 1 \in 0 .. SlabWords - 1
  BY CellAssumption DEF CellAssumption
<1>2. e.at \in (1 .. MaxBlocks) \X {1} /\ e.cell \in ArenaShapes
  BY DEF Entry
<1>3. e.at \in Addr /\ e.at[1] \in 1 .. MaxBlocks /\ e.at[2] = 1
  BY <1>1, <1>2 DEF Addr
<1>4. Bytes(e.cell) = Word * TrueWords(e.cell) /\ TrueWords(e.cell) \in Nat
  BY <1>2, ArenaWords
<1>5. Word + Word * TrueWords(e.cell) \in Nat
  BY <1>4 DEF Word
<1>6. QED
  BY <1>2, <1>3, <1>4, <1>5

LEMMA ScopeOfIs ==
    ASSUME NEW s \in Seq(Entry), Once(s)
    PROVE  /\ ScopeOf(s) \in Scope /\ DOMAIN ScopeOf(s) = Ats(s)
           /\ \A i \in DOMAIN s : ScopeOf(s)[s[i].at] = s[i].cell
<1>1. \A i \in DOMAIN s : s[i] \in Entry
  BY MemberIs
<1>2. ASSUME NEW i \in DOMAIN s
      PROVE  (CHOOSE e \in {s[j] : j \in DOMAIN s} : e.at = s[i].at).cell = s[i].cell
  <2> DEFINE c == CHOOSE e \in {s[j] : j \in DOMAIN s} : e.at = s[i].at
  <2>1. c \in {s[j] : j \in DOMAIN s} /\ c.at = s[i].at
    OBVIOUS
  <2> HIDE DEF c
  <2>2. PICK j \in DOMAIN s : c = s[j]
    BY <2>1
  <2>3. j = i
    BY <2>1, <2>2 DEF Once
  <2>4. c.cell = s[i].cell
    BY <2>2, <2>3
  <2>5. QED
    BY <2>4 DEF c
<1>3. DOMAIN ScopeOf(s) = Ats(s) /\ \A i \in DOMAIN s : ScopeOf(s)[s[i].at] = s[i].cell
  BY <1>2 DEF ScopeOf, Ats
<1>4. Ats(s) \subseteq Addr
  BY <1>1, EntryIs DEF Ats
<1>5. IsFiniteSet(Ats(s))
  <2>1. IsFiniteSet(DOMAIN s)
    <3>1. DOMAIN s = 1 .. Len(s) /\ Len(s) \in Int /\ 1 \in Int
      OBVIOUS
    <3>2. QED
      BY <3>1, FS_Interval
  <2> DEFINE at == [i \in DOMAIN s |-> s[i].at]
  <2>2. at \in Surjection(DOMAIN s, Ats(s))
    BY DEF Ats, Surjection
  <2>3. QED
    BY <2>1, <2>2, FS_Surjection
<1>6. ScopeOf(s) \in [Ats(s) -> ArenaShapes]
  <2>1. \A p \in Ats(s) : ScopeOf(s)[p] \in ArenaShapes
    BY <1>1, <1>3, EntryIs DEF Ats
  <2>2. ScopeOf(s) = [p \in Ats(s) |-> ScopeOf(s)[p]]
    BY DEF ScopeOf
  <2>3. QED
    BY <2>1, <2>2
<1>7. QED
  BY <1>3, <1>4, <1>5, <1>6, ScopeMade

LEMMA NoCells == ScopeOf(<<>>) = <<>> /\ Weight(<<>>) = 0
<1>1. DOMAIN <<>> = {} /\ Ats(<<>>) = {}
  BY DEF Ats
<1>2. ScopeOf(<<>>) = <<>>
  BY <1>1 DEF ScopeOf
<1>3. DOMAIN [i \in DOMAIN <<>> |-> Word + Bytes(<<>>[i].cell)] = {}
  BY <1>1
<1>4. QED
  BY <1>2, <1>3, SumEmpty DEF Weight

\* An arena cell goes to the head of its chain.
LEMMA PushIs ==
    ASSUME NEW S, NEW s \in Seq(S), NEW e \in S
    PROVE  /\ <<e>> \o s \in Seq(S) /\ Len(s) \in Nat /\ Len(<<e>> \o s) = Len(s) + 1
           /\ DOMAIN s = 1 .. Len(s) /\ DOMAIN (<<e>> \o s) = 1 .. Len(s) + 1
           /\ (<<e>> \o s)[1] = e /\ \A i \in 1 .. Len(s) : (<<e>> \o s)[i + 1] = s[i]
  OBVIOUS

LEMMA PushIndex ==
    ASSUME NEW n \in Nat, NEW i \in 1 .. n + 1
    PROVE  i = 1 \/ (i - 1 \in 1 .. n /\ i = (i - 1) + 1)
  OBVIOUS

LEMMA ScopePush ==
    ASSUME NEW s \in Seq(Entry), Once(s), NEW e \in Entry, e.at \notin Ats(s)
    PROVE  /\ <<e>> \o s \in Seq(Entry) /\ Once(<<e>> \o s) /\ Ats(<<e>> \o s) = Ats(s) \cup {e.at}
           /\ ScopeOf(<<e>> \o s) = Put(e.at, e.cell, ScopeOf(s))
<1> DEFINE t == <<e>> \o s  n == Len(s)
<1>1. /\ t \in Seq(Entry) /\ n \in Nat /\ DOMAIN s = 1 .. n /\ DOMAIN t = 1 .. n + 1
      /\ t[1] = e /\ \A i \in 1 .. n : t[i + 1] = s[i]
  BY PushIs
<1> HIDE DEF t, n
<1>2. \A i \in DOMAIN t : i = 1 \/ (i - 1 \in DOMAIN s /\ i = (i - 1) + 1 /\ t[i] = s[i - 1])
  BY <1>1, PushIndex
<1>3. \A i \in DOMAIN s : s[i].at # e.at /\ i + 1 \in DOMAIN t /\ t[i + 1] = s[i]
  BY <1>1 DEF Ats
<1>4. Once(t)
  <2>1. ASSUME NEW i \in DOMAIN t, NEW j \in DOMAIN t, t[i].at = t[j].at PROVE i = j
    <3>1. CASE i = 1 /\ j = 1
      BY <3>1
    <3>2. CASE i = 1 /\ j # 1
      BY <1>1, <1>2, <1>3, <2>1, <3>2
    <3>3. CASE i # 1 /\ j = 1
      BY <1>1, <1>2, <1>3, <2>1, <3>3
    <3>4. CASE i # 1 /\ j # 1
      <4>1. /\ i - 1 \in DOMAIN s /\ i = (i - 1) + 1 /\ t[i] = s[i - 1]
            /\ j - 1 \in DOMAIN s /\ j = (j - 1) + 1 /\ t[j] = s[j - 1]
        BY <1>2, <3>4
      <4>2. i - 1 = j - 1
        BY <2>1, <4>1 DEF Once
      <4>3. QED
        BY <4>1, <4>2
    <3>5. QED
      BY <3>1, <3>2, <3>3, <3>4
  <2>2. QED
    BY <2>1 DEF Once
<1>5. Ats(t) = Ats(s) \cup {e.at}
  <2>1. ASSUME NEW p \in Ats(t) PROVE p \in Ats(s) \cup {e.at}
    BY <1>1, <1>2 DEF Ats
  <2>2. ASSUME NEW p \in Ats(s) PROVE p \in Ats(t)
    BY <1>3 DEF Ats
  <2>3. 1 \in DOMAIN t
    BY <1>1
  <2>4. e.at \in Ats(t)
    BY <1>1, <2>3 DEF Ats
  <2>5. QED
    BY <2>1, <2>2, <2>4
<1>6. /\ DOMAIN ScopeOf(s) = Ats(s) /\ \A i \in DOMAIN s : ScopeOf(s)[s[i].at] = s[i].cell
      /\ DOMAIN ScopeOf(t) = Ats(t) /\ \A i \in DOMAIN t : ScopeOf(t)[t[i].at] = t[i].cell
  BY <1>1, <1>4, ScopeOfIs
<1>7. ASSUME NEW p \in Ats(t) PROVE ScopeOf(t)[p] = Put(e.at, e.cell, ScopeOf(s))[p]
  <2>1. Put(e.at, e.cell, ScopeOf(s))[p] = IF p = e.at THEN e.cell ELSE ScopeOf(s)[p]
    BY <1>5, <1>6 DEF Put
  <2>2. CASE p = e.at
    <3>1. 1 \in DOMAIN t
      BY <1>1
    <3>2. ScopeOf(t)[t[1].at] = t[1].cell
      BY <1>6, <3>1
    <3>3. QED
      BY <1>1, <2>1, <2>2, <3>2
  <2>3. CASE p # e.at
    <3>1. PICK i \in DOMAIN s : p = s[i].at
      BY <1>5, <2>3 DEF Ats
    <3>2. i + 1 \in DOMAIN t /\ t[i + 1] = s[i]
      BY <1>3
    <3>3. ScopeOf(t)[t[i + 1].at] = t[i + 1].cell /\ ScopeOf(s)[s[i].at] = s[i].cell
      BY <1>6, <3>2
    <3>4. QED
      BY <2>1, <2>3, <3>1, <3>2, <3>3
  <2>4. QED
    BY <2>2, <2>3
<1>8. ScopeOf(t) = Put(e.at, e.cell, ScopeOf(s))
  <2>1. Put(e.at, e.cell, ScopeOf(s)) = [p \in Ats(t) |-> Put(e.at, e.cell, ScopeOf(s))[p]]
    BY <1>5, <1>6 DEF Put
  <2>2. ScopeOf(t) = [p \in Ats(t) |-> ScopeOf(t)[p]]
    BY DEF ScopeOf
  <2> HIDE DEF ScopeOf
  <2>3. QED
    BY <1>7, <2>1, <2>2
<1>9. QED
  BY <1>1, <1>4, <1>5, <1>8 DEF t

\* A sum is the same when every index moves up by one.
LEMMA SumShifted ==
    ASSUME NEW n \in Nat, NEW f, \A i \in 1 .. n : f[i] \in Nat,
           NEW g, \A i \in 1 .. n : g[i + 1] = f[i]
    PROVE  SumFunctionOnSet(g, 2 .. n + 1) = SumFunctionOnSet(f, 1 .. n)
<1> DEFINE Up(T) == {i + 1 : i \in T}
           F == {T \in SUBSET (1 .. n) : SumFunctionOnSet(g, Up(T)) # SumFunctionOnSet(f, T)}
<1>0. IsFiniteSet(1 .. n) /\ IsFiniteSet(2 .. n + 1)
  BY FS_Interval
<1>1. Up(1 .. n) = 2 .. n + 1
  <2>1. ASSUME NEW j \in 2 .. n + 1 PROVE j \in Up(1 .. n)
    <3>1. j - 1 \in 1 .. n /\ j = (j - 1) + 1
      OBVIOUS
    <3>2. QED
      BY <3>1
  <2>2. QED
    BY <2>1
<1>2. SUFFICES ASSUME F # {} PROVE FALSE
  <2>1. 1 .. n \in SUBSET (1 .. n)
    OBVIOUS
  <2> HIDE DEF Up
  <2>2. QED
    BY <1>1, <2>1
<1>3. PICK T \in F : \A U \in SUBSET T : U # T => U \notin F
  <2>1. F \in SUBSET SUBSET (1 .. n)
    OBVIOUS
  <2> HIDE DEF F
  <2>2. QED
    BY <1>0, <1>2, <2>1, SmallestExists
<1>4. T \in SUBSET (1 .. n) /\ SumFunctionOnSet(g, Up(T)) # SumFunctionOnSet(f, T)
  OBVIOUS
<1>5. T # {}
  <2>1. Up({}) = {}
    OBVIOUS
  <2> HIDE DEF Up
  <2>2. QED
    BY <1>4, <2>1, SumNone
<1>6. PICK x \in T : TRUE
  BY <1>5
<1>7. x \in 1 .. n /\ x + 1 \in Up(T) /\ g[x + 1] = f[x]
  BY <1>4
<1>8. Up(T \ {x}) = Up(T) \ {x + 1}
  <2>1. \A i \in T : i \in Nat
    BY <1>4
  <2>2. \A i \in T : i + 1 = x + 1 => i = x
    BY <1>7, <2>1
  <2>3. QED
    BY <2>2
<1>9. SumFunctionOnSet(g, Up(T \ {x})) = SumFunctionOnSet(f, T \ {x})
  BY <1>3, <1>4
<1>10. IsFiniteSet(T) /\ \A i \in T : f[i] \in Nat
  BY <1>0, <1>4, FS_Subset
<1>11. IsFiniteSet(Up(T)) /\ \A i \in Up(T) : g[i] \in Nat
  <2>1. Up(T) \subseteq 2 .. n + 1
    BY <1>4
  <2>2. \A i \in Up(T) : g[i] \in Nat
    BY <1>4, <1>10
  <2> HIDE DEF Up
  <2>3. QED
    BY <1>0, <2>1, <2>2, FS_Subset
<1> HIDE DEF Up
<1>12. SumFunctionOnSet(f, T) = f[x] + SumFunctionOnSet(f, T \ {x})
  BY <1>10, SumAny
<1>13. SumFunctionOnSet(g, Up(T)) = g[x + 1] + SumFunctionOnSet(g, Up(T) \ {x + 1})
  BY <1>7, <1>11, SumAny
<1>14. QED
  BY <1>4, <1>7, <1>8, <1>9, <1>12, <1>13

LEMMA WeightPush ==
    ASSUME NEW s \in Seq(Entry), NEW e \in Entry
    PROVE  /\ Weight(s) \in Nat /\ Weight(<<e>> \o s) = Weight(s) + (Word + Bytes(e.cell))
<1> DEFINE t == <<e>> \o s  n == Len(s)
           f == [i \in DOMAIN s |-> Word + Bytes(s[i].cell)]
           g == [i \in DOMAIN t |-> Word + Bytes(t[i].cell)]
<1>1. /\ t \in Seq(Entry) /\ n \in Nat /\ DOMAIN s = 1 .. n /\ DOMAIN t = 1 .. n + 1
      /\ t[1] = e /\ \A i \in 1 .. n : t[i + 1] = s[i]
  BY PushIs
<1>2. /\ \A i \in 1 .. n : s[i] \in Entry
      /\ \A i \in 1 .. n + 1 : t[i] \in Entry
  BY <1>1, MemberIs
<1>3. Weight(s) = SumFunctionOnSet(f, 1 .. n) /\ Weight(t) = SumFunctionOnSet(g, 1 .. n + 1)
  BY <1>1 DEF Weight, SumFunction
<1> HIDE DEF t, n
<1>4. \A i \in 1 .. n : f[i] \in Nat /\ g[i + 1] = f[i]
  <2>1. \A i \in 1 .. n : i \in DOMAIN s /\ i + 1 \in DOMAIN t
    BY <1>1
  <2>2. QED
    BY <1>1, <1>2, <2>1, EntryIs
<1>5. \A i \in 1 .. n + 1 : g[i] \in Nat
  BY <1>1, <1>2, EntryIs
<1>6. g[1] = Word + Bytes(e.cell) /\ 1 \in 1 .. n + 1
  BY <1>1
<1> HIDE DEF f, g
<1>7. IsFiniteSet(1 .. n) /\ IsFiniteSet(1 .. n + 1)
  BY <1>1, FS_Interval
<1>8. SumFunctionOnSet(f, 1 .. n) \in Nat
  BY <1>4, <1>7, SumType
<1>9. SumFunctionOnSet(g, 1 .. n + 1) = g[1] + SumFunctionOnSet(g, (1 .. n + 1) \ {1})
  BY <1>5, <1>6, <1>7, SumAny
<1>10. (1 .. n + 1) \ {1} = 2 .. n + 1
  BY <1>1
<1>11. SumFunctionOnSet(g, 2 .. n + 1) = SumFunctionOnSet(f, 1 .. n)
  BY <1>1, <1>4, SumShifted
<1>12. Word + Bytes(e.cell) \in Nat
  BY EntryIs
<1>13. Weight(t) = (Word + Bytes(e.cell)) + Weight(s)
  BY <1>3, <1>6, <1>9, <1>10, <1>11
<1>14. Weight(s) \in Nat
  BY <1>3, <1>8
<1>15. Weight(t) = Weight(s) + (Word + Bytes(e.cell))
  BY <1>12, <1>13, <1>14
<1>16. QED
  BY <1>14, <1>15 DEF t

-----------------------------------------------------------------------------
(* The stack of chains.                                                     *)

ChainSum(ch) == SumFunction([i \in DOMAIN ch |-> Weight(ch[i].chain)])

\* Every entry has a place of its own.
Apart(ch) ==
    \A k, l \in DOMAIN ch : \A i \in DOMAIN ch[k].chain, j \in DOMAIN ch[l].chain :
        ch[k].chain[i].at = ch[l].chain[j].at => k = l /\ i = j

LEMMA SeqSame ==
    ASSUME NEW S, NEW s \in Seq(S), NEW t \in Seq(S), DOMAIN s = DOMAIN t, \A i \in DOMAIN s : s[i] = t[i]
    PROVE  s = t
<1>1. Len(s) = Len(t) /\ DOMAIN s = 1 .. Len(s)
  OBVIOUS
<1>2. QED
  BY <1>1

LEMMA MadeSeq ==
    ASSUME NEW S, NEW R, NEW s \in Seq(S), NEW t, DOMAIN t = DOMAIN s, \A i \in DOMAIN s : t[i] \in R,
           t = [i \in DOMAIN s |-> t[i]]
    PROVE  t \in Seq(R) /\ Len(t) = Len(s)
<1>1. DOMAIN s = 1 .. Len(s) /\ Len(s) \in Nat
  OBVIOUS
<1>2. t \in [1 .. Len(s) -> R]
  BY <1>1
<1>3. QED
  BY <1>1, <1>2

LEMMA LinkIs ==
    ASSUME NEW ch \in Seq(Link), NEW k \in DOMAIN ch
    PROVE  ch[k] \in Link /\ ch[k].chain \in Seq(Entry) /\ ch[k].bytes \in Nat
<1>1. ch[k] \in Link
  BY MemberIs
<1>2. QED
  BY <1>1 DEF Link

LEMMA ChainsRead ==
    ASSUME NEW ch \in Seq(Link), Apart(ch)
    PROVE  /\ ChainScopes(ch) \in Seq(Scope) /\ Len(ChainScopes(ch)) = Len(ch)
           /\ DOMAIN ChainScopes(ch) = DOMAIN ch
           /\ \A k \in DOMAIN ch : /\ ChainScopes(ch)[k] = ScopeOf(ch[k].chain) /\ Once(ch[k].chain)
                                   /\ DOMAIN ChainScopes(ch)[k] = Ats(ch[k].chain)
                                   /\ ch[k].chain \in Seq(Entry)
<1> DEFINE t == ChainScopes(ch)
<1>1. DOMAIN t = DOMAIN ch /\ \A k \in DOMAIN ch : t[k] = ScopeOf(ch[k].chain)
  BY ChainRead DEF ChainScopes
<1>2. t = [k \in DOMAIN ch |-> t[k]]
  BY DEF ChainScopes
<1> HIDE DEF t
<1>3. ASSUME NEW k \in DOMAIN ch
      PROVE  /\ t[k] \in Scope /\ Once(ch[k].chain) /\ DOMAIN t[k] = Ats(ch[k].chain)
             /\ ch[k].chain \in Seq(Entry)
  <2>1. ch[k].chain \in Seq(Entry)
    BY LinkIs
  <2>2. Once(ch[k].chain)
    BY DEF Apart, Once
  <2>3. QED
    BY <1>1, <2>1, <2>2, ScopeOfIs
<1>4. t \in Seq(Scope) /\ Len(t) = Len(ch)
  <2>1. \A k \in DOMAIN ch : t[k] \in Scope
    BY <1>3
  <2>2. QED
    BY <1>1, <1>2, <2>1, MadeSeq
<1>5. QED
  BY <1>1, <1>3, <1>4 DEF t

LEMMA WeightType == ASSUME NEW x \in Seq(Entry) PROVE Weight(x) \in Nat
<1> DEFINE f == [i \in DOMAIN x |-> Word + Bytes(x[i].cell)]
<1>1. DOMAIN f = DOMAIN x /\ \A i \in DOMAIN x : f[i] \in Nat
  BY MemberIs, EntryIs
<1>2. IsFiniteSet(DOMAIN x)
  <2>1. DOMAIN x = 1 .. Len(x) /\ Len(x) \in Int /\ 1 \in Int
    OBVIOUS
  <2>2. QED
    BY <2>1, FS_Interval
<1>3. Weight(x) = SumFunctionOnSet(f, DOMAIN f)
  BY DEF Weight, SumFunction
<1> HIDE DEF f
<1>4. QED
  BY <1>1, <1>2, <1>3, SumType

LEMMA ChainSumOther ==
    ASSUME NEW s \in Seq(Link), NEW t \in Seq(Link), NEW a,
           DOMAIN s \ {a} = DOMAIN t \ {a}, \A i \in DOMAIN s \ {a} : s[i].chain = t[i].chain
    PROVE  /\ ChainSum(s) \in Nat /\ ChainSum(t) \in Nat
           /\ ChainSum(t) - (IF a \in DOMAIN t THEN Weight(t[a].chain) ELSE 0)
                = ChainSum(s) - (IF a \in DOMAIN s THEN Weight(s[a].chain) ELSE 0)
<1> DEFINE F == [i \in DOMAIN s |-> Weight(s[i].chain)]
           G == [i \in DOMAIN t |-> Weight(t[i].chain)]
<1>1. /\ DOMAIN F = DOMAIN s /\ DOMAIN G = DOMAIN t
      /\ \A i \in DOMAIN s : F[i] = Weight(s[i].chain)
      /\ \A i \in DOMAIN t : G[i] = Weight(t[i].chain)
  OBVIOUS
<1>2. ChainSum(s) = SumFunction(F) /\ ChainSum(t) = SumFunction(G)
  BY DEF ChainSum
<1> HIDE DEF F, G
<1>3. IsFiniteSet(DOMAIN s) /\ IsFiniteSet(DOMAIN t)
  <2>1. DOMAIN s = 1 .. Len(s) /\ DOMAIN t = 1 .. Len(t) /\ Len(s) \in Int /\ Len(t) \in Int /\ 1 \in Int
    OBVIOUS
  <2>2. QED
    BY <2>1, FS_Interval
<1>4. /\ \A i \in DOMAIN F : F[i] \in Nat
      /\ \A i \in DOMAIN G : G[i] \in Nat
  BY <1>1, LinkIs, WeightType
<1>5. DOMAIN F \ {a} = DOMAIN G \ {a} /\ \A i \in DOMAIN F \ {a} : F[i] = G[i]
  BY <1>1
<1>6. /\ SumFunction(F) \in Nat /\ SumFunction(G) \in Nat
      /\ SumFunction(G) - (IF a \in DOMAIN G THEN G[a] ELSE 0)
            = SumFunction(F) - (IF a \in DOMAIN F THEN F[a] ELSE 0)
  BY <1>1, <1>3, <1>4, <1>5, SumOther
<1>7. QED
  BY <1>1, <1>2, <1>6

\* A chain opens empty.
LEMMA OpenLink ==
    ASSUME NEW ch \in Seq(Link), Apart(ch), NEW b \in Nat
    PROVE  LET f == [chain |-> <<>>, bytes |-> b]  ch2 == Append(ch, f)
           IN  /\ f \in Link /\ ch2 \in Seq(Link) /\ Apart(ch2) /\ Len(ch2) = Len(ch) + 1
               /\ ChainScopes(ch2) = Append(ChainScopes(ch), <<>>)
               /\ ChainSum(ch2) = ChainSum(ch) /\ ChainSum(ch) \in Nat
               /\ \A k \in DOMAIN ch : k \in DOMAIN ch2 /\ ch2[k] = ch[k]
               /\ \A k \in DOMAIN ch2 : (k \in DOMAIN ch /\ ch2[k] = ch[k]) \/ ch2[k].chain = <<>>
<1> DEFINE f == [chain |-> <<>>, bytes |-> b]  ch2 == Append(ch, f)  n == Len(ch)
<1>1. f \in Link /\ f.chain = <<>>
  BY DEF Link
<1> HIDE DEF f
<1>2. /\ ch2 \in Seq(Link) /\ n \in Nat /\ DOMAIN ch2 = 1 .. n + 1 /\ DOMAIN ch = 1 .. n /\ Len(ch2) = n + 1
      /\ ch2[n + 1] = f /\ \A i \in 1 .. n : ch2[i] = ch[i]
  BY <1>1, AppendIs
<1> HIDE DEF ch2, n
<1>3. \A k \in DOMAIN ch2 : (k \in DOMAIN ch /\ ch2[k] = ch[k]) \/ ch2[k].chain = <<>>
  BY <1>1, <1>2
<1>4. \A k \in DOMAIN ch : k \in DOMAIN ch2 /\ ch2[k] = ch[k]
  BY <1>2
<1>5. Apart(ch2)
  <2>1. \A k \in DOMAIN ch2 : \A i \in DOMAIN ch2[k].chain : k \in DOMAIN ch /\ ch2[k] = ch[k]
    BY <1>3
  <2>2. QED
    BY <2>1 DEF Apart
<1>6. ChainScopes(ch2) = Append(ChainScopes(ch), <<>>)
  <2> DEFINE s == ChainScopes(ch)  t == ChainScopes(ch2)  u == Append(s, <<>>)
  <2>1. /\ s \in Seq(Scope) /\ Len(s) = n /\ DOMAIN s = DOMAIN ch
        /\ \A k \in DOMAIN ch : s[k] = ScopeOf(ch[k].chain)
    BY ChainsRead DEF n
  <2>2. /\ t \in Seq(Scope) /\ DOMAIN t = DOMAIN ch2
        /\ \A k \in DOMAIN ch2 : t[k] = ScopeOf(ch2[k].chain)
    BY <1>2, <1>5, ChainsRead
  <2> HIDE DEF s, t
  <2>3. <<>> \in Scope
    BY ScopeEmpty
  <2>4. /\ u \in Seq(Scope) /\ DOMAIN u = 1 .. n + 1 /\ u[n + 1] = <<>>
        /\ \A i \in 1 .. n : u[i] = s[i]
    BY <2>1, <2>3, AppendIs
  <2> HIDE DEF u
  <2>5. \A i \in 1 .. n + 1 : i \in 1 .. n \/ i = n + 1
    BY <1>2
  <2>6. t[n + 1] = <<>>
    <3>1. n + 1 \in DOMAIN ch2 /\ ch2[n + 1].chain = <<>>
      BY <1>1, <1>2
    <3>2. QED
      BY <2>2, <3>1, NoCells
  <2>7. \A i \in 1 .. n : t[i] = u[i]
    BY <1>2, <1>4, <2>1, <2>2, <2>4
  <2>8. \A i \in DOMAIN t : t[i] = u[i]
    BY <1>2, <2>2, <2>4, <2>5, <2>6, <2>7
  <2>9. t = u
    BY <1>2, <2>2, <2>4, <2>8, SeqSame
  <2>10. QED
    BY <2>9 DEF t, u, s
<1>7. ChainSum(ch2) = ChainSum(ch) /\ ChainSum(ch) \in Nat
  <2>1. DOMAIN ch \ {n + 1} = DOMAIN ch2 \ {n + 1} /\ n + 1 \notin DOMAIN ch /\ n + 1 \in DOMAIN ch2
    BY <1>2
  <2>2. \A i \in DOMAIN ch \ {n + 1} : ch[i].chain = ch2[i].chain
    BY <1>4
  <2>3. /\ ChainSum(ch) \in Nat /\ ChainSum(ch2) \in Nat
        /\ ChainSum(ch2) - (IF n + 1 \in DOMAIN ch2 THEN Weight(ch2[n + 1].chain) ELSE 0)
             = ChainSum(ch) - (IF n + 1 \in DOMAIN ch THEN Weight(ch[n + 1].chain) ELSE 0)
    BY <1>2, <2>1, <2>2, ChainSumOther
  <2>4. Weight(ch2[n + 1].chain) = 0
    BY <1>1, <1>2, NoCells
  <2>5. QED
    BY <2>1, <2>3, <2>4
<1>8. QED
  BY <1>1, <1>2, <1>3, <1>4, <1>5, <1>6, <1>7 DEF ch2, f, n

LEMMA ApartIs ==
    ASSUME NEW ch
    PROVE  Apart(ch) <=> /\ \A k \in DOMAIN ch : Once(ch[k].chain)
                         /\ \A k, l \in DOMAIN ch : k # l => Ats(ch[k].chain) \cap Ats(ch[l].chain) = {}
<1>1. ASSUME Apart(ch)
      PROVE  /\ \A k \in DOMAIN ch : Once(ch[k].chain)
             /\ \A k, l \in DOMAIN ch : k # l => Ats(ch[k].chain) \cap Ats(ch[l].chain) = {}
  BY <1>1 DEF Apart, Once, Ats
<1>2. ASSUME \A k \in DOMAIN ch : Once(ch[k].chain),
             \A k, l \in DOMAIN ch : k # l => Ats(ch[k].chain) \cap Ats(ch[l].chain) = {}
      PROVE  Apart(ch)
  <2>1. ASSUME NEW k \in DOMAIN ch, NEW l \in DOMAIN ch, NEW i \in DOMAIN ch[k].chain,
               NEW j \in DOMAIN ch[l].chain, ch[k].chain[i].at = ch[l].chain[j].at
        PROVE  k = l /\ i = j
    <3>1. ch[k].chain[i].at \in Ats(ch[k].chain) /\ ch[k].chain[i].at \in Ats(ch[l].chain)
      BY <2>1 DEF Ats
    <3>2. k = l
      BY <1>2, <3>1
    <3>3. QED
      BY <1>2, <2>1, <3>2 DEF Once
  <2>2. QED
    BY <2>1 DEF Apart
<1>3. QED
  BY <1>1, <1>2

Pushed(ch, e) == [ch EXCEPT ![Len(ch)].chain = <<e>> \o @]

\* A cell is linked into the innermost chain.
LEMMA PushLink ==
    ASSUME NEW ch \in Seq(Link), Apart(ch), ch # <<>>, NEW e \in Entry,
           \A k \in DOMAIN ch : e.at \notin Ats(ch[k].chain)
    PROVE  /\ Pushed(ch, e) \in Seq(Link) /\ Apart(Pushed(ch, e)) /\ Len(Pushed(ch, e)) = Len(ch)
           /\ DOMAIN Pushed(ch, e) = DOMAIN ch /\ Len(ch) \in DOMAIN ch
           /\ \A k \in DOMAIN ch : Pushed(ch, e)[k].bytes = ch[k].bytes
           /\ \A k \in DOMAIN ch : k # Len(ch) => Pushed(ch, e)[k] = ch[k]
           /\ Ats(Pushed(ch, e)[Len(ch)].chain) = Ats(ch[Len(ch)].chain) \cup {e.at}
           /\ ChainScopes(Pushed(ch, e)) = Deeper(ChainScopes(ch), e.at, e.cell)
           /\ ChainSum(ch) \in Nat /\ ChainSum(Pushed(ch, e)) = ChainSum(ch) + (Word + Bytes(e.cell))
<1> DEFINE n == Len(ch)  t == Pushed(ch, e)  old == ch[n].chain  new == <<e>> \o old
<1>1. n \in DOMAIN ch /\ DOMAIN ch = 1 .. n /\ n \in Nat
  OBVIOUS
<1>2. /\ \A k \in DOMAIN ch : ch[k] \in Link /\ ch[k].chain \in Seq(Entry) /\ ch[k].bytes \in Nat
  BY LinkIs
<1>3. DOMAIN t = DOMAIN ch /\ t[n] = [ch[n] EXCEPT !.chain = new]
      /\ \A k \in DOMAIN ch : k # n => t[k] = ch[k]
  BY <1>1 DEF Pushed
<1>4. t[n].chain = new /\ t[n].bytes = ch[n].bytes
  <2>1. ch[n] = [chain |-> ch[n].chain, bytes |-> ch[n].bytes]
    BY <1>1, <1>2 DEF Link
  <2> HIDE DEF new, t
  <2>2. QED
    BY <1>3, <2>1
<1>5. old \in Seq(Entry) /\ Once(old) /\ e.at \notin Ats(old)
  BY <1>1, <1>2, ApartIs
<1>6. new \in Seq(Entry) /\ Once(new) /\ Ats(new) = Ats(old) \cup {e.at}
      /\ ScopeOf(new) = Put(e.at, e.cell, ScopeOf(old))
  BY <1>5, ScopePush
<1>7. Weight(new) = Weight(old) + (Word + Bytes(e.cell)) /\ Weight(old) \in Nat
      /\ Word + Bytes(e.cell) \in Nat
  BY <1>5, WeightPush, EntryIs
<1>8. t \in Seq(Link) /\ Len(t) = n
  <2>1. t[n] \in Link
    <3>1. ch[n] \in Link
      BY <1>1, <1>2
    <3>2. [ch[n] EXCEPT !.chain = new] \in Link
      <4> HIDE DEF new
      <4>1. QED
        BY <1>6, <3>1 DEF Link
    <3>3. QED
      BY <1>3, <3>2
  <2>2. \A k \in DOMAIN ch : t[k] \in Link
    BY <1>2, <1>3, <2>1
  <2>3. t = [k \in DOMAIN ch |-> t[k]]
    BY DEF Pushed
  <2> HIDE DEF t
  <2>4. QED
    BY <1>3, <2>2, <2>3, MadeSeq
<1> HIDE DEF t, new, old
<1>9. Apart(t)
  <2>1. \A k \in DOMAIN t : Once(t[k].chain)
    BY <1>3, <1>4, <1>6, ApartIs
  <2>2. \A k \in DOMAIN ch : Ats(t[k].chain) = IF k = n THEN Ats(ch[k].chain) \cup {e.at} ELSE Ats(ch[k].chain)
    BY <1>3, <1>4, <1>6 DEF old
  <2>3. \A k, l \in DOMAIN ch : k # l => Ats(ch[k].chain) \cap Ats(ch[l].chain) = {}
    BY ApartIs
  <2>4. \A k, l \in DOMAIN t : k # l => Ats(t[k].chain) \cap Ats(t[l].chain) = {}
    <3>1. ASSUME NEW k \in DOMAIN ch, NEW l \in DOMAIN ch, k # l,
                 NEW p, p \in Ats(t[k].chain), p \in Ats(t[l].chain)
          PROVE  FALSE
      <4>1. p \in Ats(ch[k].chain) \/ (p = e.at /\ k = n)
        BY <2>2, <3>1
      <4>2. p \in Ats(ch[l].chain) \/ (p = e.at /\ l = n)
        BY <2>2, <3>1
      <4>3. ~(p \in Ats(ch[k].chain) /\ p \in Ats(ch[l].chain))
        BY <2>3, <3>1
      <4>4. e.at \notin Ats(ch[k].chain) /\ e.at \notin Ats(ch[l].chain)
        OBVIOUS
      <4>5. QED
        BY <3>1, <4>1, <4>2, <4>3, <4>4
    <3>2. QED
      BY <1>3, <3>1
  <2>5. QED
    BY <2>1, <2>4, ApartIs
<1>10. ChainScopes(t) = Deeper(ChainScopes(ch), e.at, e.cell)
  <2> DEFINE s == ChainScopes(ch)  v == ChainScopes(t)  u == Deeper(s, e.at, e.cell)
  <2>1. /\ s \in Seq(Scope) /\ Len(s) = n /\ DOMAIN s = DOMAIN ch
        /\ \A k \in DOMAIN ch : s[k] = ScopeOf(ch[k].chain)
    BY ChainsRead
  <2>2. /\ v \in Seq(Scope) /\ DOMAIN v = DOMAIN ch
        /\ \A k \in DOMAIN ch : v[k] = ScopeOf(t[k].chain)
    BY <1>3, <1>8, <1>9, ChainsRead
  <2> HIDE DEF s, v
  <2>3. /\ DOMAIN u = DOMAIN ch /\ u[n] = Put(e.at, e.cell, s[n])
        /\ \A k \in DOMAIN ch : k # n => u[k] = s[k]
    BY <1>1, <2>1 DEF Deeper
  <2>4. u = [k \in DOMAIN ch |-> u[k]]
    BY <2>1 DEF Deeper
  <2> HIDE DEF u
  <2>5. v[n] = u[n]
    BY <1>1, <1>4, <1>6, <2>1, <2>2, <2>3 DEF old
  <2>6. \A k \in DOMAIN ch : v[k] = u[k]
    BY <1>3, <2>1, <2>2, <2>3, <2>5
  <2>7. v = [k \in DOMAIN ch |-> v[k]]
    BY <2>2
  <2>8. v = u
    BY <2>4, <2>6, <2>7
  <2>9. QED
    BY <2>8 DEF v, u, s
<1>11. ChainSum(ch) \in Nat /\ ChainSum(t) = ChainSum(ch) + (Word + Bytes(e.cell))
  <2>1. DOMAIN ch \ {n} = DOMAIN t \ {n} /\ \A i \in DOMAIN ch \ {n} : ch[i].chain = t[i].chain
    BY <1>3
  <2>2. /\ ChainSum(ch) \in Nat /\ ChainSum(t) \in Nat
        /\ ChainSum(t) - (IF n \in DOMAIN t THEN Weight(t[n].chain) ELSE 0)
             = ChainSum(ch) - (IF n \in DOMAIN ch THEN Weight(ch[n].chain) ELSE 0)
    BY <1>8, <2>1, ChainSumOther
  <2> DEFINE a == ChainSum(ch)  b == ChainSum(t)  d == Weight(old)
             z == Word + Bytes(e.cell)  x == Weight(new)
  <2>3. a \in Nat /\ b \in Nat /\ d \in Nat /\ z \in Nat /\ x = d + z /\ b - x = a - d
    BY <1>1, <1>3, <1>4, <1>7, <2>2 DEF old
  <2> HIDE DEF a, b, d, z, x
  <2>4. b = a + z
    BY <2>3, Balance
  <2>5. QED
    BY <2>3, <2>4 DEF a, b, z
<1>12. \A k \in DOMAIN ch : t[k].bytes = ch[k].bytes
  BY <1>3, <1>4
<1>13. Ats(t[n].chain) = Ats(ch[n].chain) \cup {e.at}
  BY <1>4, <1>6 DEF old
<1>14. QED
  BY <1>1, <1>3, <1>8, <1>9, <1>10, <1>11, <1>12, <1>13 DEF t

\* The innermost chain is freed.
LEMMA CloseLink ==
    ASSUME NEW ch \in Seq(Link), Apart(ch), ch # <<>>
    PROVE  /\ Front(ch) \in Seq(Link) /\ Apart(Front(ch)) /\ Len(Front(ch)) = Len(ch) - 1
           /\ Len(ch) \in DOMAIN ch /\ DOMAIN Front(ch) = DOMAIN ch \ {Len(ch)}
           /\ \A k \in DOMAIN Front(ch) : Front(ch)[k] = ch[k]
           /\ ChainScopes(Front(ch)) = Front(ChainScopes(ch))
           /\ ChainSum(ch) \in Nat /\ ChainSum(Front(ch)) = ChainSum(ch) - Weight(ch[Len(ch)].chain)
<1> DEFINE n == Len(ch)  t == Front(ch)
<1>1. /\ t \in Seq(Link) /\ Len(t) = n - 1 /\ DOMAIN t = 1 .. n - 1 /\ n \in Nat \ {0}
      /\ n \in DOMAIN ch /\ DOMAIN ch = 1 .. n /\ \A k \in 1 .. n - 1 : t[k] = ch[k] /\ k \in DOMAIN ch
  BY FrontOf DEF Front
<1> HIDE DEF n, t
<1>2. DOMAIN t = DOMAIN ch \ {n} /\ \A k \in DOMAIN t : k \in DOMAIN ch /\ t[k] = ch[k]
  BY <1>1
<1>3. Apart(t)
  BY <1>2 DEF Apart
<1>4. ChainScopes(t) = Front(ChainScopes(ch))
  <2> DEFINE s == ChainScopes(ch)  v == ChainScopes(t)  u == Front(s)
  <2>1. /\ s \in Seq(Scope) /\ Len(s) = n /\ DOMAIN s = DOMAIN ch
        /\ \A k \in DOMAIN ch : s[k] = ScopeOf(ch[k].chain)
    BY ChainsRead DEF n
  <2>2. /\ v \in Seq(Scope) /\ DOMAIN v = DOMAIN t
        /\ \A k \in DOMAIN t : v[k] = ScopeOf(t[k].chain)
    BY <1>1, <1>3, ChainsRead
  <2> HIDE DEF s, v
  <2>3. s # <<>>
    BY <1>1, <2>1
  <2>4. u \in Seq(Scope) /\ DOMAIN u = 1 .. n - 1 /\ \A k \in 1 .. n - 1 : u[k] = s[k]
    BY <2>1, <2>3, FrontOf DEF Front
  <2> HIDE DEF u
  <2>5. DOMAIN v = DOMAIN u /\ \A k \in DOMAIN v : v[k] = u[k]
    BY <1>1, <1>2, <2>1, <2>2, <2>4
  <2>6. v = u
    BY <2>2, <2>4, <2>5, SeqSame
  <2>7. QED
    BY <2>6 DEF v, u, s
<1>5. ChainSum(ch) \in Nat /\ ChainSum(t) = ChainSum(ch) - Weight(ch[n].chain)
  <2>1. DOMAIN ch \ {n} = DOMAIN t \ {n} /\ \A i \in DOMAIN ch \ {n} : ch[i].chain = t[i].chain
    BY <1>2
  <2>2. /\ ChainSum(ch) \in Nat /\ ChainSum(t) \in Nat
        /\ ChainSum(t) - (IF n \in DOMAIN t THEN Weight(t[n].chain) ELSE 0)
             = ChainSum(ch) - (IF n \in DOMAIN ch THEN Weight(ch[n].chain) ELSE 0)
    BY <1>1, <2>1, ChainSumOther
  <2>3. n \notin DOMAIN t
    BY <1>2
  <2>4. QED
    BY <1>1, <2>2, <2>3
<1>6. QED
  BY <1>1, <1>2, <1>3, <1>4, <1>5 DEF n, t

-----------------------------------------------------------------------------
(* The invariant of the malloc backend: every block malloc has out is a      *)
(* counted cell or an entry of one chain, and never both.                   *)

IsHeld(h, b) == <<b, 0>> \in DOMAIN h
IsLinked(ch, b) == \E k \in DOMAIN ch : <<b, 1>> \in Ats(ch[k].chain)

OneOwner(h, ch, bl) ==
    /\ DOMAIN h \subseteq (1 .. MaxBlocks) \X {0}
    /\ bl = {b \in 1 .. MaxBlocks : IsHeld(h, b) \/ IsLinked(ch, b)}
    /\ \A b \in bl : ~(IsHeld(h, b) /\ IsLinked(ch, b))

ChainFigures ==
    /\ stats \in [live : Nat, bytes : Nat, arena : Nat]
    /\ up => FiguresOf(stats, held, ChainScopes(chains), chains)

Weighed == phys = BytesHeld(held) + ChainSum(chains)

\* A mapping and nothing more: what is left of it at teardown is all of it.
Mapping(h) == h = [p \in DOMAIN h |-> h[p]]

MallocInv ==
    /\ HeldShape /\ Mapping(held) /\ OneOwner(held, chains, blocks)
    /\ chains \in Seq(Link) /\ Len(chains) <= MaxDepth /\ Apart(chains)
    /\ ChainFigures /\ Weighed

LEMMA WeighedIs == ASSUME NEW ch PROVE M!SumFunction([i \in DOMAIN ch |-> M!ChainBytes(ch[i])]) = ChainSum(ch)
<1>1. [i \in DOMAIN ch |-> M!ChainBytes(ch[i])] = [i \in DOMAIN ch |-> Weight(ch[i].chain)]
  BY ChainRead
<1>2. QED
  BY <1>1, SameSums DEF ChainSum

LEMMA AtIs ==
    ASSUME NEW s \in Seq(Entry), NEW p \in Ats(s)
    PROVE  p[1] \in 1 .. MaxBlocks /\ p = <<p[1], 1>> /\ p \in Addr
<1>1. PICK i \in DOMAIN s : p = s[i].at
  BY DEF Ats
<1>2. s[i] \in Entry
  BY MemberIs
<1>3. p \in (1 .. MaxBlocks) \X {1}
  BY <1>1, <1>2 DEF Entry
<1>4. p \in Addr
  BY <1>1, <1>2, EntryIs
<1>5. QED
  BY <1>3, <1>4

\* A block given by malloc is nobody's.
LEMMA MallocFresh ==
    ASSUME MallocInv, M!Unused # {}
    PROVE  LET b == M!NewBlock IN
           /\ b \in 1 .. MaxBlocks /\ b \notin blocks /\ ~IsHeld(held, b) /\ ~IsLinked(chains, b)
           /\ <<b, 0>> \in Addr /\ <<b, 1>> \in Addr
           /\ \A q \in DOMAIN held : q[1] # b
           /\ \A k \in DOMAIN chains : \A q \in Ats(chains[k].chain) : q[1] # b
<1> DEFINE b == M!NewBlock
<1>1. b \in (1 .. MaxBlocks) \ blocks
  BY DEF M!NewBlock, M!Unused
<1> HIDE DEF b
<1>2. ~IsHeld(held, b) /\ ~IsLinked(chains, b)
  BY <1>1 DEF MallocInv, OneOwner
<1>3. \A q \in DOMAIN held : q[1] # b
  <2>1. \A q \in DOMAIN held : q = <<q[1], 0>>
    BY DEF MallocInv, OneOwner
  <2>2. QED
    BY <1>2, <2>1 DEF IsHeld
<1>4. ASSUME NEW k \in DOMAIN chains, NEW q \in Ats(chains[k].chain) PROVE q[1] # b
  <2>1. q = <<q[1], 1>>
    BY AtIs, LinkIs DEF MallocInv
  <2>2. QED
    BY <1>2, <2>1 DEF IsLinked
<1>5. <<b, 0>> \in Addr /\ <<b, 1>> \in Addr
  BY <1>1, CellAssumption DEF Addr, CellAssumption
<1>6. QED
  BY <1>1, <1>2, <1>3, <1>4, <1>5 DEF b

LEMMA MallocLocated == ASSUME MallocInv PROVE Located(held, ChainScopes(chains))
<1>1. \A q \in DOMAIN held : q \in Addr /\ TrueWords(held[q]) \in Nat
  BY HeldBulk DEF MallocInv, HeldShape
<1>2. ASSUME NEW k \in DOMAIN ChainScopes(chains), NEW q \in DOMAIN ChainScopes(chains)[k]
      PROVE  q \in Addr /\ TrueWords(ChainScopes(chains)[k][q]) \in Nat
  <2>1. ChainScopes(chains)[k] \in Scope
    BY ChainsRead, MemberIs DEF MallocInv
  <2>2. q \in Addr /\ ChainScopes(chains)[k][q] \in ArenaShapes
    BY <2>1, ScopeIs
  <2>3. QED
    BY <2>2, ArenaWords
<1>3. QED
  BY <1>1, <1>2 DEF Located

LEMMA MallocClear ==
    ASSUME MallocInv, M!Unused # {}, NEW w, NEW o
    PROVE  ClearOf(<<M!NewBlock, o>>, w, held, ChainScopes(chains))
<1> DEFINE b == M!NewBlock
<1>1. /\ \A q \in DOMAIN held : q[1] # b
      /\ \A k \in DOMAIN chains : \A q \in Ats(chains[k].chain) : q[1] # b
  BY MallocFresh
<1> HIDE DEF b
<1>2. /\ DOMAIN ChainScopes(chains) = DOMAIN chains
      /\ \A k \in DOMAIN chains : DOMAIN ChainScopes(chains)[k] = Ats(chains[k].chain)
  BY ChainsRead DEF MallocInv
<1>3. QED
  BY <1>1, <1>2 DEF ClearOf, Clear, b

LEMMA MallocAlloc ==
    ASSUME MallocInv, NEW c \in Requests, M!Alloc(c)
    PROVE  /\ MallocInv' /\ up /\ <<M!NewBlock, 0>> \in Addr /\ TrueWords(c) \in Nat
           /\ ClearOf(<<M!NewBlock, 0>>, TrueWords(c), held, ChainScopes(chains))
           /\ held' = Put(<<M!NewBlock, 0>>, Counted(c), held) /\ UNCHANGED <<chains, up>>
<1> DEFINE b == M!NewBlock  p == <<b, 0>>
<1>1. /\ up /\ ~Overflows(c) /\ M!Unused # {} /\ blocks' = blocks \cup {b}
      /\ held' = Put(p, Counted(c), held) /\ stats' = Spent(stats, c)
      /\ phys' = phys + Bytes(c) /\ UNCHANGED <<chains, up>>
  BY SameWords, SameCells DEF M!Alloc, Spent
<1>2. /\ b \in 1 .. MaxBlocks /\ b \notin blocks /\ ~IsHeld(held, b) /\ ~IsLinked(chains, b) /\ p \in Addr
  BY <1>1, MallocFresh
<1>3. ClearOf(p, TrueWords(c), held, ChainScopes(chains))
  BY <1>1, MallocClear
<1>4. p[1] = b /\ p[2] = 0 /\ p \notin DOMAIN held
  BY <1>2 DEF IsHeld
<1> HIDE DEF b
<1>5. Bytes(c) = Word * TrueWords(c) /\ TrueWords(c) \in Nat /\ TrueWords(Counted(c)) = TrueWords(c)
  BY <1>1, Asked, BytesExact, ShapeAlone
<1>6. HeldShape /\ Bulk(held) /\ OneOwner(held, chains, blocks) /\ ChainFigures /\ Weighed
      /\ chains \in Seq(Link) /\ Apart(chains) /\ Len(chains) <= MaxDepth
  BY HeldBulk DEF MallocInv
<1>7. HeldShape' /\ DOMAIN held' = DOMAIN held \cup {p}
  <2>1. Stamped(p, c)
    BY <1>1 DEF Stamped
  <2>2. QED
    BY <1>2, <1>4, <1>6, <2>1, StampHeld
<1>8. OneOwner(held', chains, blocks')
  <2>1. \A x : IsHeld(held', x) <=> IsHeld(held, x) \/ x = b
    BY <1>7 DEF IsHeld
  <2>2. DOMAIN held' \subseteq (1 .. MaxBlocks) \X {0}
    BY <1>2, <1>6, <1>7 DEF OneOwner
  <2>3. blocks = {x \in 1 .. MaxBlocks : IsHeld(held, x) \/ IsLinked(chains, x)}
    BY <1>6 DEF OneOwner
  <2>4. blocks' = {x \in 1 .. MaxBlocks : IsHeld(held', x) \/ IsLinked(chains, x)}
    BY <1>1, <1>2, <2>1, <2>3
  <2>5. \A x \in blocks' : ~(IsHeld(held', x) /\ IsLinked(chains, x))
    BY <1>1, <1>2, <1>6, <2>1 DEF OneOwner
  <2>6. QED
    BY <2>2, <2>4, <2>5 DEF OneOwner
<1>9. FiguresOf(stats', held', ChainScopes(chains), chains)
  <2>1. FiguresOf(stats, held, ChainScopes(chains), chains)
    BY <1>1, <1>6 DEF ChainFigures
  <2>2. QED
    BY <1>1, <1>4, <1>6, <2>1, StampCounts
<1>10. phys' = BytesHeld(held') + ChainSum(chains)
  <2>1. BytesHeld(held') = BytesHeld(held) + Bytes(c) /\ BytesHeld(held) \in Nat
    BY <1>1, <1>4, <1>5, <1>6, BytesPut
  <2>2. ChainSum(chains) \in Nat
    BY <1>6, ChainSumOther
  <2>3. Bytes(c) \in Nat
    BY <1>5 DEF Word
  <2>4. phys = BytesHeld(held) + ChainSum(chains) /\ phys' = phys + Bytes(c)
    BY <1>1, <1>6 DEF Weighed
  <2>5. QED
    BY <2>1, <2>2, <2>3, <2>4
<1>11. Mapping(held')
  <2>1. Mapping(Put(p, Counted(c), held))
    BY DEF Mapping, Put
  <2>2. QED
    BY <1>1, <2>1
<1>12. MallocInv'
  BY <1>1, <1>6, <1>7, <1>8, <1>9, <1>10, <1>11 DEF MallocInv, ChainFigures, FiguresOf, Weighed, Mapping
<1>13. QED
  BY <1>1, <1>2, <1>3, <1>5, <1>12 DEF b

\* A cell changes in place for another of its size.
LEMMA MallocInPlace ==
    ASSUME MallocInv, NEW p \in DOMAIN held, NEW x \in HeldCell, Askable(ShapeOf(x)),
           TrueWords(x) = TrueWords(held[p]), held' = [held EXCEPT ![p] = x],
           UNCHANGED <<chains, stats, up, blocks, phys>>
    PROVE  MallocInv'
<1>1. /\ DOMAIN held' = DOMAIN held /\ held'[p] = x
      /\ \A q \in DOMAIN held : q # p => held'[q] = held[q]
  OBVIOUS
<1>2. HeldShape /\ Bulk(held) /\ OneOwner(held, chains, blocks) /\ ChainFigures /\ Weighed
      /\ chains \in Seq(Link) /\ Apart(chains) /\ Len(chains) <= MaxDepth
  BY HeldBulk DEF MallocInv
<1>3. HeldShape'
  <2>1. \A q \in DOMAIN held : q[2] = 0
    BY <1>2 DEF OneOwner
  <2>2. QED
    BY <1>1, <1>2, <2>1 DEF HeldShape
<1>4. OneOwner(held', chains, blocks)
  BY <1>1, <1>2 DEF OneOwner, IsHeld
<1>5. BytesHeld(held') = BytesHeld(held)
  <2>1. \A q \in DOMAIN held : TrueWords(held'[q]) = TrueWords(held[q])
    BY <1>1
  <2>2. QED
    BY <1>1, <1>2, <2>1, BytesStill
<1>6. ChainFigures'
  BY <1>1, <1>2, <1>5 DEF ChainFigures, FiguresOf
<1>7. Weighed'
  BY <1>2, <1>5 DEF Weighed
<1>8. Mapping(held')
  <2>1. held' = [q \in DOMAIN held |-> IF q = p THEN x ELSE held[q]]
    OBVIOUS
  <2>2. Mapping([q \in DOMAIN held |-> IF q = p THEN x ELSE held[q]])
    BY DEF Mapping
  <2>3. QED
    BY <2>1, <2>2
<1>9. QED
  BY <1>2, <1>3, <1>4, <1>6, <1>7, <1>8 DEF MallocInv, Mapping

LEMMA MallocCounts ==
    ASSUME MallocInv, NEW p \in DOMAIN held, M!Dup(p) \/ M!Dec(p)
    PROVE  /\ MallocInv' /\ up /\ UNCHANGED <<chains, stats, up>> /\ held[p].rc \in Nat \ {0}
           /\ \E rc \in 0 .. held[p].rc + 1 :
                 rc \in {held[p].rc - 1, held[p].rc + 1} /\ held' = [held EXCEPT ![p].rc = rc]
<1>1. /\ held[p] \in HeldCell /\ Askable(ShapeOf(held[p])) /\ held[p].rc \in 0 .. MaxRc /\ MaxRc \in Nat
  BY SlabAssumption DEF MallocInv, HeldShape, HeldCell, SlabAssumption
<1>2. PICK rc : /\ M!SetRc(p, rc) /\ rc \in {held[p].rc - 1, held[p].rc + 1}
                /\ (rc = held[p].rc + 1 => held[p].rc < MaxRc)
  <2>1. CASE M!Dup(p)
    BY <2>1 DEF M!Dup
  <2>2. CASE M!Dec(p)
    <3>1. M!SetRc(p, held[p].rc - 1) /\ held[p].rc - 1 # held[p].rc + 1
      BY <1>1, <2>2 DEF M!Dec
    <3>2. QED
      BY <3>1
  <2>3. QED
    BY <2>1, <2>2
<1>3. /\ up /\ held[p].rc > 0 /\ held' = [held EXCEPT ![p].rc = rc]
      /\ UNCHANGED <<chains, stats, up, blocks, phys>>
  BY <1>2 DEF M!SetRc
<1>4. rc \in 0 .. MaxRc /\ rc \in 0 .. held[p].rc + 1 /\ held[p].rc \in Nat \ {0}
  BY <1>1, <1>2, <1>3
<1> DEFINE x == Recounted(p, rc)
<1>5. held[p] = [kind |-> held[p].kind, n |-> held[p].n, rc |-> held[p].rc]
  BY <1>1 DEF HeldCell
<1>6. /\ x \in HeldCell /\ ShapeOf(x) = ShapeOf(held[p])
      /\ x = [held[p] EXCEPT !.rc = rc]
  BY <1>1, <1>4, <1>5 DEF Recounted, HeldCell, ShapeOf
<1>7. held' = [held EXCEPT ![p] = x]
  BY <1>3, <1>6
<1> HIDE DEF x
<1>8. TrueWords(x) = TrueWords(held[p])
  <2>1. TrueWords(ShapeOf(x)) = TrueWords(x) /\ TrueWords(ShapeOf(held[p])) = TrueWords(held[p])
    BY ShapeAlone
  <2>2. QED
    BY <1>6, <2>1
<1>9. Askable(ShapeOf(x))
  BY <1>1, <1>6
<1>10. MallocInv'
  BY <1>3, <1>6, <1>7, <1>8, <1>9, MallocInPlace
<1>11. QED
  BY <1>2, <1>3, <1>4, <1>10

LEMMA MallocShell ==
    ASSUME MallocInv, NEW c \in Requests, NEW p \in DOMAIN held, M!AllocAt(p, c)
    PROVE  /\ MallocInv' /\ up /\ held[p].rc = 0 /\ TrueWords(Counted(c)) = TrueWords(held[p])
           /\ held' = [held EXCEPT ![p] = Counted(c)] /\ UNCHANGED <<chains, stats, up>>
<1>1. /\ up /\ c.kind = "con" /\ held[p].kind = "con" /\ held[p].rc = 0 /\ held[p].n = c.n
      /\ held' = [held EXCEPT ![p] = Counted(c)] /\ UNCHANGED <<chains, stats, up, blocks, phys>>
  BY SameWords DEF M!AllocAt
<1>2. c \in ArenaShapes
  BY <1>1 DEF ArenaShapes
<1>3. Counted(c) \in HeldCell /\ Askable(ShapeOf(Counted(c)))
  BY <1>2, ArenaWords, Asked
<1>4. TrueWords(Counted(c)) = TrueWords(held[p])
  <2>1. TrueWords(Counted(c)) = 1 + c.n /\ TrueWords(held[p]) = 1 + c.n
    BY <1>1 DEF Counted, TrueWords, ByteBlocks
  <2>2. QED
    BY <2>1
<1>5. QED
  BY <1>1, <1>3, <1>4, MallocInPlace

LEMMA MallocFree ==
    ASSUME MallocInv, NEW p \in DOMAIN held, M!Free(p)
    PROVE  /\ MallocInv' /\ up /\ held[p].rc = 0 /\ held' = Restrict(held, DOMAIN held \ {p})
           /\ UNCHANGED <<chains, up>>
<1>1. /\ up /\ held[p].rc = 0 /\ held' = Restrict(held, DOMAIN held \ {p})
      /\ blocks' = blocks \ {p[1]} /\ stats' = Regained(stats, held[p])
      /\ phys' = phys - Bytes(held[p]) /\ UNCHANGED <<chains, up>>
  BY SameWords, SameCells DEF M!Free, Regained
<1>2. HeldShape /\ Bulk(held) /\ OneOwner(held, chains, blocks) /\ ChainFigures /\ Weighed
      /\ chains \in Seq(Link) /\ Apart(chains) /\ Len(chains) <= MaxDepth
  BY HeldBulk DEF MallocInv
<1>3. DOMAIN held' = DOMAIN held \ {p} /\ \A q \in DOMAIN held' : held'[q] = held[q]
  BY <1>1 DEF Restrict
<1>4. HeldShape'
  <2>1. IsFiniteSet(DOMAIN held')
    BY <1>2, <1>3, FS_Subset DEF HeldShape
  <2>2. QED
    BY <1>2, <1>3, <2>1 DEF HeldShape
<1>5. OneOwner(held', chains, blocks')
  <2>1. p = <<p[1], 0>> /\ p[1] \in 1 .. MaxBlocks /\ IsHeld(held, p[1])
    <3>1. p \in (1 .. MaxBlocks) \X {0}
      BY <1>2 DEF OneOwner
    <3>2. QED
      BY <3>1 DEF IsHeld
  <2>2. ~IsLinked(chains, p[1])
    BY <1>2, <2>1 DEF OneOwner
  <2>3. \A x : IsHeld(held', x) <=> IsHeld(held, x) /\ x # p[1]
    BY <1>3, <2>1 DEF IsHeld
  <2>4. blocks = {x \in 1 .. MaxBlocks : IsHeld(held, x) \/ IsLinked(chains, x)}
    BY <1>2 DEF OneOwner
  <2>5. blocks' = {x \in 1 .. MaxBlocks : IsHeld(held', x) \/ IsLinked(chains, x)}
    BY <1>1, <2>2, <2>3, <2>4
  <2>6. \A x \in blocks' : ~(IsHeld(held', x) /\ IsLinked(chains, x))
    BY <1>1, <1>2, <2>3 DEF OneOwner
  <2>7. DOMAIN held' \subseteq (1 .. MaxBlocks) \X {0}
    BY <1>2, <1>3 DEF OneOwner
  <2>8. QED
    BY <2>5, <2>6, <2>7 DEF OneOwner
<1>6. Bytes(held[p]) = Word * TrueWords(held[p])
  BY <1>2, HeldBulk
<1>7. FiguresOf(stats', held', ChainScopes(chains), chains)
  <2>1. FiguresOf(stats, held, ChainScopes(chains), chains)
    BY <1>1, <1>2 DEF ChainFigures
  <2>2. QED
    BY <1>1, <1>2, <1>6, <2>1, FreeCounts
<1>8. phys' = BytesHeld(held') + ChainSum(chains)
  <2>1. BytesHeld(held') = BytesHeld(held) - Bytes(held[p]) /\ BytesHeld(held) \in Nat
    BY <1>1, <1>2, <1>6, BytesTake
  <2>2. ChainSum(chains) \in Nat
    BY <1>2, ChainSumOther
  <2>3. Bytes(held[p]) \in Nat
    BY <1>2, <1>6, HeldBulk DEF Word
  <2>4. phys = BytesHeld(held) + ChainSum(chains) /\ phys' = phys - Bytes(held[p])
    BY <1>1, <1>2 DEF Weighed
  <2>5. QED
    BY <2>1, <2>2, <2>3, <2>4
<1>9. Mapping(held')
  <2>1. Mapping(Restrict(held, DOMAIN held \ {p}))
    BY DEF Mapping, Restrict
  <2>2. QED
    BY <1>1, <2>1
<1>10. MallocInv'
  BY <1>1, <1>2, <1>4, <1>5, <1>7, <1>8, <1>9 DEF MallocInv, ChainFigures, FiguresOf, Weighed, Mapping
<1>11. QED
  BY <1>1, <1>10

LEMMA MallocOpen ==
    ASSUME MallocInv, M!ArenaOpen
    PROVE  /\ MallocInv' /\ up /\ Len(ChainScopes(chains)) < MaxDepth
           /\ ChainScopes(chains') = Append(ChainScopes(chains), <<>>) /\ UNCHANGED <<held, stats, up>>
<1> DEFINE f == [chain |-> <<>>, bytes |-> stats.arena]
<1>1. /\ up /\ Len(chains) < MaxDepth /\ chains' = Append(chains, f)
      /\ UNCHANGED <<held, stats, up, blocks, phys>>
  BY DEF M!ArenaOpen
<1>2. HeldShape /\ Mapping(held) /\ OneOwner(held, chains, blocks) /\ ChainFigures /\ Weighed
      /\ chains \in Seq(Link) /\ Apart(chains) /\ Len(chains) <= MaxDepth
  BY DEF MallocInv
<1>3. stats.arena \in Nat
  BY <1>2 DEF ChainFigures
<1>4. /\ f \in Link /\ chains' \in Seq(Link) /\ Apart(chains') /\ Len(chains') = Len(chains) + 1
      /\ ChainScopes(chains') = Append(ChainScopes(chains), <<>>)
      /\ ChainSum(chains') = ChainSum(chains) /\ ChainSum(chains) \in Nat
      /\ \A k \in DOMAIN chains : k \in DOMAIN chains' /\ chains'[k] = chains[k]
      /\ \A k \in DOMAIN chains' : (k \in DOMAIN chains /\ chains'[k] = chains[k]) \/ chains'[k].chain = <<>>
  BY <1>1, <1>2, <1>3, OpenLink
<1>5. f.bytes = stats.arena
  OBVIOUS
<1> HIDE DEF f
<1>6. /\ ChainScopes(chains) \in Seq(Scope) /\ Len(ChainScopes(chains)) = Len(chains)
  BY <1>2, ChainsRead
<1>7. FiguresOf(stats', held', ChainScopes(chains'), chains')
  <2>1. FiguresOf(stats, held, ChainScopes(chains), chains)
    BY <1>1, <1>2 DEF ChainFigures
  <2>2. FiguresOf(stats, held, Append(ChainScopes(chains), <<>>), Append(chains, f))
    BY <1>2, <1>4, <1>5, <1>6, <2>1, OpenCounts
  <2>3. QED
    BY <1>1, <1>4, <2>2
<1>8. OneOwner(held', chains', blocks')
  <2>1. \A x : IsLinked(chains', x) <=> IsLinked(chains, x)
    <3>1. Ats(<<>>) = {}
      BY DEF Ats
    <3>2. QED
      BY <1>4, <3>1 DEF IsLinked
  <2>2. QED
    BY <1>1, <1>2, <2>1 DEF OneOwner
<1>9. Len(chains') <= MaxDepth
  <2>1. Len(chains) \in Nat /\ MaxDepth \in Nat
    BY <1>2, SlabAssumption DEF SlabAssumption
  <2>2. QED
    BY <1>1, <1>4, <2>1
<1>10. HeldShape' /\ Mapping(held') /\ Weighed'
  BY <1>1, <1>2, <1>4 DEF HeldShape, Mapping, Weighed
<1>11. ChainFigures'
  BY <1>1, <1>7 DEF ChainFigures, FiguresOf
<1>12. QED
  BY <1>1, <1>4, <1>6, <1>8, <1>9, <1>10, <1>11 DEF MallocInv, Mapping

LEMMA BytesType == ASSUME NEW f, Bulk(f) PROVE BytesHeld(f) \in Nat
  BY BytesOther

LEMMA MallocArenaAlloc ==
    ASSUME MallocInv, NEW c \in Requests, M!ArenaAlloc(c)
    PROVE  /\ MallocInv' /\ up /\ ChainScopes(chains) # <<>> /\ <<M!NewBlock, 1>> \in Addr
           /\ TrueWords(c) \in Nat
           /\ ClearOf(<<M!NewBlock, 1>>, TrueWords(c), held, ChainScopes(chains))
           /\ ChainScopes(chains') = Deeper(ChainScopes(chains), <<M!NewBlock, 1>>, c)
           /\ UNCHANGED <<held, up>>
<1> DEFINE b == M!NewBlock  p == <<b, 1>>  e == [at |-> p, cell |-> c]
<1>1. /\ up /\ chains # <<>> /\ c \in ArenaShapes /\ M!Unused # {} /\ blocks' = blocks \cup {b}
      /\ chains' = Pushed(chains, e) /\ stats' = Marked(stats, c)
      /\ phys' = phys + Word + Bytes(c) /\ UNCHANGED <<held, up>>
  BY SameWords DEF M!ArenaAlloc, M!Prefix, ArenaShapes, Pushed, Marked
<1>2. /\ b \in 1 .. MaxBlocks /\ b \notin blocks /\ ~IsHeld(held, b) /\ ~IsLinked(chains, b) /\ p \in Addr
      /\ \A k \in DOMAIN chains : \A q \in Ats(chains[k].chain) : q[1] # b
  BY <1>1, MallocFresh
<1>3. ClearOf(p, TrueWords(c), held, ChainScopes(chains))
  BY <1>1, MallocClear
<1> HIDE DEF b
<1>4. /\ HeldShape /\ Mapping(held) /\ OneOwner(held, chains, blocks) /\ ChainFigures /\ Weighed
      /\ chains \in Seq(Link) /\ Apart(chains) /\ Len(chains) <= MaxDepth /\ Bulk(held)
  BY HeldBulk DEF MallocInv
<1>5. /\ TrueWords(c) \in Nat /\ Bytes(c) = Word * TrueWords(c)
  BY <1>1, ArenaWords
<1>6. e \in Entry /\ e.at = p /\ e.cell = c
  BY <1>1, <1>2 DEF Entry
<1>7. \A k \in DOMAIN chains : p \notin Ats(chains[k].chain)
  BY <1>2
<1> HIDE DEF e
<1>8. /\ chains' \in Seq(Link) /\ Apart(chains') /\ Len(chains') = Len(chains)
      /\ DOMAIN chains' = DOMAIN chains /\ Len(chains) \in DOMAIN chains
      /\ \A k \in DOMAIN chains : chains'[k].bytes = chains[k].bytes
      /\ \A k \in DOMAIN chains : k # Len(chains) => chains'[k] = chains[k]
      /\ Ats(chains'[Len(chains)].chain) = Ats(chains[Len(chains)].chain) \cup {p}
      /\ ChainScopes(chains') = Deeper(ChainScopes(chains), p, c)
      /\ ChainSum(chains) \in Nat /\ ChainSum(chains') = ChainSum(chains) + (Word + Bytes(c))
  <2>1. \A k \in DOMAIN chains : e.at \notin Ats(chains[k].chain)
    BY <1>6, <1>7
  <2> DEFINE t == Pushed(chains, e)
  <2>2. /\ t \in Seq(Link) /\ Apart(t) /\ Len(t) = Len(chains)
        /\ DOMAIN t = DOMAIN chains /\ Len(chains) \in DOMAIN chains
        /\ \A k \in DOMAIN chains : t[k].bytes = chains[k].bytes
        /\ \A k \in DOMAIN chains : k # Len(chains) => t[k] = chains[k]
        /\ Ats(t[Len(chains)].chain) = Ats(chains[Len(chains)].chain) \cup {e.at}
        /\ ChainScopes(t) = Deeper(ChainScopes(chains), e.at, e.cell)
        /\ ChainSum(chains) \in Nat /\ ChainSum(t) = ChainSum(chains) + (Word + Bytes(e.cell))
    BY <1>1, <1>4, <1>6, <2>1, PushLink
  <2>3. chains' = t
    BY <1>1
  <2> HIDE DEF t
  <2>4. QED
    BY <1>6, <2>2, <2>3
<1>9. /\ ChainScopes(chains) \in Seq(Scope) /\ Len(ChainScopes(chains)) = Len(chains)
      /\ DOMAIN ChainScopes(chains) = DOMAIN chains
      /\ \A k \in DOMAIN chains : DOMAIN ChainScopes(chains)[k] = Ats(chains[k].chain)
  BY <1>4, ChainsRead
<1>10. ChainScopes(chains) # <<>> /\ p \notin DOMAIN ChainScopes(chains)[Len(ChainScopes(chains))]
  <2>1. Len(chains) \in DOMAIN chains /\ Len(ChainScopes(chains)) = Len(chains)
    BY <1>8, <1>9
  <2>2. DOMAIN ChainScopes(chains)[Len(chains)] = Ats(chains[Len(chains)].chain)
    BY <1>9, <2>1
  <2>3. ChainScopes(chains) # <<>>
    BY <1>9, <2>1
  <2>4. QED
    BY <1>7, <2>1, <2>2, <2>3
<1>11. FiguresOf(stats', held', ChainScopes(chains'), chains')
  <2>1. FiguresOf(stats, held, ChainScopes(chains), chains)
    BY <1>1, <1>4 DEF ChainFigures
  <2>2. FiguresOf(Marked(stats, c), held, Deeper(ChainScopes(chains), p, c), chains')
    BY <1>1, <1>2, <1>8, <1>9, <1>10, <2>1, ArenaCounts
  <2>3. QED
    BY <1>1, <1>8, <2>2
<1>12. OneOwner(held', chains', blocks')
  <2>1. \A x : IsLinked(chains', x) <=> (IsLinked(chains, x) \/ x = b)
    <3>1. ASSUME NEW x, NEW k \in DOMAIN chains, <<x, 1>> \in Ats(chains'[k].chain)
          PROVE  IsLinked(chains, x) \/ x = b
      BY <1>8, <3>1 DEF IsLinked
    <3>2. ASSUME NEW x, NEW k \in DOMAIN chains, <<x, 1>> \in Ats(chains[k].chain)
          PROVE  IsLinked(chains', x)
      BY <1>8, <3>2 DEF IsLinked
    <3>3. IsLinked(chains', b)
      BY <1>8 DEF IsLinked
    <3>4. QED
      BY <1>8, <3>1, <3>2, <3>3 DEF IsLinked
  <2>2. blocks = {x \in 1 .. MaxBlocks : IsHeld(held, x) \/ IsLinked(chains, x)}
    BY <1>4 DEF OneOwner
  <2>3. blocks' = {x \in 1 .. MaxBlocks : IsHeld(held, x) \/ IsLinked(chains', x)}
    BY <1>1, <1>2, <2>1, <2>2
  <2>4. \A x \in blocks' : ~(IsHeld(held, x) /\ IsLinked(chains', x))
    BY <1>1, <1>2, <1>4, <2>1 DEF OneOwner
  <2>5. DOMAIN held' \subseteq (1 .. MaxBlocks) \X {0}
    BY <1>1, <1>4 DEF OneOwner
  <2>6. QED
    BY <1>1, <2>3, <2>4, <2>5 DEF OneOwner
<1>13. phys' = BytesHeld(held') + ChainSum(chains')
  <2>1. BytesHeld(held) \in Nat
    BY <1>4, BytesType
  <2>2. Bytes(c) \in Nat /\ Word \in Nat
    BY <1>5 DEF Word
  <2>3. phys = BytesHeld(held) + ChainSum(chains)
    BY <1>4 DEF Weighed
  <2>4. QED
    BY <1>1, <1>8, <2>1, <2>2, <2>3
<1>14. HeldShape' /\ Mapping(held')
  BY <1>1, <1>4 DEF HeldShape, Mapping
<1>15. MallocInv'
  BY <1>1, <1>4, <1>8, <1>11, <1>12, <1>13, <1>14 DEF MallocInv, ChainFigures, FiguresOf, Weighed, Mapping
<1>16. QED
  BY <1>1, <1>2, <1>3, <1>5, <1>8, <1>10, <1>15 DEF b

LEMMA MallocClose ==
    ASSUME MallocInv, M!ArenaClose
    PROVE  /\ MallocInv' /\ up /\ ChainScopes(chains) # <<>>
           /\ ChainScopes(chains') = Front(ChainScopes(chains)) /\ UNCHANGED <<held, up>>
<1> DEFINE n == Len(chains)  f == chains[n]
<1>1. /\ up /\ chains # <<>> /\ chains' = Front(chains) /\ stats' = [stats EXCEPT !.arena = f.bytes]
      /\ blocks' = blocks \ M!ChainBlocks(f) /\ phys' = phys - Weight(f.chain) /\ UNCHANGED <<held, up>>
  BY ChainRead DEF M!ArenaClose, Front
<1>2. /\ HeldShape /\ Mapping(held) /\ OneOwner(held, chains, blocks) /\ ChainFigures /\ Weighed
      /\ chains \in Seq(Link) /\ Apart(chains) /\ Len(chains) <= MaxDepth /\ Bulk(held)
  BY HeldBulk DEF MallocInv
<1>3. /\ chains' \in Seq(Link) /\ Apart(chains') /\ Len(chains') = n - 1
      /\ n \in DOMAIN chains /\ DOMAIN chains' = DOMAIN chains \ {n}
      /\ \A k \in DOMAIN chains' : chains'[k] = chains[k]
      /\ ChainScopes(chains') = Front(ChainScopes(chains))
      /\ ChainSum(chains) \in Nat /\ ChainSum(chains') = ChainSum(chains) - Weight(f.chain)
  BY <1>1, <1>2, CloseLink
<1>4. /\ ChainScopes(chains) \in Seq(Scope) /\ Len(ChainScopes(chains)) = n
      /\ DOMAIN ChainScopes(chains) = DOMAIN chains
  BY <1>2, ChainsRead
<1>5. ChainScopes(chains) # <<>> /\ f.chain \in Seq(Entry) /\ f.bytes \in Nat
  BY <1>2, <1>3, <1>4, LinkIs
<1> HIDE DEF n, f
<1>6. FiguresOf(stats', held', ChainScopes(chains'), chains')
  <2>1. FiguresOf(stats, held, ChainScopes(chains), chains)
    BY <1>1, <1>2 DEF ChainFigures
  <2>2. Len(chains) = Len(ChainScopes(chains)) /\ chains[Len(chains)].bytes \in Nat
    BY <1>4, <1>5 DEF n, f
  <2>3. FiguresOf([stats EXCEPT !.arena = chains[Len(chains)].bytes], held,
                  Front(ChainScopes(chains)), Front(chains))
    BY <1>2, <1>4, <1>5, <2>1, <2>2, CloseCounts
  <2>4. QED
    BY <1>1, <1>3, <2>3 DEF n, f
<1>7. OneOwner(held', chains', blocks')
  <2>1. ASSUME NEW x PROVE x \in M!ChainBlocks(f) <=> <<x, 1>> \in Ats(f.chain)
    <3>1. \A i \in DOMAIN f.chain : f.chain[i].at = <<f.chain[i].at[1], 1>>
      <4>1. \A i \in DOMAIN f.chain : f.chain[i].at \in Ats(f.chain)
        BY DEF Ats
      <4>2. QED
        BY <1>5, <4>1, AtIs
    <3>2. QED
      BY <3>1 DEF M!ChainBlocks, Ats
  <2>2. \A x : IsLinked(chains', x) <=> (IsLinked(chains, x) /\ <<x, 1>> \notin Ats(f.chain))
    <3>1. \A k \in DOMAIN chains : k # n => Ats(chains[k].chain) \cap Ats(f.chain) = {}
      BY <1>2, <1>3, ApartIs DEF f
    <3>2. \A x : IsLinked(chains', x) => (IsLinked(chains, x) /\ <<x, 1>> \notin Ats(f.chain))
      BY <1>3, <3>1 DEF IsLinked
    <3>3. \A x : (IsLinked(chains, x) /\ <<x, 1>> \notin Ats(f.chain)) => IsLinked(chains', x)
      BY <1>3 DEF IsLinked, f
    <3>4. QED
      BY <3>2, <3>3
  <2>3. blocks = {x \in 1 .. MaxBlocks : IsHeld(held, x) \/ IsLinked(chains, x)}
    BY <1>2 DEF OneOwner
  <2>4. \A x : x \in M!ChainBlocks(f) => IsLinked(chains, x)
    BY <1>3, <2>1 DEF IsLinked, f
  <2>5. ASSUME NEW x \in blocks, IsHeld(held, x) PROVE x \notin M!ChainBlocks(f)
    BY <1>2, <2>4, <2>5 DEF OneOwner
  <2>6. blocks' = {x \in 1 .. MaxBlocks : IsHeld(held, x) \/ IsLinked(chains', x)}
    BY <1>1, <2>1, <2>2, <2>3, <2>5
  <2>7. \A x \in blocks' : ~(IsHeld(held, x) /\ IsLinked(chains', x))
    BY <1>1, <1>2, <2>2 DEF OneOwner
  <2>8. DOMAIN held' \subseteq (1 .. MaxBlocks) \X {0}
    BY <1>1, <1>2 DEF OneOwner
  <2>9. QED
    BY <1>1, <2>6, <2>7, <2>8 DEF OneOwner
<1>8. phys' = BytesHeld(held') + ChainSum(chains')
  <2>1. BytesHeld(held) \in Nat
    BY <1>2, BytesType
  <2>2. phys = BytesHeld(held) + ChainSum(chains)
    BY <1>2 DEF Weighed
  <2>3. Weight(f.chain) \in Nat
    BY <1>5, WeightType
  <2>4. QED
    BY <1>1, <1>3, <2>1, <2>2, <2>3
<1>9. HeldShape' /\ Mapping(held')
  BY <1>1, <1>2 DEF HeldShape, Mapping
<1>10. Len(chains') <= MaxDepth
  <2>1. n \in Nat /\ MaxDepth \in Nat
    BY <1>2, SlabAssumption DEF SlabAssumption, n
  <2>2. QED
    BY <1>2, <1>3, <2>1 DEF n
<1>11. MallocInv'
  BY <1>1, <1>3, <1>6, <1>7, <1>8, <1>9, <1>10 DEF MallocInv, ChainFigures, FiguresOf, Weighed, Mapping
<1>12. QED
  BY <1>1, <1>3, <1>5, <1>11

LEMMA NoChains == ChainScopes(<<>>) = <<>> /\ ChainSum(<<>>) = 0 /\ <<>> \in Seq(Link) /\ Apart(<<>>)
<1>1. DOMAIN <<>> = {}
  OBVIOUS
<1>2. ChainScopes(<<>>) = <<>> /\ Apart(<<>>)
  BY <1>1 DEF ChainScopes, Apart
<1>3. DOMAIN [i \in DOMAIN <<>> |-> Weight(<<>>[i].chain)] = {}
  BY <1>1
<1>4. ChainSum(<<>>) = 0
  BY <1>3, SumEmpty DEF ChainSum
<1>5. QED
  BY <1>2, <1>4

\* The blocks of the chains, as the invariant names them.
LEMMA LinkedBlocks ==
    ASSUME MallocInv
    PROVE  /\ UNION {M!ChainBlocks(chains[k]) : k \in DOMAIN chains} = {b \in 1 .. MaxBlocks : IsLinked(chains, b)}
           /\ {p[1] : p \in DOMAIN held} = {b \in 1 .. MaxBlocks : IsHeld(held, b)}
<1>1. ASSUME NEW k \in DOMAIN chains, NEW x
      PROVE  x \in M!ChainBlocks(chains[k]) <=> (x \in 1 .. MaxBlocks /\ <<x, 1>> \in Ats(chains[k].chain))
  <2>1. \A i \in DOMAIN chains[k].chain : /\ chains[k].chain[i].at = <<chains[k].chain[i].at[1], 1>>
                                         /\ chains[k].chain[i].at[1] \in 1 .. MaxBlocks
    <3>1. chains[k].chain \in Seq(Entry)
      BY LinkIs DEF MallocInv
    <3>2. \A i \in DOMAIN chains[k].chain : chains[k].chain[i].at \in Ats(chains[k].chain)
      BY DEF Ats
    <3>3. QED
      BY <3>1, <3>2, AtIs
  <2>2. QED
    BY <2>1 DEF M!ChainBlocks, Ats
<1>2. \A x : x \in UNION {M!ChainBlocks(chains[k]) : k \in DOMAIN chains}
               <=> (x \in 1 .. MaxBlocks /\ IsLinked(chains, x))
  BY <1>1 DEF IsLinked
<1>3. \A p \in DOMAIN held : p = <<p[1], 0>> /\ p[1] \in 1 .. MaxBlocks
  BY DEF MallocInv, OneOwner
<1>4. QED
  BY <1>2, <1>3 DEF IsHeld

\* Nothing is lost and nothing freed twice, and the figure is exact.
LEMMA MallocOwned == ASSUME MallocInv PROVE M!BlocksOwned /\ M!PhysicalExact
<1>1. blocks = {b \in 1 .. MaxBlocks : IsHeld(held, b) \/ IsLinked(chains, b)}
  BY DEF MallocInv, OneOwner
<1>2. M!BlocksOwned
  BY <1>1, LinkedBlocks DEF M!BlocksOwned
<1>3. M!BytesHeld(held) = BytesHeld(held)
  BY SameCells
<1>4. M!PhysicalExact
  BY <1>3, WeighedIs DEF MallocInv, Weighed, M!PhysicalExact
<1>5. QED
  BY <1>2, <1>4

LEMMA MallocTearDown ==
    ASSUME MallocInv, M!HeapFree
    PROVE  /\ MallocInv' /\ up /\ up' = FALSE /\ ChainScopes(chains') = <<>> /\ UNCHANGED <<held, stats>>
           /\ held' = Restrict(held, DOMAIN held)
<1>1. /\ up /\ up' = FALSE /\ chains' = <<>> /\ UNCHANGED <<held, stats>>
      /\ blocks' = blocks \ UNION {M!ChainBlocks(chains[k]) : k \in DOMAIN chains}
      /\ phys' = phys - ChainSum(chains)
  BY WeighedIs DEF M!HeapFree
<1>2. /\ HeldShape /\ Mapping(held) /\ OneOwner(held, chains, blocks) /\ ChainFigures /\ Weighed
      /\ chains \in Seq(Link) /\ Apart(chains) /\ Len(chains) <= MaxDepth /\ Bulk(held)
  BY HeldBulk DEF MallocInv
<1>3. held' = Restrict(held, DOMAIN held)
  BY <1>1, <1>2 DEF Mapping, Restrict
<1>4. OneOwner(held', chains', blocks')
  <2>1. \A x : ~IsLinked(chains', x)
    BY <1>1 DEF IsLinked
  <2>2. blocks' = {x \in 1 .. MaxBlocks : IsHeld(held, x)}
    <3>1. UNION {M!ChainBlocks(chains[k]) : k \in DOMAIN chains} = {b \in 1 .. MaxBlocks : IsLinked(chains, b)}
      BY LinkedBlocks
    <3>2. blocks = {x \in 1 .. MaxBlocks : IsHeld(held, x) \/ IsLinked(chains, x)}
      BY <1>2 DEF OneOwner
    <3>3. \A x \in blocks : ~(IsHeld(held, x) /\ IsLinked(chains, x))
      BY <1>2 DEF OneOwner
    <3>4. QED
      BY <1>1, <3>1, <3>2, <3>3
  <2>3. QED
    BY <1>1, <1>2, <2>1, <2>2 DEF OneOwner
<1>5. phys' = BytesHeld(held') + ChainSum(chains')
  <2>1. BytesHeld(held) \in Nat /\ ChainSum(chains) \in Nat
    BY <1>2, BytesType, ChainSumOther
  <2>2. phys = BytesHeld(held) + ChainSum(chains) /\ ChainSum(<<>>) = 0
    BY <1>2, NoChains DEF Weighed
  <2>3. QED
    BY <1>1, <2>1, <2>2
<1>6. HeldShape' /\ Mapping(held') /\ ChainFigures'
  BY <1>1, <1>2 DEF HeldShape, Mapping, ChainFigures
<1>7. chains' \in Seq(Link) /\ Apart(chains') /\ Len(chains') <= MaxDepth
  BY <1>1, NoChains, SlabAssumption DEF SlabAssumption
<1>8. MallocInv'
  BY <1>4, <1>5, <1>6, <1>7 DEF MallocInv, Weighed, Mapping
<1>9. QED
  BY <1>1, <1>3, <1>8, NoChains

LEMMA MallocInit == M!Init => MallocInv
<1> SUFFICES ASSUME M!Init PROVE MallocInv
  OBVIOUS
<1>1. /\ held = <<>> /\ chains = <<>> /\ up = TRUE /\ stats = [live |-> 0, bytes |-> 0, arena |-> 0]
      /\ blocks = {} /\ phys = 0
  BY DEF M!Init
<1>2. DOMAIN held = {} /\ DOMAIN chains = {}
  BY <1>1
<1>3. HeldShape /\ Mapping(held)
  BY <1>1, <1>2, FS_EmptySet DEF HeldShape, Mapping
<1>4. OneOwner(held, chains, blocks)
  BY <1>1, <1>2 DEF OneOwner, IsHeld, IsLinked
<1>5. chains \in Seq(Link) /\ Len(chains) <= MaxDepth /\ Apart(chains) /\ ChainScopes(chains) = <<>>
      /\ ChainSum(chains) = 0
  BY <1>1, NoChains, SlabAssumption DEF SlabAssumption
<1>6. BytesHeld(held) = 0
  BY <1>1, NothingWeighs
<1>7. ChainFigures
  <2>1. Cardinality(DOMAIN held) = 0
    BY <1>2, FS_EmptySet
  <2>2. ArenaSum(<<>>) = 0
    BY SumEmpty DEF ArenaSum
  <2>3. /\ stats \in [live : Nat, bytes : Nat, arena : Nat]
        /\ stats.live = 0 /\ stats.bytes = 0 /\ stats.arena = 0
    BY <1>1
  <2>4. QED
    BY <1>2, <1>5, <1>6, <2>1, <2>2, <2>3 DEF ChainFigures, FiguresOf
<1>8. Weighed
  BY <1>1, <1>5, <1>6 DEF Weighed
<1>9. QED
  BY <1>3, <1>4, <1>5, <1>7, <1>8 DEF MallocInv

LEMMA MallocStat == ASSUME MallocInv, up PROVE stats = StatOf(held, ChainScopes(chains))
<1>1. FiguresOf(stats, held, ChainScopes(chains), chains)
  BY DEF MallocInv, ChainFigures
<1>2. QED
  BY <1>1, FiguresStat

LEMMA MallocNew ==
    ASSUME MallocInv, backend = "malloc", NEW p \in Addr, NEW c, TrueWords(c) \in Nat,
           ClearOf(p, TrueWords(c), held, ChainScopes(chains))
    PROVE  H!Fresh(p, c)
<1>1. Scopes = ChainScopes(chains)
  BY DEF Scopes
<1>2. Located(held, ChainScopes(chains))
  BY MallocLocated
<1> HIDE DEF Scopes
<1>3. QED
  BY <1>1, <1>2, SameFresh

LEMMA MallocPromise ==
    ASSUME MallocInv, M!Next, backend = "malloc", backend' = backend
    PROVE  MallocInv' /\ H!HNext
<1>1. Scopes' = ChainScopes(chains') /\ Scopes = ChainScopes(chains)
  BY DEF Scopes
<1>2. MallocInv' /\ up' => stats' = StatOf(held', Scopes')
  <2>1. (MallocInv /\ up => stats = StatOf(held, ChainScopes(chains)))'
    BY MallocStat, PTL
  <2>2. QED
    BY <1>1, <2>1
<1>3. ASSUME NEW c \in Requests, M!Alloc(c) PROVE MallocInv' /\ H!HNext
  <2> DEFINE p == <<M!NewBlock, 0>>
  <2>1. /\ MallocInv' /\ up /\ p \in Addr /\ TrueWords(c) \in Nat
        /\ ClearOf(p, TrueWords(c), held, ChainScopes(chains))
        /\ held' = Put(p, Counted(c), held) /\ UNCHANGED <<chains, up>>
    BY <1>3, MallocAlloc
  <2> HIDE DEF p
  <2>2. H!Fresh(p, c)
    BY <2>1, MallocNew
  <2>3. stats' = StatOf(held', Scopes') /\ Scopes' = Scopes
    BY <1>1, <1>2, <2>1
  <2>4. QED
    BY <2>1, <2>2, <2>3, ImplAlloc
<1>4. ASSUME NEW c \in Requests, M!ArenaAlloc(c) PROVE MallocInv' /\ H!HNext
  <2> DEFINE p == <<M!NewBlock, 1>>
  <2>1. /\ MallocInv' /\ up /\ ChainScopes(chains) # <<>> /\ p \in Addr /\ TrueWords(c) \in Nat
        /\ ClearOf(p, TrueWords(c), held, ChainScopes(chains))
        /\ ChainScopes(chains') = Deeper(ChainScopes(chains), p, c) /\ UNCHANGED <<held, up>>
    BY <1>4, MallocArenaAlloc
  <2> HIDE DEF p
  <2>2. H!Fresh(p, c)
    BY <2>1, MallocNew
  <2>3. stats' = StatOf(held', Scopes') /\ Scopes' = Deeper(Scopes, p, c) /\ Scopes # <<>>
    BY <1>1, <1>2, <2>1
  <2>4. QED
    BY <2>1, <2>2, <2>3, ImplArena
<1>5. ASSUME NEW c \in Requests, NEW p \in DOMAIN held, M!AllocAt(p, c) PROVE MallocInv' /\ H!HNext
  <2>1. /\ MallocInv' /\ up /\ held[p].rc = 0 /\ TrueWords(Counted(c)) = TrueWords(held[p])
        /\ held' = [held EXCEPT ![p] = Counted(c)] /\ UNCHANGED <<chains, stats, up>>
    BY <1>5, MallocShell
  <2>2. p \in Addr
    BY DEF MallocInv, HeldShape
  <2>3. Scopes' = Scopes
    BY <1>1, <2>1
  <2>4. QED
    BY <2>1, <2>2, <2>3, ImplShell
<1>6. ASSUME NEW p \in DOMAIN held, M!Dup(p) \/ M!Dec(p) PROVE MallocInv' /\ H!HNext
  <2>1. /\ MallocInv' /\ up /\ UNCHANGED <<chains, stats, up>> /\ held[p].rc \in Nat \ {0}
        /\ \E rc \in 0 .. held[p].rc + 1 :
              rc \in {held[p].rc - 1, held[p].rc + 1} /\ held' = [held EXCEPT ![p].rc = rc]
    BY <1>6, MallocCounts
  <2>2. Scopes' = Scopes
    BY <1>1, <2>1
  <2>3. QED
    BY <2>1, <2>2, ImplCount
<1>7. ASSUME NEW p \in DOMAIN held, M!Free(p) PROVE MallocInv' /\ H!HNext
  <2>1. /\ MallocInv' /\ up /\ held[p].rc = 0 /\ held' = Restrict(held, DOMAIN held \ {p})
        /\ UNCHANGED <<chains, up>>
    BY <1>7, MallocFree
  <2>2. stats' = StatOf(held', Scopes') /\ Scopes' = Scopes
    BY <1>1, <1>2, <2>1
  <2>3. QED
    BY <2>1, <2>2, ImplFree
<1>8. ASSUME M!ArenaOpen PROVE MallocInv' /\ H!HNext
  <2>1. /\ MallocInv' /\ up /\ Len(ChainScopes(chains)) < MaxDepth
        /\ ChainScopes(chains') = Append(ChainScopes(chains), <<>>) /\ UNCHANGED <<held, stats, up>>
    BY <1>8, MallocOpen
  <2>2. Len(Scopes) < MaxDepth /\ Scopes' = Append(Scopes, <<>>)
    BY <1>1, <2>1
  <2>3. QED
    BY <2>1, <2>2, ImplOpen
<1>9. ASSUME M!ArenaClose PROVE MallocInv' /\ H!HNext
  <2>1. /\ MallocInv' /\ up /\ ChainScopes(chains) # <<>>
        /\ ChainScopes(chains') = Front(ChainScopes(chains)) /\ UNCHANGED <<held, up>>
    BY <1>9, MallocClose
  <2>2. Scopes # <<>> /\ Scopes' = Front(Scopes) /\ stats' = StatOf(held', Scopes')
    BY <1>1, <1>2, <2>1
  <2>3. QED
    BY <2>1, <2>2, ImplClose
<1>10. ASSUME M!HeapFree PROVE MallocInv' /\ H!HNext
  <2>1. /\ MallocInv' /\ up /\ up' = FALSE /\ ChainScopes(chains') = <<>> /\ UNCHANGED <<held, stats>>
        /\ held' = Restrict(held, DOMAIN held)
    BY <1>10, MallocTearDown
  <2>2. Scopes' = <<>> /\ DOMAIN held \in SUBSET DOMAIN held /\ stats' = stats
    BY <1>1, <2>1
  <2>3. QED
    BY <2>1, <2>2, ImplTearDown
<1>11. QED
  BY <1>3, <1>4, <1>5, <1>6, <1>7, <1>8, <1>9, <1>10 DEF M!Next

-----------------------------------------------------------------------------
(* The heap, whichever backend was built.                                   *)

BInv ==
    /\ backend \in {"slab", "malloc"}
    /\ backend = "slab" => SlabInv
    /\ backend = "malloc" => MallocInv

LEMMA HeapInit == BInit => BInv /\ H!HInit
<1> SUFFICES ASSUME BInit PROVE BInv /\ H!HInit
  OBVIOUS
<1>1. Init /\ M!Init /\ backend \in {"slab", "malloc"}
  BY DEF BInit
<1>2. BInv
  BY <1>1, SlabInit, MallocInit DEF BInv
<1>3. /\ held = <<>> /\ scopes = <<>> /\ chains = <<>> /\ up = TRUE
      /\ stats = [live |-> 0, bytes |-> 0, arena |-> 0]
  BY <1>1 DEF Init, M!Init
<1>4. Scopes = <<>>
  BY <1>3, NoChains DEF Scopes
<1>5. H!StatsOf(<<>>, <<>>) = [live |-> 0, bytes |-> 0, arena |-> 0]
  <2>1. Cardinality(DOMAIN <<>>) = 0
    BY FS_EmptySet
  <2>2. ArenaSum(<<>>) = 0
    BY SumEmpty DEF ArenaSum
  <2>3. QED
    BY <2>1, <2>2, SameStats, NothingWeighs DEF StatOf
<1>6. H!HInit
  BY <1>3, <1>4, <1>5 DEF H!HInit, Scopes, ChainScopes
<1>7. QED
  BY <1>2, <1>6

LEMMA HeapStep == ASSUME BInv, [BNext]_allVars PROVE BInv' /\ [H!HNext]_(H!heapVars)
<1>1. CASE backend = "slab" /\ Next /\ UNCHANGED <<backend, mvars>>
  <2>1. SlabInv
    BY <1>1 DEF BInv
  <2>2. SlabInv' /\ H!HNext
    BY <1>1, <2>1, SlabPromise
  <2>3. BInv'
    BY <1>1, <2>2 DEF BInv
  <2>4. QED
    BY <2>2, <2>3
<1>2. CASE backend = "malloc" /\ M!Next /\ UNCHANGED backend
  <2>1. MallocInv
    BY <1>2 DEF BInv
  <2>2. MallocInv' /\ H!HNext
    BY <1>2, <2>1, MallocPromise
  <2>3. BInv'
    BY <1>2, <2>2 DEF BInv
  <2>4. QED
    BY <2>2, <2>3
<1>3. CASE UNCHANGED allVars
  <2>1. UNCHANGED vars /\ UNCHANGED <<backend, chains, blocks>>
    BY <1>3 DEF allVars
  <2>2. backend = "slab" => SlabInv'
    BY <2>1, SlabStep DEF BInv
  <2>3. backend = "malloc" => MallocInv'
    <3>1. UNCHANGED <<held, stats, up, phys, chains, blocks>>
      BY <2>1 DEF vars
    <3>2. QED
      BY <3>1 DEF BInv, MallocInv, HeldShape, Mapping, ChainFigures, Weighed
  <2>4. BInv'
    BY <2>1, <2>2, <2>3 DEF BInv
  <2>5. UNCHANGED H!heapVars
    <3>1. UNCHANGED <<held, stats, up, scopes, chains, backend>>
      BY <2>1 DEF vars
    <3>2. QED
      BY <3>1 DEF H!heapVars, M!ChainCells
  <2>6. QED
    BY <2>4, <2>5
<1>4. QED
  BY <1>1, <1>2, <1>3 DEF BNext

LEMMA HeapInvariant == BSpec => []BInv
<1>1. BInv /\ [BNext]_allVars => BInv'
  BY HeapStep
<1>2. BInit => BInv
  BY HeapInit
<1>3. QED
  BY <1>1, <1>2, PTL DEF BSpec

\* Whichever backend was built, what it has out is what it has not given back:
\* slabs, with dead cells apart from live ones, each on one list once, and no
\* word lost (wok_rc.c 596-598, 683-694, 786-788); blocks, none lost and none
\* freed twice (240-251, 306, 407-414).
THEOREM StorageIsAccounted == BSpec => []StorageAccounted
<1>1. BInv => StorageAccounted
  BY TypesHold, DeadHold, WordsHold, MallocOwned DEF BInv, StorageAccounted
<1>2. QED
  BY <1>1, HeapInvariant, PTL

\* The physical figure is exactly what malloc has out, hidden words included,
\* while the heap lives and after its teardown (wok_heap_free 674).
THEOREM PhysicalIsExact == BSpec => []PhysicalFigure
<1>1. BInv => PhysicalFigure
  BY MallocOwned DEF BInv, PhysicalFigure, SlabInv
<1>2. QED
  BY <1>1, HeapInvariant, PTL

\* Either backend implements WokHeap: a cell it hands out lies apart from every
\* cell held, stays where it is until it is freed, the figures count what is
\* held, and scopes close last-in first-out (wok_rc.h, runtime/README.md).
THEOREM HeapRefines == BSpec => ImplementsHeap
<1>1. BInit => H!HInit
  BY HeapInit
<1>2. BInv /\ [BNext]_allVars => [H!HNext]_(H!heapVars)
  BY HeapStep
<1>3. QED
  BY <1>1, <1>2, HeapInvariant, PTL DEF BSpec, ImplementsHeap, H!HSpec
=============================================================================
