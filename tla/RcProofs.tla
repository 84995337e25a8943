------------------------------- MODULE RcProofs -------------------------------
(***************************************************************************)
(* What RcParity promises, for every program class and every constructor   *)
(* set whose arrays hold no natural of 2^63 or more: the counts are the    *)
(* owners, the books are exact, the shells are held, no loud guard is met, *)
(* and the two backends hold the same values.                              *)
(*                                                                         *)
(* Between two steps, and at every point of an operation, a store is       *)
(* "Good": its cells are in shape, its memory pool and its arena frames    *)
(* are apart from each other, its counts are the references from the       *)
(* slots, from the values on their way (arguments, a worklist, a result)   *)
(* and from the cells, and its books balance.  Every operation of RcStore  *)
(* is shown to keep that, whatever the store; dropAddr by an invariant     *)
(* over the steps of its worklist.  The backends are compared by a pairing *)
(* of addresses, remade when an address is handed out.                     *)
(***************************************************************************)
EXTENDS RcParity, CountProofs

-----------------------------------------------------------------------------
(* Counting what a list or a function holds.                               *)

\* How often a value occurs in a list, or in a function.
Occ(f, a) == Cardinality({i \in DOMAIN f : f[i] = a})

\* Two disjoint finite sets.
LEMMA SetCount ==
  ASSUME NEW S, NEW T, IsFiniteSet(S), IsFiniteSet(T), S \cap T = {}
  PROVE  IsFiniteSet(S \cup T) /\ Cardinality(S \cup T) = Cardinality(S) + Cardinality(T)
<1>1. Cardinality(S) \in Nat /\ Cardinality(T) \in Nat /\ Cardinality(S \cap T) = 0
  BY FS_CardinalityType, FS_EmptySet
<1>2. /\ IsFiniteSet(S \cup T)
      /\ Cardinality(S \cup T) = Cardinality(S) + Cardinality(T) - Cardinality(S \cap T)
  BY FS_Union, Zenon
<1>3. QED
  BY <1>1, <1>2

\* It is a number, 0 when the value does not occur.
LEMMA OccType ==
  ASSUME NEW f, IsFiniteSet(DOMAIN f), NEW a
  PROVE  Occ(f, a) \in Nat /\ (Occ(f, a) = 0 <=> \A i \in DOMAIN f : f[i] # a)
<1>1. IsFiniteSet({i \in DOMAIN f : f[i] = a})
  BY FS_Subset
<1>2. QED
  BY <1>1, FS_CardinalityType, FS_EmptySet DEF Occ

\* One position changed.
LEMMA OccOther ==
  ASSUME NEW f, IsFiniteSet(DOMAIN f), NEW x \in DOMAIN f, NEW a,
         NEW g, DOMAIN g = DOMAIN f, \A i \in DOMAIN f : i # x => g[i] = f[i]
  PROVE  Occ(g, a) = Occ(f, a) - (IF f[x] = a THEN 1 ELSE 0) + (IF g[x] = a THEN 1 ELSE 0)
<1> DEFINE S == {i \in DOMAIN f : f[i] = a}
           T == {i \in DOMAIN g : g[i] = a}
           U == {i \in DOMAIN f : i # x /\ f[i] = a}
<1>1. IsFiniteSet(U) /\ x \notin U
  BY FS_Subset
<1>2. S = IF f[x] = a THEN U \cup {x} ELSE U
  OBVIOUS
<1>3. T = IF g[x] = a THEN U \cup {x} ELSE U
  OBVIOUS
<1>4. Cardinality(U \cup {x}) = Cardinality(U) + 1 /\ Cardinality(U) \in Nat
  BY <1>1, FS_AddElement, FS_CardinalityType
<1>5. Occ(f, a) = Cardinality(S) /\ Occ(g, a) = Cardinality(T)
  BY DEF Occ
<1> HIDE DEF S, T, U
<1>6. QED
  BY <1>2, <1>3, <1>4, <1>5

\* In no list does anything occur.
LEMMA OccNone ==
  ASSUME NEW a
  PROVE  Occ(<<>>, a) = 0
<1>1. {i \in DOMAIN <<>> : <<>>[i] = a} = {}
  OBVIOUS
<1>2. QED
  BY <1>1, FS_EmptySet DEF Occ

\* In two lists joined.
LEMMA OccJoin ==
  ASSUME NEW V, NEW f \in Seq(V), NEW g \in Seq(V), NEW a
  PROVE  Occ(f \o g, a) = Occ(f, a) + Occ(g, a)
<1> DEFINE n == Len(f)
           S == {i \in 1..n : f[i] = a}
           T == {i \in 1..Len(g) : g[i] = a}
           W == {i \in n + 1 .. n + Len(g) : g[i - n] = a}
           m == [i \in T |-> i + n]
<1>1. n \in Nat /\ Len(g) \in Nat
  OBVIOUS
<1>2. {i \in DOMAIN (f \o g) : (f \o g)[i] = a} = S \cup W
  BY <1>1
<1>3. IsFiniteSet(S) /\ IsFiniteSet(T) /\ IsFiniteSet(W)
  <2>1. IsFiniteSet(1..n) /\ IsFiniteSet(1..Len(g)) /\ IsFiniteSet(n + 1 .. n + Len(g))
    BY <1>1, FS_Interval
  <2>2. S \in SUBSET (1..n) /\ T \in SUBSET (1..Len(g)) /\ W \in SUBSET (n + 1 .. n + Len(g))
    OBVIOUS
  <2>3. QED
    BY <2>1, <2>2, FS_Subset
<1>4. S \cap W = {}
  BY <1>1
<1>5. m \in Bijection(T, W)
  <2>1. m \in [T -> W]
    BY <1>1
  <2>2. \A i, j \in T : m[i] = m[j] => i = j
    BY <1>1
  <2>3. \A i \in W : i - n \in T /\ m[i - n] = i
    BY <1>1
  <2>4. QED
    BY <2>1, <2>2, <2>3 DEF Bijection, Injection, Surjection, IsInjective
<1>6. Cardinality(W) = Cardinality(T)
  BY <1>3, <1>5, FS_Bijection DEF ExistsBijection
<1>7. Occ(f, a) = Cardinality(S) /\ Occ(g, a) = Cardinality(T)
      /\ Occ(f \o g, a) = Cardinality(S \cup W)
  <2>1. DOMAIN f = 1..n /\ DOMAIN g = 1..Len(g)
    OBVIOUS
  <2>2. QED
    BY <1>2, <2>1 DEF Occ
<1> HIDE DEF S, W
<1>8. Cardinality(S \cup W) = Cardinality(S) + Cardinality(W)
  BY <1>3, <1>4, SetCount, Zenon
<1>9. QED
  BY <1>6, <1>7, <1>8

\* In a list of one,
LEMMA OccOne ==
  ASSUME NEW v, NEW a
  PROVE  Occ(<<v>>, a) = IF v = a THEN 1 ELSE 0
<1>1. {i \in DOMAIN <<v>> : <<v>>[i] = a} = IF v = a THEN {1} ELSE {}
  OBVIOUS
<1>2. QED
  BY <1>1, FS_EmptySet, FS_Singleton DEF Occ

\* and of two.
LEMMA OccTwo ==
  ASSUME NEW u, NEW v, NEW a
  PROVE  Occ(<<u, v>>, a) = Occ(<<u>>, a) + Occ(<<v>>, a)
<1> DEFINE A == IF u = a THEN {1} ELSE {}
           B == IF v = a THEN {2} ELSE {}
<1>1. {i \in DOMAIN <<u, v>> : <<u, v>>[i] = a} = A \cup B
  OBVIOUS
<1>2. A \cap B = {}
  OBVIOUS
<1>3. IsFiniteSet(A) /\ Cardinality(A) = IF u = a THEN 1 ELSE 0
  <2>1. CASE u = a
    BY <2>1, FS_Singleton
  <2>2. CASE u # a
    BY <2>2, FS_EmptySet
  <2>3. QED
    BY <2>1, <2>2
<1>7. IsFiniteSet(B) /\ Cardinality(B) = IF v = a THEN 1 ELSE 0
  <2>1. CASE v = a
    BY <2>1, FS_Singleton
  <2>2. CASE v # a
    BY <2>2, FS_EmptySet
  <2>3. QED
    BY <2>1, <2>2
<1> HIDE DEF A, B
<1>4. Cardinality(A \cup B) = Cardinality(A) + Cardinality(B)
  BY <1>2, <1>3, <1>7, SetCount, Zenon
<1>5. Occ(<<u, v>>, a) = Cardinality(A \cup B)
  BY <1>1 DEF Occ
<1>6. QED
  BY <1>3, <1>7, <1>4, <1>5, OccOne

\* Lists that hold a value at the same positions.
LEMMA OccEqual ==
  ASSUME NEW f, NEW g, DOMAIN f = DOMAIN g, NEW a, \A i \in DOMAIN f : f[i] = a <=> g[i] = a
  PROVE  Occ(f, a) = Occ(g, a)
<1>1. {i \in DOMAIN f : f[i] = a} = {i \in DOMAIN g : g[i] = a}
  OBVIOUS
<1>2. QED
  BY <1>1 DEF Occ

(* A set that is told element by element by another has its size.          *)
LEMMA SameSize ==
  ASSUME NEW S, IsFiniteSet(S), NEW T, NEW m, m = [x \in S |-> m[x]],
         \A x \in S : m[x] \in T, \A x, y \in S : m[x] = m[y] => x = y,
         \A y \in T : \E x \in S : m[x] = y
  PROVE  IsFiniteSet(T) /\ Cardinality(T) = Cardinality(S)
<1>1. m \in [S -> T]
  OBVIOUS
<1>2. m \in Bijection(S, T)
  BY <1>1 DEF Bijection, Injection, Surjection, IsInjective
<1>3. QED
  BY <1>2, FS_Bijection DEF ExistsBijection

(* What is listed from a set is listed as often as it is there.            *)
LEMMA Listing ==
  ASSUME NEW P, IsFiniteSet(P)
  PROVE  \E es \in [1..Cardinality(P) -> P] : IsInjective(es)
<1>1. ExistsBijection(1..Cardinality(P), P)
  BY FS_CardinalityType
<1>2. QED
  BY <1>1 DEF ExistsBijection, Bijection, Injection

\* w lists the values of f over the set P, in the order of es.
Lists(P, f, es, a, w, K) ==
  /\ IsFiniteSet(P) /\ es \in [1..Cardinality(P) -> P] /\ IsInjective(es)
  /\ w = [i \in 1..Cardinality(P) |-> f[es[i]]] /\ K = {p \in P : f[p] = a}

\* A value occurs there as often as P has places that hold it.
LEMMA OccListed ==
  ASSUME NEW P, NEW f, NEW es, NEW a, NEW w, NEW K, Lists(P, f, es, a, w, K)
  PROVE  Occ(w, a) = Cardinality(K)
<1> DEFINE n == Cardinality(P)
           S == {i \in 1..n : f[es[i]] = a}
           T == {p \in P : f[p] = a}
<1>0. /\ IsFiniteSet(P) /\ es \in [1..Cardinality(P) -> P] /\ IsInjective(es)
      /\ w = [i \in 1..Cardinality(P) |-> f[es[i]]] /\ K = {p \in P : f[p] = a}
  BY DEF Lists
<1>1. n \in Nat /\ IsFiniteSet(1..n) /\ Cardinality(1..n) = n
  BY <1>0, FS_CardinalityType, FS_Interval
<1>2. es \in Surjection(1..n, P)
  <2>1. es \in Injection(1..n, P)
    BY <1>0 DEF Injection
  <2>2. QED
    BY <1>0, <1>1, <2>1, FS_Injection
<1>3. \A p \in P : \E i \in 1..n : es[i] = p
  BY <1>2 DEF Surjection
<1>4. \A i, j \in 1..n : es[i] = es[j] => i = j
  BY <1>0 DEF IsInjective
<1>5. \A i \in 1..n : es[i] \in P
  BY <1>0
<1>11. S = {i \in DOMAIN w : w[i] = a} /\ K = T
  BY <1>0
<1> DEFINE m == [i \in S |-> es[i]]
<1> HIDE DEF n
<1>6. IsFiniteSet(S)
  BY <1>1, FS_Subset
<1>7. m = [x \in S |-> m[x]]
  OBVIOUS
<1>8. \A x \in S : m[x] \in T
  BY <1>5
<1>9. \A x, y \in S : m[x] = m[y] => x = y
  BY <1>4
<1>10. \A y \in T : \E x \in S : m[x] = y
  BY <1>3
<1> HIDE DEF S, T, m
<1>12. Cardinality(T) = Cardinality(S)
  BY <1>6, <1>7, <1>8, <1>9, <1>10, SameSize
<1>13. QED
  BY <1>11, <1>12 DEF Occ

(* A sum over a set is the sum over a part of it and over the rest.        *)
LEMMA SumSplit ==
  ASSUME NEW S, IsFiniteSet(S), NEW f, \A x \in S : f[x] \in Nat, NEW U \in SUBSET S
  PROVE  /\ SumFunctionOnSet(f, S) = SumFunctionOnSet(f, U) + SumFunctionOnSet(f, S \ U)
         /\ SumFunctionOnSet(f, U) \in Nat /\ SumFunctionOnSet(f, S \ U) \in Nat
<1> DEFINE Split(V) == SumFunctionOnSet(f, S) = SumFunctionOnSet(f, V) + SumFunctionOnSet(f, S \ V)
           F == {V \in SUBSET S : ~Split(V)}
<1>1. ASSUME NEW V \in SUBSET S
      PROVE  IsFiniteSet(V) /\ SumFunctionOnSet(f, V) \in Nat
  <2>1. IsFiniteSet(V)
    BY FS_Subset
  <2>2. QED
    BY <2>1, SumType
<1>2. F = {}
  <2>1. SUFFICES ASSUME F # {} PROVE FALSE
    OBVIOUS
  <2>2. PICK V \in F : \A W \in SUBSET V : W # V => W \notin F
    <3>1. F \in SUBSET SUBSET S
      OBVIOUS
    <3> HIDE DEF F
    <3>2. QED
      BY <2>1, <3>1, SmallestExists
  <2>3. V \in SUBSET S /\ ~Split(V)
    BY <2>2
  <2>4. V # {}
    <3>1. S \ {} = S /\ S \in SUBSET S
      OBVIOUS
    <3>2. SumFunctionOnSet(f, S) = 0 + SumFunctionOnSet(f, S)
      BY <1>1, <3>1
    <3>3. Split({})
      BY <3>1, <3>2, SumNone
    <3>4. QED
      BY <2>3, <3>3
  <2>5. PICK a \in V : TRUE
    BY <2>4
  <2> DEFINE W == V \ {a}
  <2>6. W \in SUBSET V /\ W # V /\ W \in SUBSET S /\ S \ V \in SUBSET S /\ S \ W \in SUBSET S
        /\ (S \ W) \ {a} = S \ V /\ a \in S \ W /\ a \in S
    BY <2>3, <2>5
  <2>7. Split(W)
    BY <2>2, <2>6
  <2>8. SumFunctionOnSet(f, V) = f[a] + SumFunctionOnSet(f, W)
    BY <1>1, <2>3, <2>5, SumAny
  <2>9. SumFunctionOnSet(f, S \ W) = f[a] + SumFunctionOnSet(f, S \ V)
    <3>1. SumFunctionOnSet(f, S \ W) = f[a] + SumFunctionOnSet(f, (S \ W) \ {a})
      BY <1>1, <2>6, SumAny
    <3>2. QED
      BY <2>6, <3>1
  <2>10. f[a] \in Nat /\ SumFunctionOnSet(f, W) \in Nat /\ SumFunctionOnSet(f, S \ V) \in Nat
    BY <1>1, <2>6
  <2> HIDE DEF W
  <2>11. SumFunctionOnSet(f, S) = SumFunctionOnSet(f, W) + SumFunctionOnSet(f, S \ W)
    BY <2>7
  <2>12. Split(V)
    BY <2>8, <2>9, <2>10, <2>11
  <2>13. QED
    BY <2>3, <2>12
<1>3. U \in SUBSET S /\ S \ U \in SUBSET S
  OBVIOUS
<1>4. Split(U)
  BY <1>2
<1>5. QED
  BY <1>1, <1>3, <1>4

-----------------------------------------------------------------------------
(* The heap as a graph: places, and how often an address is held.          *)

\* The heap's places that hold a value, those of some cells aside.
At(cells, X, a)    == {p \in Places(cells) : p[1] \notin X /\ cells[p[1]].node.fs[p[2]] = a}

\* How many of them hold a.
Edges(cells, X, a) == Cardinality(At(cells, X, a))

\* A map of cells whose places are the fields of its nodes.
ListLike(f) == \E n \in Nat : DOMAIN f = 1..n
Plain(cells) == /\ IsFiniteSet(DOMAIN cells)
                /\ \A k \in DOMAIN cells : /\ cells[k].node.con # "NCont"
                                           /\ ListLike(cells[k].node.fs)

\* A list has finitely many fields.
LEMMA ListFinite == ASSUME NEW f, ListLike(f) PROVE IsFiniteSet(DOMAIN f)
<1>1. PICK n \in Nat : DOMAIN f = 1..n
  BY DEF ListLike
<1>2. QED
  BY <1>1, FS_Interval

\* The places are the fields of the cells.
LEMMA PlaceIs ==
  ASSUME NEW cells, Plain(cells), NEW p
  PROVE  p \in Places(cells)
           <=> \E k \in DOMAIN cells : \E j \in DOMAIN cells[k].node.fs : p = <<k, j>>
<1>1. \A k \in DOMAIN cells : Holds(cells[k].node) = DOMAIN cells[k].node.fs
  BY DEF Plain, Holds
<1>2. p \in Places(cells) <=> \E k \in DOMAIN cells : p \in {k} \X Holds(cells[k].node)
  BY DEF Places
<1>3. \A k \in DOMAIN cells : {k} \X Holds(cells[k].node) = {k} \X DOMAIN cells[k].node.fs
  BY <1>1
<1>4. \A k \in DOMAIN cells : p \in {k} \X DOMAIN cells[k].node.fs
                                <=> \E j \in DOMAIN cells[k].node.fs : p = <<k, j>>
  OBVIOUS
<1>5. QED
  BY <1>2, <1>3, <1>4

(* The places of one cell are as many as its fields.                       *)
LEMMA CellPlaces ==
  ASSUME NEW k, NEW S, IsFiniteSet(S)
  PROVE  /\ IsFiniteSet({<<k, j>> : j \in S})
         /\ Cardinality({<<k, j>> : j \in S}) = Cardinality(S)
<1> DEFINE m == [j \in S |-> <<k, j>>]
           T == {<<k, j>> : j \in S}
<1>1. m = [j \in S |-> m[j]]
  OBVIOUS
<1>2. \A j \in S : m[j] \in T
  OBVIOUS
<1>3. \A h, j \in S : m[h] = m[j] => h = j
  OBVIOUS
<1>4. \A y \in T : \E j \in S : m[j] = y
  OBVIOUS
<1> HIDE DEF m, T
<1>5. IsFiniteSet(T) /\ Cardinality(T) = Cardinality(S)
  BY <1>1, <1>2, <1>3, <1>4, SameSize
<1>6. QED
  BY <1>5 DEF T

\* The places of some of the cells.
PlacesIn(cells, D) == {p \in Places(cells) : p[1] \in D}

\* A cell more brings as many places as it has fields.
LEMMA PlacesAdd ==
  ASSUME NEW cells, Plain(cells), NEW D, NEW k \in D \cap DOMAIN cells,
         IsFiniteSet(PlacesIn(cells, D \ {k}))
  PROVE  /\ IsFiniteSet(PlacesIn(cells, D))
         /\ Cardinality(PlacesIn(cells, D))
              = Cardinality(PlacesIn(cells, D \ {k})) + Cardinality(DOMAIN cells[k].node.fs)
<1> DEFINE S == DOMAIN cells[k].node.fs
           T == {<<k, j>> : j \in S}
           P == PlacesIn(cells, D \ {k})
<1>1. IsFiniteSet(S)
  BY ListFinite DEF Plain
<1>2. IsFiniteSet(T) /\ Cardinality(T) = Cardinality(S)
  BY <1>1, CellPlaces
<1>3. P \cap T = {}
  BY DEF PlacesIn
<1>4. \A p : p \in PlacesIn(cells, D) <=> p \in P \cup T
  <2>1. ASSUME NEW p PROVE p \in PlacesIn(cells, D) <=> p \in P \cup T
    BY PlaceIs DEF PlacesIn
  <2>2. QED
    BY <2>1
<1>5. PlacesIn(cells, D) = P \cup T
  BY <1>4
<1> HIDE DEF S, T, P
<1>6. IsFiniteSet(P \cup T) /\ Cardinality(P \cup T) = Cardinality(P) + Cardinality(T)
  BY <1>2, <1>3, SetCount DEF P
<1>7. QED
  BY <1>2, <1>5, <1>6 DEF P, S

\* The heap has finitely many places.
LEMMA PlacesFinite ==
  ASSUME NEW cells, Plain(cells)
  PROVE  IsFiniteSet(Places(cells))
<1> DEFINE D == DOMAIN cells
           F == {E \in SUBSET D : ~IsFiniteSet(PlacesIn(cells, E))}
<1>1. SUFFICES ASSUME F # {} PROVE FALSE
  <2>1. PlacesIn(cells, D) = Places(cells)
    <3>1. \A p \in Places(cells) : p[1] \in D
      BY PlaceIs
    <3>2. QED
      BY <3>1 DEF PlacesIn
  <2>2. D \in SUBSET D
    OBVIOUS
  <2>3. QED
    BY <2>1, <2>2
<1>2. IsFiniteSet(D)
  BY DEF Plain
<1>3. F \in SUBSET SUBSET D
  OBVIOUS
<1>8. \A E \in F : E \in SUBSET D /\ ~IsFiniteSet(PlacesIn(cells, E))
  OBVIOUS
<1>9. \A E \in SUBSET D : E \notin F => IsFiniteSet(PlacesIn(cells, E))
  OBVIOUS
<1> HIDE DEF F
<1>4. PICK E \in F : \A U \in SUBSET E : U # E => U \notin F
  BY <1>1, <1>2, <1>3, SmallestExists
<1>5. CASE E = {}
  <2>1. PlacesIn(cells, E) = {}
    BY <1>5 DEF PlacesIn
  <2>2. QED
    BY <1>8, <2>1, FS_EmptySet
<1>6. CASE E # {}
  <2>1. PICK k \in E : TRUE
    BY <1>6
  <2>2. E \ {k} \notin F /\ E \ {k} \in SUBSET D
    BY <1>4, <1>8, <2>1
  <2>3. IsFiniteSet(PlacesIn(cells, E \ {k}))
    BY <1>9, <2>2
  <2>4. k \in E \cap DOMAIN cells
    BY <1>8
  <2>5. IsFiniteSet(PlacesIn(cells, E))
    BY <2>3, <2>4, PlacesAdd
  <2>6. QED
    BY <1>8, <2>5
<1>7. QED
  BY <1>5, <1>6

\* The places that hold a, told field by field.
LEMMA AtIs ==
  ASSUME NEW cells, Plain(cells), NEW X, NEW a, NEW p
  PROVE  p \in At(cells, X, a)
           <=> \E k \in DOMAIN cells \ X : \E j \in DOMAIN cells[k].node.fs :
                 p = <<k, j>> /\ cells[k].node.fs[j] = a
  BY PlaceIs DEF At

\* They are counted by a natural number, 0 when no field holds a.
LEMMA EdgesType ==
  ASSUME NEW cells, Plain(cells), NEW X, NEW a
  PROVE  /\ IsFiniteSet(At(cells, X, a))
         /\ Edges(cells, X, a) \in Nat
         /\ Edges(cells, X, a) = 0 <=>
              \A k \in DOMAIN cells \ X : \A j \in DOMAIN cells[k].node.fs : cells[k].node.fs[j] # a
<1>1. IsFiniteSet(At(cells, X, a))
  <2>1. At(cells, X, a) \in SUBSET Places(cells)
    BY DEF At
  <2>2. QED
    BY <2>1, PlacesFinite, FS_Subset
<1>2. Edges(cells, X, a) \in Nat /\ (Edges(cells, X, a) = 0 <=> At(cells, X, a) = {})
  BY <1>1, FS_CardinalityType, FS_EmptySet DEF Edges
<1>3. At(cells, X, a) = {} <=>
        \A k \in DOMAIN cells \ X : \A j \in DOMAIN cells[k].node.fs : cells[k].node.fs[j] # a
  <2>1. ASSUME At(cells, X, a) = {}, NEW k \in DOMAIN cells \ X, NEW j \in DOMAIN cells[k].node.fs
        PROVE  cells[k].node.fs[j] # a
    <3>1. <<k, j>> \notin At(cells, X, a)
      BY <2>1
    <3>2. QED
      BY <3>1, AtIs
  <2>2. ASSUME NEW p \in At(cells, X, a)
        PROVE  \E k \in DOMAIN cells \ X : \E j \in DOMAIN cells[k].node.fs : cells[k].node.fs[j] = a
    BY AtIs
  <2>3. QED
    BY <2>1, <2>2
<1>4. QED
  BY <1>1, <1>2, <1>3

(* A cell taken aside takes its fields along.                              *)
LEMMA EdgeSplit ==
  ASSUME NEW cells, Plain(cells), NEW X, NEW k \in DOMAIN cells, k \notin X, NEW a
  PROVE  Edges(cells, X, a) = Edges(cells, X \cup {k}, a) + Occ(cells[k].node.fs, a)
<1> DEFINE S == {j \in DOMAIN cells[k].node.fs : cells[k].node.fs[j] = a}
           T == {<<k, j>> : j \in S}
           P == At(cells, X \cup {k}, a)
<1>1. IsFiniteSet(S)
  BY ListFinite, FS_Subset DEF Plain
<1>2. IsFiniteSet(T) /\ Cardinality(T) = Cardinality(S)
  BY <1>1, CellPlaces
<1>3. IsFiniteSet(P)
  BY EdgesType
<1>4. P \cap T = {}
  BY DEF At
<1>5. ASSUME NEW p PROVE p \in At(cells, X, a) <=> p \in P \cup T
  BY AtIs
<1>6. At(cells, X, a) = P \cup T
  BY <1>5
<1> HIDE DEF S, T, P
<1>7. Cardinality(P \cup T) = Cardinality(P) + Cardinality(T)
  BY <1>2, <1>3, <1>4, SetCount
<1>8. QED
  BY <1>2, <1>6, <1>7 DEF Edges, Occ, P, S

(* Only the nodes outside count.                                           *)
LEMMA EdgesSame ==
  ASSUME NEW cells, Plain(cells), NEW cells2, Plain(cells2), NEW X, NEW a,
         DOMAIN cells \ X = DOMAIN cells2 \ X,
         \A k \in DOMAIN cells \ X : cells2[k].node = cells[k].node
  PROVE  Edges(cells2, X, a) = Edges(cells, X, a)
<1>1. ASSUME NEW p PROVE p \in At(cells, X, a) <=> p \in At(cells2, X, a)
  <2>1. p \in At(cells, X, a) <=> \E k \in DOMAIN cells \ X : \E j \in DOMAIN cells[k].node.fs :
                 p = <<k, j>> /\ cells[k].node.fs[j] = a
    BY AtIs
  <2>2. p \in At(cells2, X, a) <=> \E k \in DOMAIN cells2 \ X : \E j \in DOMAIN cells2[k].node.fs :
                 p = <<k, j>> /\ cells2[k].node.fs[j] = a
    BY AtIs
  <2>3. QED
    BY <2>1, <2>2
<1>2. At(cells2, X, a) = At(cells, X, a)
  BY <1>1
<1>3. QED
  BY <1>2 DEF Edges

-----------------------------------------------------------------------------
(* The invariant of one store.                                             *)

\* What a cell may hold, and what a slot or a worklist may.
Addresses == {HAddr(j) : j \in Nat} \cup {CAddr(j) : j \in Nat}
Literals  == {Lit(k) : k \in {"small", "char", "big"}}
Storables == Addresses \cup Literals \cup {Inline}
Anything  == Storables \cup {Empty}

\* The nodes of the model: constructors and arrays, and no continuations.
Nodes == [con : Constructors \cup {"Array"}, fs : Seq(Storables)]
Cell  == [rc : Nat, node : Nodes, bytes : Nat]

\* The fields of a store and of its books.
StoreFields == {"backend", "cells", "next", "desc", "reserved", "arena", "arenaC", "stats",
                "pool", "fresh", "err"}
StatFields  == {"allocs", "live", "peak", "cur", "peakBytes", "arena", "arenaPeak"}

\* A C cell reads back what was put into it: a constructor's fields have the
\* kinds its descriptor records, an array's elements are of one kind.
CellOk(a, s) ==
  LET n == s.cells[a].node
  IN /\ s.cells[a] \in Cell /\ n.fs # <<>>
     /\ n.con = "Array" => /\ Len(n.fs) = 2 /\ Encodable(n.fs)
                           /\ SlotKind(n.fs[1]) = SlotKind(n.fs[2])
     /\ n.con # "Array" /\ a[1] = "C" => Encodable(n.fs) /\ s.desc[n.con] = SlotKinds(n.fs)
     /\ \A j \in DOMAIN n.fs : ~IsArena(n.fs[j], s)

\* An address that was handed out: the counters are past it.
Minted(a, s) == \/ \E j \in Nat : a = HAddr(j) /\ j < s.next
                \/ \E j \in Nat : a = CAddr(j) /\ j < s.fresh

\* A store as the operations leave it.
Shape(s) ==
  /\ DOMAIN s = StoreFields /\ DOMAIN s.stats = StatFields /\ DOMAIN s.desc = Constructors
  /\ s.backend \in Backends /\ s.next \in Nat /\ s.fresh \in Nat
  /\ IsFiniteSet(DOMAIN s.cells)
  /\ \A a \in DOMAIN s.cells : Minted(a, s) /\ CellOk(a, s)

\* Shells in R and addresses in the pool are off the map; each is there once.
PoolOk(s, R) ==
  /\ \A a \in R : Minted(a, s) /\ a \notin DOMAIN s.cells
  /\ \A n \in DOMAIN s.pool :
       /\ s.pool[n] \in Seq(Addresses)
       /\ \A j \in DOMAIN s.pool[n] :
            /\ s.pool[n][j][1] = "C" /\ Minted(s.pool[n][j], s)
            /\ s.pool[n][j] \notin R \cup DOMAIN s.cells
  /\ \A n, m \in DOMAIN s.pool : \A j \in DOMAIN s.pool[n] : \A h \in DOMAIN s.pool[m] :
       s.pool[n][j] = s.pool[m][h] => n = m /\ j = h

\* One half of the arena's frames: cells of constructors, each in one frame.
HalfOk(fr, w, s) ==
  /\ fr \in Seq(SUBSET DOMAIN s.cells)
  /\ \A j \in DOMAIN fr : \A a \in fr[j] : a[1] = w /\ s.cells[a].node.con # "Array"
  /\ \A j, h \in DOMAIN fr : j # h => fr[j] \cap fr[h] = {}

\* Both halves of the arena.
FramesOk(s) == HalfOk(s.arena, "H", s) /\ HalfOk(s.arenaC, "C", s)

\* Counts are exact: over the slots e, the values w on their way, and the cells
\* but those of X, whose fields were moved out.
Total(s, e, w, X, a) == Occ(e, a) + Occ(w, a) + Edges(s.cells, X, a)
Exact(s, e, w, X) ==
  \A a \in Addresses : ~IsArena(a, s) =>
    Total(s, e, w, X, a) = IF a \in DOMAIN s.cells THEN s.cells[a].rc ELSE 0

\* The books, with nl shells of nb bytes off the map.
CountedIn(s) == {a \in DOMAIN s.cells : ~IsArena(a, s)}
ArenaIn(s)   == {a \in DOMAIN s.cells : IsArena(a, s)}
Bytes(s, D)  == SumFunction([a \in D |-> s.cells[a].bytes])
Books(s, nl, nb) == /\ nl \in Nat /\ nb \in Nat
                    /\ s.stats.live  = Cardinality(CountedIn(s)) + nl
                    /\ s.stats.cur   = Bytes(s, CountedIn(s)) + nb
                    /\ s.stats.arena = Bytes(s, ArenaIn(s))

\* The slots, the values on their way and the cells whose fields were moved out.
Holding(e, w, X, s) == e \in [Slots -> Anything] /\ w \in Seq(Anything) /\ X \subseteq ArenaIn(s)

\* The invariant of one store, at any point of an operation: e is what the slots
\* hold, w the values on their way, X the cells whose fields were moved out, R
\* the shells off the map, nl and nb their number and their bytes.
Good(s, e, w, X, R, nl, nb) ==
  /\ Shape(s) /\ PoolOk(s, R) /\ FramesOk(s)
  /\ Holding(e, w, X, s) /\ Exact(s, e, w, X) /\ Books(s, nl, nb)

\* A step of the store that only counts; one that only loses cells.
SameFrame(s, s2) ==
  /\ DOMAIN s2 = StoreFields /\ s2.backend = s.backend /\ s2.next = s.next
  /\ s2.desc = s.desc /\ s2.reserved = s.reserved /\ s2.arena = s.arena
  /\ s2.arenaC = s.arenaC /\ s2.fresh = s.fresh /\ s2.err = s.err

\* The cells of D keep what they hold.
SameCells(s, s2, D) ==
  \A a \in D : s2.cells[a] \in Cell /\ s2.cells[a].node = s.cells[a].node
                 /\ s2.cells[a].bytes = s.cells[a].bytes

\* The step only counts.
Recounted(s, s2) ==
  /\ SameFrame(s, s2) /\ DOMAIN s2.cells = DOMAIN s.cells /\ SameCells(s, s2, DOMAIN s.cells)
  /\ s2.stats = s.stats /\ s2.pool = s.pool

\* The step loses cells, and only counts the others.
Shrinks(s, s2) ==
  /\ SameFrame(s, s2) /\ DOMAIN s2.cells \subseteq DOMAIN s.cells
  /\ SameCells(s, s2, DOMAIN s2.cells)

\* The counted values are the addresses.
LEMMA AddressIs ==
  ASSUME NEW v \in Anything
  PROVE  /\ IsCounted(v) <=> v \in Addresses
         /\ v \in Addresses => v[1] = "H" \/ v[1] = "C"
<1>1. ASSUME v \in Addresses PROVE v[1] = "H" \/ v[1] = "C"
  BY <1>1 DEF Addresses, HAddr, CAddr
<1>2. ASSUME v \notin Addresses PROVE ~IsCounted(v)
  BY <1>2 DEF Anything, Storables, Literals, IsCounted, Lit, Inline, Empty
<1>3. QED
  BY <1>1, <1>2 DEF IsCounted

\* An empty slot and the values without a cell are no addresses.
LEMMA EmptyIsNo == Empty \notin Addresses /\ Inline \notin Addresses
                     /\ \A k : Lit(k) \notin Addresses
  BY DEF Empty, Inline, Lit, Addresses, HAddr, CAddr

\* The arena's cells are told from the frames alone.
LEMMA ArenaSame ==
  ASSUME NEW s, NEW s2, s2.arena = s.arena, s2.arenaC = s.arenaC, NEW a
  PROVE  IsArena(a, s2) <=> IsArena(a, s)
  BY DEF IsArena

\* A store in shape has list nodes of storable values.
LEMMA ShapePlain ==
  ASSUME NEW s, Shape(s)
  PROVE  /\ Plain(s.cells)
         /\ \A a \in DOMAIN s.cells : s.cells[a] \in Cell /\ s.cells[a].node.fs \in Seq(Storables)
<1>1. ASSUME NEW a \in DOMAIN s.cells
      PROVE  s.cells[a] \in Cell /\ s.cells[a].node.fs \in Seq(Storables)
             /\ s.cells[a].node.con # "NCont"
  <2>1. s.cells[a] \in Cell
    BY DEF Shape, CellOk
  <2>2. s.cells[a].node \in Nodes
    BY <2>1 DEF Cell
  <2>3. s.cells[a].node.con \in Constructors \cup {"Array"} /\ s.cells[a].node.fs \in Seq(Storables)
    BY <2>2 DEF Nodes
  <2>4. "NCont" \notin Constructors
    BY StoreAssumption
  <2>5. QED
    BY <2>1, <2>3, <2>4
<1>2. ASSUME NEW a \in DOMAIN s.cells PROVE ListLike(s.cells[a].node.fs)
  <2>1. Len(s.cells[a].node.fs) \in Nat /\ DOMAIN s.cells[a].node.fs = 1..Len(s.cells[a].node.fs)
    BY <1>1
  <2>2. QED
    BY <2>1 DEF ListLike
<1>3. QED
  BY <1>1, <1>2 DEF Plain, Shape

(* A step that only loses cells keeps the shape.                           *)
LEMMA ShrinkShape ==
  ASSUME NEW s, NEW s2, Shape(s), Shrinks(s, s2), DOMAIN s2.stats = StatFields
  PROVE  Shape(s2)
<1>1. IsFiniteSet(DOMAIN s2.cells)
  BY FS_Subset DEF Shape, Shrinks
<1>2. ASSUME NEW a \in DOMAIN s2.cells PROVE Minted(a, s2) /\ CellOk(a, s2)
  <2>1. a \in DOMAIN s.cells /\ Minted(a, s) /\ CellOk(a, s)
    BY DEF Shape, Shrinks
  <2>2. s2.cells[a] \in Cell /\ s2.cells[a].node = s.cells[a].node
    BY DEF Shrinks, SameCells
  <2>3. s2.desc = s.desc /\ s2.next = s.next /\ s2.fresh = s.fresh
    BY DEF Shrinks, SameFrame
  <2>4. \A v : IsArena(v, s2) <=> IsArena(v, s)
    BY DEF Shrinks, SameFrame, IsArena
  <2>5. Minted(a, s2)
    BY <2>1, <2>3 DEF Minted
  <2>6. CellOk(a, s2)
    BY <2>1, <2>2, <2>3, <2>4 DEF CellOk
  <2>7. QED
    BY <2>5, <2>6
<1>3. /\ DOMAIN s2 = StoreFields /\ s2.backend \in Backends /\ s2.next \in Nat /\ s2.fresh \in Nat
      /\ DOMAIN s2.desc = Constructors
  BY DEF Shape, Shrinks, SameFrame
<1>4. QED
  BY <1>1, <1>2, <1>3 DEF Shape

\* A step that loses no arena cell keeps the frames.
LEMMA ShrinkFrames ==
  ASSUME NEW s, NEW s2, FramesOk(s), Shrinks(s, s2),
         \A a \in DOMAIN s.cells : IsArena(a, s) => a \in DOMAIN s2.cells
  PROVE  FramesOk(s2)
<1>1. ASSUME NEW fr, NEW w, HalfOk(fr, w, s), \A j \in DOMAIN fr : \A a \in fr[j] : IsArena(a, s)
      PROVE  HalfOk(fr, w, s2)
  <2>0. fr \in Seq(SUBSET DOMAIN s.cells)
    BY <1>1 DEF HalfOk
  <2>1. ASSUME NEW j \in DOMAIN fr, NEW a \in fr[j]
        PROVE  a \in DOMAIN s2.cells /\ a[1] = w /\ s2.cells[a].node.con # "Array"
    <3>1. a \in DOMAIN s.cells /\ a[1] = w /\ s.cells[a].node.con # "Array"
      BY <1>1, <2>0 DEF HalfOk
    <3>2. a \in DOMAIN s2.cells
      BY <1>1, <3>1
    <3>3. QED
      BY <3>1, <3>2 DEF Shrinks, SameCells
  <2>2. \A j \in 1..Len(fr) : fr[j] \in SUBSET DOMAIN s2.cells
    BY <2>0, <2>1
  <2>3. fr \in Seq(SUBSET DOMAIN s2.cells)
    BY <2>0, <2>2
  <2>4. QED
    BY <1>1, <2>1, <2>3 DEF HalfOk
<1>2. /\ \A j \in DOMAIN s.arena : \A a \in s.arena[j] : IsArena(a, s)
      /\ \A j \in DOMAIN s.arenaC : \A a \in s.arenaC[j] : IsArena(a, s)
  BY DEF IsArena, InFrames
<1>3. HalfOk(s.arena, "H", s2) /\ HalfOk(s.arenaC, "C", s2)
  BY <1>1, <1>2 DEF FramesOk
<1>4. s2.arena = s.arena /\ s2.arenaC = s.arenaC
  BY DEF Shrinks, SameFrame
<1>5. QED
  BY <1>3, <1>4 DEF FramesOk

\* The cells of the frames are alive, and constructors.
LEMMA ArenaLives ==
  ASSUME NEW s, FramesOk(s), NEW a, IsArena(a, s)
  PROVE  a \in DOMAIN s.cells /\ s.cells[a].node.con # "Array"
<1>1. ASSUME NEW fr, NEW w, HalfOk(fr, w, s), InFrames(a, fr)
      PROVE  a \in DOMAIN s.cells /\ s.cells[a].node.con # "Array"
  <2>1. PICK j \in DOMAIN fr : a \in fr[j]
    BY <1>1 DEF InFrames
  <2>2. fr[j] \in SUBSET DOMAIN s.cells
    BY <1>1 DEF HalfOk
  <2>3. QED
    BY <1>1, <2>1, <2>2 DEF HalfOk
<1>2. QED
  BY <1>1 DEF IsArena, FramesOk

-----------------------------------------------------------------------------
(* Counting, and what keeps the invariant.                                 *)

(* Three numbers whose sum is told.                                        *)
LEMMA TotalType ==
  ASSUME NEW s, Shape(s), NEW X, NEW e \in [Slots -> Anything], NEW w \in Seq(Anything), NEW a
  PROVE  /\ Occ(e, a) \in Nat /\ Occ(w, a) \in Nat /\ Edges(s.cells, X, a) \in Nat
         /\ Total(s, e, w, X, a) \in Nat
<1>1. IsFiniteSet(DOMAIN e) /\ IsFiniteSet(DOMAIN w)
  <2>1. DOMAIN e = Slots /\ DOMAIN w = 1..Len(w) /\ Len(w) \in Nat
    OBVIOUS
  <2>2. QED
    BY <2>1, FS_Interval, ParityAssumption
<1>2. Occ(e, a) \in Nat /\ Occ(w, a) \in Nat
  BY <1>1, OccType
<1>3. Edges(s.cells, X, a) \in Nat
  BY ShapePlain, EdgesType
<1>4. QED
  BY <1>2, <1>3 DEF Total

(* References may change hands, as long as they stay as many.              *)
LEMMA Rehold ==
  ASSUME NEW s, NEW e, NEW w, NEW X, NEW R, NEW nl, NEW nb, Good(s, e, w, X, R, nl, nb),
         NEW e2 \in [Slots -> Anything], NEW w2 \in Seq(Anything),
         \A a \in Addresses : Occ(e2, a) + Occ(w2, a) = Occ(e, a) + Occ(w, a)
  PROVE  Good(s, e2, w2, X, R, nl, nb)
<1>1. Holding(e2, w2, X, s)
  BY DEF Good, Holding
<1>2. \A a \in Addresses : Total(s, e2, w2, X, a) = Total(s, e, w, X, a)
  BY DEF Total
<1>3. Exact(s, e2, w2, X)
  BY <1>2 DEF Good, Exact
<1>4. QED
  BY <1>1, <1>3 DEF Good

(* A step that only counts keeps everything but the counts.                *)
LEMMA RecountBytes ==
  ASSUME NEW s, NEW s2, Recounted(s, s2), NEW D, D \subseteq DOMAIN s.cells
  PROVE  Bytes(s2, D) = Bytes(s, D)
<1>1. \A a \in D : s2.cells[a].bytes = s.cells[a].bytes
  BY DEF Recounted, SameCells
<1>2. [a \in D |-> s2.cells[a].bytes] = [a \in D |-> s.cells[a].bytes]
  BY <1>1
<1>3. QED
  BY <1>2 DEF Bytes

\* So it keeps the shape, the pool, the frames and the books.
LEMMA RecountShape ==
  ASSUME NEW s, NEW s2, Recounted(s, s2), Shape(s), NEW R, PoolOk(s, R), FramesOk(s)
  PROVE  /\ Shape(s2) /\ PoolOk(s2, R) /\ FramesOk(s2) /\ Shrinks(s, s2)
         /\ CountedIn(s2) = CountedIn(s) /\ ArenaIn(s2) = ArenaIn(s)
         /\ \A X, a : Edges(s2.cells, X, a) = Edges(s.cells, X, a)
         /\ \A nl, nb : Books(s, nl, nb) => Books(s2, nl, nb)
<1>1. Shrinks(s, s2)
  BY DEF Recounted, Shrinks
<1>2. Shape(s2)
  BY <1>1, ShrinkShape DEF Recounted, Shape
<1>3. FramesOk(s2)
  BY <1>1, ShrinkFrames DEF Recounted
<1>4. PoolOk(s2, R)
  <2>1. \A a : Minted(a, s2) <=> Minted(a, s)
    BY DEF Minted, Recounted, SameFrame
  <2>2. s2.pool = s.pool /\ DOMAIN s2.cells = DOMAIN s.cells
    BY DEF Recounted
  <2>3. QED
    BY <2>1, <2>2 DEF PoolOk
<1>5. \A a : IsArena(a, s2) <=> IsArena(a, s)
  BY DEF Recounted, SameFrame, IsArena
<1>6. CountedIn(s2) = CountedIn(s) /\ ArenaIn(s2) = ArenaIn(s)
  BY <1>5 DEF CountedIn, ArenaIn, Recounted
<1>7. ASSUME NEW X, NEW a PROVE Edges(s2.cells, X, a) = Edges(s.cells, X, a)
  <2>1. Plain(s.cells) /\ Plain(s2.cells)
    BY <1>2, ShapePlain
  <2>2. \A k \in DOMAIN s.cells : s2.cells[k].node = s.cells[k].node
    BY DEF Recounted, SameCells
  <2>3. DOMAIN s2.cells = DOMAIN s.cells
    BY DEF Recounted
  <2>4. QED
    BY <2>1, <2>2, <2>3, EdgesSame
<1>8. ASSUME NEW nl, NEW nb, Books(s, nl, nb) PROVE Books(s2, nl, nb)
  <2>1. CountedIn(s) \subseteq DOMAIN s.cells /\ ArenaIn(s) \subseteq DOMAIN s.cells
    BY DEF CountedIn, ArenaIn
  <2>2. Bytes(s2, CountedIn(s)) = Bytes(s, CountedIn(s)) /\ Bytes(s2, ArenaIn(s)) = Bytes(s, ArenaIn(s))
    BY <2>1, RecountBytes
  <2>3. s2.stats = s.stats
    BY DEF Recounted
  <2>4. QED
    BY <1>6, <1>8, <2>2, <2>3 DEF Books
<1>9. QED
  BY <1>1, <1>2, <1>3, <1>4, <1>6, <1>7, <1>8

(* One count changed.                                                      *)
LEMMA SetRcIs ==
  ASSUME NEW s, Shape(s), NEW a \in DOMAIN s.cells, NEW n \in Nat
  PROVE  /\ Recounted(s, SetRc(a, n, s))
         /\ SetRc(a, n, s).cells[a].rc = n
         /\ \A b \in DOMAIN s.cells : b # a => SetRc(a, n, s).cells[b].rc = s.cells[b].rc
<1> DEFINE s2 == SetRc(a, n, s)
<1>1. DOMAIN s = StoreFields
  BY DEF Shape
<1>2. s2 = [s EXCEPT !.cells = [s.cells EXCEPT ![a] = [s.cells[a] EXCEPT !.rc = n]]]
  BY DEF SetRc
<1>3. /\ DOMAIN s2 = StoreFields /\ s2.cells = [s.cells EXCEPT ![a] = [s.cells[a] EXCEPT !.rc = n]]
      /\ s2.backend = s.backend /\ s2.next = s.next /\ s2.desc = s.desc /\ s2.reserved = s.reserved
      /\ s2.arena = s.arena /\ s2.arenaC = s.arenaC /\ s2.stats = s.stats /\ s2.pool = s.pool
      /\ s2.fresh = s.fresh /\ s2.err = s.err
  BY <1>1, <1>2 DEF StoreFields
<1> HIDE DEF s2
<1>4. \A b \in DOMAIN s.cells : s.cells[b] \in Cell
  BY ShapePlain
<1>5. /\ s2.cells[a] \in Cell /\ s2.cells[a].rc = n /\ s2.cells[a].node = s.cells[a].node
      /\ s2.cells[a].bytes = s.cells[a].bytes
  <2>1. s2.cells[a] = [s.cells[a] EXCEPT !.rc = n]
    BY <1>3
  <2>2. s.cells[a] \in Cell
    BY <1>4
  <2>3. QED
    BY <2>1, <2>2 DEF Cell
<1>6. \A b \in DOMAIN s.cells : b # a => s2.cells[b] = s.cells[b]
  BY <1>3
<1>7. DOMAIN s2.cells = DOMAIN s.cells
  BY <1>3
<1>8. Recounted(s, s2)
  BY <1>3, <1>4, <1>5, <1>6, <1>7 DEF Recounted, SameFrame, SameCells
<1>9. QED
  BY <1>5, <1>6, <1>8 DEF s2

(* A count that moves with the references.                                 *)
LEMMA RecountGood ==
  ASSUME NEW s, NEW e, NEW w, NEW X, NEW R, NEW nl, NEW nb, Good(s, e, w, X, R, nl, nb),
         NEW s2, Recounted(s, s2), NEW w2 \in Seq(Anything),
         \A a \in Addresses : ~IsArena(a, s) =>
           IF a \in DOMAIN s.cells
             THEN s2.cells[a].rc - s.cells[a].rc = Occ(w2, a) - Occ(w, a)
             ELSE Occ(w2, a) = Occ(w, a)
  PROVE  Good(s2, e, w2, X, R, nl, nb)
<1>1. /\ Shape(s2) /\ PoolOk(s2, R) /\ FramesOk(s2) /\ ArenaIn(s2) = ArenaIn(s) /\ Books(s2, nl, nb)
      /\ \A a : Edges(s2.cells, X, a) = Edges(s.cells, X, a)
  BY RecountShape DEF Good
<1>2. Holding(e, w2, X, s2)
  BY <1>1 DEF Good, Holding
<1>3. ASSUME NEW a \in Addresses, ~IsArena(a, s2)
      PROVE  Total(s2, e, w2, X, a) = IF a \in DOMAIN s2.cells THEN s2.cells[a].rc ELSE 0
  <2>1. ~IsArena(a, s)
    BY <1>3, ArenaSame DEF Recounted, SameFrame
  <2>2. Total(s, e, w, X, a) = IF a \in DOMAIN s.cells THEN s.cells[a].rc ELSE 0
    BY <2>1 DEF Good, Exact
  <2>3. DOMAIN s2.cells = DOMAIN s.cells
    BY DEF Recounted
  <2>4. /\ Occ(e, a) \in Nat /\ Occ(w, a) \in Nat /\ Edges(s.cells, X, a) \in Nat /\ Occ(w2, a) \in Nat
    BY TotalType DEF Good, Holding
  <2>5. Edges(s2.cells, X, a) = Edges(s.cells, X, a)
    BY <1>1
  <2>6. Total(s2, e, w2, X, a) = Total(s, e, w, X, a) + (Occ(w2, a) - Occ(w, a))
    BY <2>4, <2>5 DEF Total
  <2>7. CASE a \in DOMAIN s.cells
    <3>1. s.cells[a].rc \in Nat /\ s2.cells[a].rc \in Nat
      <4>1. s.cells[a] \in Cell /\ s2.cells[a] \in Cell
        BY <1>1, <2>3, <2>7, ShapePlain DEF Good
      <4>2. QED
        BY <4>1 DEF Cell
    <3>2. s2.cells[a].rc - s.cells[a].rc = Occ(w2, a) - Occ(w, a)
      BY <2>1, <2>7
    <3>3. QED
      BY <2>2, <2>3, <2>4, <2>6, <2>7, <3>1, <3>2
  <2>8. CASE a \notin DOMAIN s.cells
    <3>1. Occ(w2, a) = Occ(w, a)
      BY <2>1, <2>8
    <3>2. QED
      BY <2>2, <2>3, <2>4, <2>6, <2>8, <3>1
  <2>9. QED
    BY <2>7, <2>8
<1>4. Exact(s2, e, w2, X)
  BY <1>3 DEF Exact
<1>5. QED
  BY <1>1, <1>2, <1>4 DEF Good

\* A value put before the others.
LEMMA OccPush ==
  ASSUME NEW v \in Anything, NEW w \in Seq(Anything), NEW a
  PROVE  Occ(<<v>> \o w, a) = (IF v = a THEN 1 ELSE 0) + Occ(w, a)
<1>1. <<v>> \in Seq(Anything)
  OBVIOUS
<1>2. Occ(<<v>> \o w, a) = Occ(<<v>>, a) + Occ(w, a)
  BY <1>1, OccJoin
<1>3. QED
  BY <1>2, OccOne

(* What is referred to lives.                                              *)
LEMMA Referenced ==
  ASSUME NEW s, NEW e, NEW w, NEW X, NEW R, NEW nl, NEW nb, Good(s, e, w, X, R, nl, nb),
         NEW a \in Addresses, ~IsArena(a, s)
  PROVE  /\ Total(s, e, w, X, a) # 0 => a \in DOMAIN s.cells
         /\ a \in DOMAIN s.cells => s.cells[a].rc = Total(s, e, w, X, a)
         /\ \A x \in Slots : e[x] = a => Total(s, e, w, X, a) # 0
         /\ \A j \in DOMAIN w : w[j] = a => Total(s, e, w, X, a) # 0
         /\ \A k \in DOMAIN s.cells \ X : \A j \in DOMAIN s.cells[k].node.fs :
              s.cells[k].node.fs[j] = a => Total(s, e, w, X, a) # 0
<1>1. Total(s, e, w, X, a) = IF a \in DOMAIN s.cells THEN s.cells[a].rc ELSE 0
  BY DEF Good, Exact
<1>2. /\ Occ(e, a) \in Nat /\ Occ(w, a) \in Nat /\ Edges(s.cells, X, a) \in Nat
  BY TotalType DEF Good, Holding
<1>3. ASSUME NEW x \in Slots, e[x] = a PROVE Occ(e, a) # 0
  <2>1. DOMAIN e = Slots /\ IsFiniteSet(Slots)
    BY ParityAssumption DEF Good, Holding
  <2>2. QED
    BY <1>3, <2>1, OccType
<1>4. ASSUME NEW j \in DOMAIN w, w[j] = a PROVE Occ(w, a) # 0
  <2>1. DOMAIN w = 1..Len(w) /\ Len(w) \in Nat
    BY DEF Good, Holding
  <2>2. IsFiniteSet(DOMAIN w)
    BY <2>1, FS_Interval
  <2>3. QED
    BY <1>4, <2>2, OccType
<1>5. ASSUME NEW k \in DOMAIN s.cells \ X, NEW j \in DOMAIN s.cells[k].node.fs,
             s.cells[k].node.fs[j] = a
      PROVE  Edges(s.cells, X, a) # 0
  <2>1. Plain(s.cells)
    BY ShapePlain DEF Good
  <2>2. Edges(s.cells, X, a) = 0 => s.cells[k].node.fs[j] # a
    BY <2>1, EdgesType
  <2>3. QED
    BY <1>5, <2>2
<1>6. QED
  BY <1>1, <1>2, <1>3, <1>4, <1>5 DEF Total

\* Doing nothing only counts.
LEMMA RecountSelf == ASSUME NEW s, Shape(s) PROVE Recounted(s, s)
  BY ShapePlain DEF Shape, Recounted, SameFrame, SameCells

(* A reference more.                                                       *)
LEMMA IncrefGood ==
  ASSUME NEW s, NEW e, NEW w, NEW X, NEW R, NEW nl, NEW nb, Good(s, e, w, X, R, nl, nb),
         NEW v \in Anything,
         v \in Addresses /\ ~IsArena(v, s) => v \in DOMAIN s.cells
  PROVE  /\ Good(Incref(v, s), e, <<v>> \o w, X, R, nl, nb)
         /\ Recounted(s, Incref(v, s))
<1> DEFINE s2 == Incref(v, s)
           w2 == <<v>> \o w
<1>0. Shape(s) /\ w \in Seq(Anything)
  BY DEF Good, Holding
<1>1. w2 \in Seq(Anything)
  BY <1>0
<1>2. \A a : Occ(w2, a) = (IF v = a THEN 1 ELSE 0) + Occ(w, a)
  BY <1>0, OccPush
<1>3. \A a : Occ(w, a) \in Nat
  BY TotalType DEF Good, Holding
<1> HIDE DEF w2
<1>4. CASE v \notin Addresses \/ IsArena(v, s)
  <2>1. s2 = s
    BY <1>4, AddressIs DEF Incref
  <2>2. Recounted(s, s2)
    BY <1>0, <2>1, RecountSelf
  <2> HIDE DEF s2
  <2>3. \A a \in Addresses : ~IsArena(a, s) => Occ(w2, a) = Occ(w, a)
    BY <1>2, <1>3, <1>4
  <2>4. \A a \in Addresses : a \in DOMAIN s.cells => s2.cells[a].rc - s.cells[a].rc = 0
    <3>1. \A a \in DOMAIN s.cells : s.cells[a] \in Cell
      BY <1>0, ShapePlain
    <3>2. QED
      BY <2>1, <3>1 DEF Cell
  <2>5. \A a \in Addresses : ~IsArena(a, s) => Occ(w2, a) - Occ(w, a) = 0
    BY <1>3, <2>3
  <2>6. Good(s2, e, w2, X, R, nl, nb)
    BY <1>1, <2>2, <2>3, <2>4, <2>5, RecountGood
  <2>7. QED
    BY <2>2, <2>6 DEF s2, w2
<1>5. CASE v \in Addresses /\ ~IsArena(v, s)
  <2>1. v \in DOMAIN s.cells
    BY <1>5
  <2>2. s.cells[v].rc \in Nat
    <3>1. s.cells[v] \in Cell
      BY <1>0, <2>1, ShapePlain
    <3>2. QED
      BY <3>1 DEF Cell
  <2>3. s2 = SetRc(v, s.cells[v].rc + 1, s)
    BY <1>5, <2>1, AddressIs DEF Incref
  <2> DEFINE n == s.cells[v].rc + 1
  <2>4. n \in Nat /\ n - s.cells[v].rc = 1
    BY <2>2
  <2> HIDE DEF n
  <2>5. /\ Recounted(s, s2) /\ s2.cells[v].rc = n
        /\ \A b \in DOMAIN s.cells : b # v => s2.cells[b].rc = s.cells[b].rc
    BY <1>0, <2>1, <2>3, <2>4, SetRcIs DEF n
  <2> HIDE DEF s2
  <2>6. ASSUME NEW a \in Addresses, ~IsArena(a, s)
        PROVE  IF a \in DOMAIN s.cells
                 THEN s2.cells[a].rc - s.cells[a].rc = Occ(w2, a) - Occ(w, a)
                 ELSE Occ(w2, a) = Occ(w, a)
    <3>1. CASE a = v
      <4>1. Occ(w2, a) - Occ(w, a) = 1
        BY <1>2, <1>3, <3>1
      <4>2. QED
        BY <2>1, <2>4, <2>5, <3>1, <4>1
    <3>2. CASE a # v
      <4>1. Occ(w2, a) = Occ(w, a) /\ Occ(w2, a) - Occ(w, a) = 0
        BY <1>2, <1>3, <3>2
      <4>2. a \in DOMAIN s.cells => s2.cells[a].rc = s.cells[a].rc /\ s.cells[a].rc \in Nat
        <5>1. a \in DOMAIN s.cells => s.cells[a] \in Cell
          BY <1>0, ShapePlain
        <5>2. QED
          BY <2>5, <3>2, <5>1 DEF Cell
      <4>3. QED
        BY <4>1, <4>2
    <3>3. QED
      BY <3>1, <3>2
  <2>7. Good(s2, e, w2, X, R, nl, nb)
    BY <1>1, <2>5, <2>6, RecountGood
  <2>8. QED
    BY <2>5, <2>7 DEF s2, w2
<1>6. QED
  BY <1>4, <1>5

(* A cell reads back what is in it.                                        *)
LEMMA FieldsAre ==
  ASSUME NEW s, Shape(s), NEW a \in DOMAIN s.cells
  PROVE  FieldsOf(a, s) = s.cells[a].node.fs
<1> DEFINE n == s.cells[a].node
<1>1. /\ s.cells[a] \in Cell /\ n.fs # <<>>
      /\ n.con = "Array" => Len(n.fs) = 2 /\ SlotKind(n.fs[1]) = SlotKind(n.fs[2])
      /\ n.con # "Array" /\ a[1] = "C" => s.desc[n.con] = SlotKinds(n.fs)
      /\ Minted(a, s)
  BY DEF Shape, CellOk
<1>2. n.fs \in Seq(Storables)
  BY ShapePlain
<1>3. a[1] = "H" \/ a[1] = "C"
  BY <1>1 DEF Minted, HAddr, CAddr
<1>4. ASSUME NEW kinds, \A j \in DOMAIN n.fs : SlotKind(n.fs[j]) = kinds[j]
      PROVE  DecodeSlots(kinds, n.fs) = n.fs
  <2>1. [j \in DOMAIN n.fs |-> n.fs[j]] = n.fs
    BY <1>2
  <2>2. [j \in DOMAIN n.fs |-> IF SlotKind(n.fs[j]) = kinds[j] THEN n.fs[j] ELSE Lit("garbage")]
          = [j \in DOMAIN n.fs |-> n.fs[j]]
    BY <1>4
  <2>3. QED
    BY <2>1, <2>2 DEF DecodeSlots
<1>5. CASE a[1] = "H"
  BY <1>5 DEF FieldsOf
<1>6. CASE a[1] = "C" /\ n.con = "Array"
  <2> DEFINE kinds == [j \in DOMAIN n.fs |-> SlotKind(n.fs[1])]
  <2>1. DOMAIN n.fs = 1..2
    BY <1>1, <1>2, <1>6
  <2>2. \A j \in DOMAIN n.fs : SlotKind(n.fs[j]) = kinds[j]
    BY <1>1, <1>6, <2>1
  <2> HIDE DEF kinds
  <2>3. DecodeSlots(kinds, n.fs) = n.fs
    BY <1>4, <2>2
  <2>4. FieldsOf(a, s) = DecodeSlots(kinds, n.fs)
    BY <1>1, <1>6 DEF FieldsOf, kinds
  <2>5. QED
    BY <2>3, <2>4
<1>7. CASE a[1] = "C" /\ n.con # "Array"
  <2>1. \A j \in DOMAIN n.fs : SlotKind(n.fs[j]) = SlotKinds(n.fs)[j]
    BY DEF SlotKinds
  <2>2. DecodeSlots(SlotKinds(n.fs), n.fs) = n.fs
    BY <1>4, <2>1
  <2>3. FieldsOf(a, s) = DecodeSlots(SlotKinds(n.fs), n.fs)
    BY <1>1, <1>7 DEF FieldsOf
  <2>4. QED
    BY <2>2, <2>3
<1>8. QED
  BY <1>3, <1>5, <1>6, <1>7

-----------------------------------------------------------------------------
(* The death of a cell.                                                    *)

\* One cell gone.
Lost(s, s2, a) == /\ SameFrame(s, s2) /\ DOMAIN s2.stats = StatFields
                  /\ s2.cells = Restrict(s.cells, DOMAIN s.cells \ {a})

\* What the loss of a cell keeps.
LEMMA LostIs ==
  ASSUME NEW s, Shape(s), NEW a \in DOMAIN s.cells, NEW s2, Lost(s, s2, a)
  PROVE  /\ DOMAIN s2.cells = DOMAIN s.cells \ {a}
         /\ \A b \in DOMAIN s.cells : b # a => s2.cells[b] = s.cells[b]
         /\ Shrinks(s, s2) /\ Shape(s2)
         /\ \A b : IsArena(b, s2) <=> IsArena(b, s)
<1>1. /\ DOMAIN s2.cells = DOMAIN s.cells \ {a}
      /\ \A b \in DOMAIN s.cells : b # a => s2.cells[b] = s.cells[b]
  BY DEF Lost, Restrict
<1>2. \A b \in DOMAIN s.cells : s.cells[b] \in Cell
  BY ShapePlain
<1>3. Shrinks(s, s2)
  BY <1>1, <1>2 DEF Shrinks, SameCells, Lost
<1>4. Shape(s2)
  BY <1>3, ShrinkShape DEF Lost
<1>5. \A b : IsArena(b, s2) <=> IsArena(b, s)
  BY DEF IsArena, Lost, SameFrame
<1>6. QED
  BY <1>1, <1>3, <1>4, <1>5

(* The counts after a cell with one reference goes: its fields are on their *)
(* way instead.                                                            *)
LEMMA LostExact ==
  ASSUME NEW s, NEW e, NEW w, NEW X, NEW R, NEW nl, NEW nb, NEW a \in Addresses,
         Good(s, e, <<a>> \o w, X, R, nl, nb), w \in Seq(Anything),
         ~IsArena(a, s), a \in DOMAIN s.cells, ~(s.cells[a].rc > 1),
         NEW s2, Lost(s, s2, a)
  PROVE  LET w2 == s.cells[a].node.fs \o w
         IN w2 \in Seq(Anything) /\ Exact(s2, e, w2, X) /\ Holding(e, w2, X, s2)
<1> DEFINE fs == s.cells[a].node.fs
           w1 == <<a>> \o w
           w2 == fs \o w
<1>0. Shape(s) /\ Shape(s2) /\ e \in [Slots -> Anything] /\ w1 \in Seq(Anything)
      /\ X \subseteq ArenaIn(s) /\ a \in Anything
  BY LostIs DEF Good, Holding, Anything, Storables
<1>1. fs \in Seq(Anything) /\ s.cells[a].rc \in Nat
  <2>1. s.cells[a] \in Cell /\ fs \in Seq(Storables)
    BY <1>0, ShapePlain
  <2>2. QED
    BY <2>1 DEF Cell, Anything
<1>2. w2 \in Seq(Anything)
  BY <1>1
<1>3. a \notin X
  BY <1>0 DEF ArenaIn
<1>4. /\ DOMAIN s2.cells = DOMAIN s.cells \ {a}
      /\ \A b \in DOMAIN s.cells : b # a => s2.cells[b] = s.cells[b]
      /\ \A b : IsArena(b, s2) <=> IsArena(b, s)
  BY <1>0, LostIs
<1>5. ASSUME NEW b PROVE Edges(s.cells, X, b) = Edges(s2.cells, X, b) + Occ(fs, b)
  <2>1. Plain(s.cells) /\ Plain(s2.cells)
    BY <1>0, ShapePlain
  <2>2. Edges(s.cells, X, b) = Edges(s.cells, X \cup {a}, b) + Occ(fs, b)
    BY <1>3, <2>1, EdgeSplit
  <2>3. Edges(s2.cells, X \cup {a}, b) = Edges(s.cells, X \cup {a}, b)
    BY <1>4, <2>1, EdgesSame
  <2>4. At(s2.cells, X \cup {a}, b) = At(s2.cells, X, b)
    <3>1. \A p \in Places(s2.cells) : p[1] # a
      BY <1>4, <2>1, PlaceIs
    <3>2. QED
      BY <3>1 DEF At
  <2>5. QED
    BY <2>2, <2>3, <2>4 DEF Edges
<1>6. \A b : Occ(w1, b) = (IF a = b THEN 1 ELSE 0) + Occ(w, b)
  BY <1>0, OccPush
<1>7. \A b : Occ(w2, b) = Occ(fs, b) + Occ(w, b)
  BY <1>1, OccJoin
<1>8. \A b : /\ Occ(e, b) \in Nat /\ Occ(w1, b) \in Nat /\ Occ(w, b) \in Nat /\ Occ(fs, b) \in Nat
             /\ Edges(s.cells, X, b) \in Nat /\ Edges(s2.cells, X, b) \in Nat
  BY <1>0, <1>1, TotalType
<1> HIDE DEF fs, w1, w2
<1>9. ASSUME NEW b \in Addresses, ~IsArena(b, s2)
      PROVE  Total(s2, e, w2, X, b) = IF b \in DOMAIN s2.cells THEN s2.cells[b].rc ELSE 0
  <2>1. Total(s, e, w1, X, b) = IF b \in DOMAIN s.cells THEN s.cells[b].rc ELSE 0
    BY <1>4, <1>9 DEF Good, Exact, w1
  <2>2. Total(s, e, w1, X, b) = Occ(e, b) + Occ(w1, b) + Edges(s.cells, X, b)
    BY DEF Total
  <2>3. Total(s2, e, w2, X, b) = Occ(e, b) + Occ(w2, b) + Edges(s2.cells, X, b)
    BY DEF Total
  <2>4. Total(s, e, w1, X, b) = Total(s2, e, w2, X, b) + (IF a = b THEN 1 ELSE 0)
    BY <1>5, <1>6, <1>7, <1>8, <2>2, <2>3
  <2>5. Total(s2, e, w2, X, b) \in Nat
    BY <1>7, <1>8, <2>3
  <2>6. CASE b = a
    BY <1>1, <1>4, <2>1, <2>4, <2>5, <2>6
  <2>7. CASE b # a
    BY <1>4, <2>1, <2>4, <2>5, <2>7
  <2>8. QED
    BY <2>6, <2>7
<1>10. Exact(s2, e, w2, X)
  BY <1>9 DEF Exact
<1>11. X \subseteq ArenaIn(s2)
  BY <1>0, <1>3, <1>4 DEF ArenaIn
<1>12. Holding(e, w2, X, s2)
  BY <1>0, <1>2, <1>11 DEF Holding
<1>13. QED
  BY <1>2, <1>10, <1>12 DEF w2, fs

(* A sum of bytes with a cell less or more.                                *)
LEMMA BytesStep ==
  ASSUME NEW s, NEW D, IsFiniteSet(D), \A a \in D : s.cells[a].bytes \in Nat,
         NEW s2, NEW D2, IsFiniteSet(D2), \A a \in D2 : s2.cells[a].bytes \in Nat,
         NEW a, D \ {a} = D2 \ {a}, \A b \in D \ {a} : s2.cells[b].bytes = s.cells[b].bytes
  PROVE  /\ Bytes(s, D) \in Nat /\ Bytes(s2, D2) \in Nat
         /\ Bytes(s2, D2) - (IF a \in D2 THEN s2.cells[a].bytes ELSE 0)
              = Bytes(s, D) - (IF a \in D THEN s.cells[a].bytes ELSE 0)
<1> DEFINE f == [b \in D |-> s.cells[b].bytes]
           h == [b \in D2 |-> s2.cells[b].bytes]
<1>1. DOMAIN f = D /\ DOMAIN h = D2
  OBVIOUS
<1>2. \A b \in D : f[b] = s.cells[b].bytes
  OBVIOUS
<1>3. \A b \in D2 : h[b] = s2.cells[b].bytes
  OBVIOUS
<1>4. \A b \in D \ {a} : f[b] = h[b]
  BY <1>2, <1>3
<1>5. Bytes(s, D) = SumFunction(f) /\ Bytes(s2, D2) = SumFunction(h)
  BY DEF Bytes
<1> HIDE DEF f, h
<1>6. /\ SumFunction(f) \in Nat /\ SumFunction(h) \in Nat
      /\ SumFunction(h) - (IF a \in DOMAIN h THEN h[a] ELSE 0)
           = SumFunction(f) - (IF a \in DOMAIN f THEN f[a] ELSE 0)
  BY <1>1, <1>2, <1>3, <1>4, SumOther
<1>7. QED
  BY <1>1, <1>2, <1>3, <1>5, <1>6

\* Finitely many counted and arena cells, each of so many bytes.
LEMMA InFinite ==
  ASSUME NEW s, Shape(s)
  PROVE  /\ IsFiniteSet(CountedIn(s)) /\ IsFiniteSet(ArenaIn(s))
         /\ \A a \in DOMAIN s.cells : s.cells[a].bytes \in Nat
<1>1. CountedIn(s) \in SUBSET DOMAIN s.cells /\ ArenaIn(s) \in SUBSET DOMAIN s.cells
  BY DEF CountedIn, ArenaIn
<1>2. \A a \in DOMAIN s.cells : s.cells[a] \in Cell
  BY ShapePlain
<1>3. QED
  BY <1>1, <1>2, FS_Subset DEF Shape, Cell

\* The books after a loss: the cell becomes a shell, or leaves them.
LEMMA LostBooks ==
  ASSUME NEW s, Shape(s), NEW nl, NEW nb, Books(s, nl, nb),
         NEW a \in DOMAIN s.cells, ~IsArena(a, s), NEW s2, Lost(s, s2, a)
  PROVE  /\ s.cells[a].bytes \in Nat
         /\ ArenaIn(s2) = ArenaIn(s) /\ Bytes(s2, ArenaIn(s2)) = Bytes(s, ArenaIn(s))
         /\ s2.stats = s.stats => Books(s2, nl + 1, nb + s.cells[a].bytes)
         /\ s2.stats = RecordFree(s.cells[a].bytes, s.stats) => Books(s2, nl, nb)
<1>1. /\ DOMAIN s2.cells = DOMAIN s.cells \ {a} /\ Shape(s2)
      /\ \A b \in DOMAIN s.cells : b # a => s2.cells[b] = s.cells[b]
      /\ \A b : IsArena(b, s2) <=> IsArena(b, s)
  BY LostIs
<1>2. ArenaIn(s2) = ArenaIn(s) /\ CountedIn(s2) = CountedIn(s) \ {a} /\ a \in CountedIn(s)
  BY <1>1 DEF ArenaIn, CountedIn
<1>3. /\ IsFiniteSet(CountedIn(s)) /\ IsFiniteSet(ArenaIn(s)) /\ IsFiniteSet(CountedIn(s2))
      /\ \A b \in DOMAIN s.cells : s.cells[b].bytes \in Nat
      /\ \A b \in DOMAIN s2.cells : s2.cells[b].bytes \in Nat
  BY <1>1, InFinite
<1>4. CountedIn(s) \subseteq DOMAIN s.cells /\ CountedIn(s2) \subseteq DOMAIN s2.cells
  BY DEF CountedIn
<1>5. \A b \in CountedIn(s) \ {a} : s2.cells[b].bytes = s.cells[b].bytes
  BY <1>1, <1>4
<1>6. /\ Bytes(s, CountedIn(s)) \in Nat /\ Bytes(s2, CountedIn(s2)) \in Nat
      /\ Bytes(s2, CountedIn(s2)) - (IF a \in CountedIn(s2) THEN s2.cells[a].bytes ELSE 0)
           = Bytes(s, CountedIn(s)) - (IF a \in CountedIn(s) THEN s.cells[a].bytes ELSE 0)
  <2>1. CountedIn(s) \ {a} = CountedIn(s2) \ {a}
    BY <1>2
  <2>2. QED
    BY <1>3, <1>4, <1>5, <2>1, BytesStep
<1>7. Bytes(s2, CountedIn(s2)) = Bytes(s, CountedIn(s)) - s.cells[a].bytes /\ s.cells[a].bytes \in Nat
  BY <1>2, <1>3, <1>6
<1>8. /\ Cardinality(CountedIn(s2)) = Cardinality(CountedIn(s)) - 1
      /\ Cardinality(CountedIn(s)) \in Nat
  BY <1>2, <1>3, FS_RemoveElement, FS_CardinalityType
<1>9. Bytes(s2, ArenaIn(s2)) = Bytes(s, ArenaIn(s))
  <2>1. \A b \in ArenaIn(s) : s2.cells[b] = s.cells[b]
    BY <1>1, <1>2 DEF ArenaIn
  <2>2. [b \in ArenaIn(s) |-> s2.cells[b].bytes] = [b \in ArenaIn(s) |-> s.cells[b].bytes]
    BY <2>1
  <2>3. QED
    BY <1>2, <2>2 DEF Bytes
<1>10. nl \in Nat /\ nb \in Nat /\ s.stats.live = Cardinality(CountedIn(s)) + nl
       /\ s.stats.cur = Bytes(s, CountedIn(s)) + nb /\ s.stats.arena = Bytes(s, ArenaIn(s))
  BY DEF Books
<1>11. ASSUME s2.stats = s.stats PROVE Books(s2, nl + 1, nb + s.cells[a].bytes)
  BY <1>6, <1>7, <1>8, <1>9, <1>10, <1>11 DEF Books
<1>12. ASSUME s2.stats = RecordFree(s.cells[a].bytes, s.stats) PROVE Books(s2, nl, nb)
  <2>1. DOMAIN s.stats = StatFields
    BY DEF Shape
  <2>2. /\ s2.stats.live = s.stats.live - 1 /\ s2.stats.cur = s.stats.cur - s.cells[a].bytes
        /\ s2.stats.arena = s.stats.arena
    BY <1>12, <2>1 DEF RecordFree, StatFields
  <2>3. QED
    BY <1>6, <1>7, <1>8, <1>9, <1>10, <2>2 DEF Books
<1>13. QED
  BY <1>2, <1>7, <1>9, <1>11, <1>12

(* The worklist's measure shrinks with the cell.                           *)
LEMMA LostPlaces ==
  ASSUME NEW s, Shape(s), NEW a \in DOMAIN s.cells, NEW s2, Lost(s, s2, a)
  PROVE  /\ Cardinality(Places(s2.cells)) \in Nat
         /\ Cardinality(Places(s.cells))
              = Cardinality(Places(s2.cells)) + Len(s.cells[a].node.fs)
<1> DEFINE D == DOMAIN s.cells
<1>1. Plain(s.cells) /\ Plain(s2.cells)
  BY LostIs, ShapePlain
<1>2. /\ DOMAIN s2.cells = DOMAIN s.cells \ {a}
      /\ \A b \in DOMAIN s.cells : b # a => s2.cells[b] = s.cells[b]
  BY LostIs
<1>3. PlacesIn(s.cells, D) = Places(s.cells)
  <2>1. \A p \in Places(s.cells) : p[1] \in D
    BY <1>1, PlaceIs
  <2>2. QED
    BY <2>1 DEF PlacesIn
<1>4. PlacesIn(s.cells, D \ {a}) = Places(s2.cells)
  <2>1. ASSUME NEW p PROVE p \in PlacesIn(s.cells, D \ {a}) <=> p \in Places(s2.cells)
    <3>1. p \in Places(s.cells) <=> \E k \in DOMAIN s.cells : \E j \in DOMAIN s.cells[k].node.fs : p = <<k, j>>
      BY <1>1, PlaceIs
    <3>2. p \in Places(s2.cells) <=> \E k \in DOMAIN s2.cells : \E j \in DOMAIN s2.cells[k].node.fs : p = <<k, j>>
      BY <1>1, PlaceIs
    <3>3. QED
      BY <1>2, <3>1, <3>2 DEF PlacesIn
  <2>2. QED
    BY <2>1
<1>5. IsFiniteSet(Places(s2.cells)) /\ Cardinality(Places(s2.cells)) \in Nat
  BY <1>1, PlacesFinite, FS_CardinalityType
<1>6. a \in D \cap DOMAIN s.cells
  OBVIOUS
<1>7. Cardinality(PlacesIn(s.cells, D))
        = Cardinality(PlacesIn(s.cells, D \ {a})) + Cardinality(DOMAIN s.cells[a].node.fs)
  BY <1>1, <1>4, <1>5, <1>6, PlacesAdd
<1>8. Cardinality(DOMAIN s.cells[a].node.fs) = Len(s.cells[a].node.fs)
  <2>1. s.cells[a].node.fs \in Seq(Storables)
    BY ShapePlain
  <2> DEFINE n == Len(s.cells[a].node.fs)
  <2>2. DOMAIN s.cells[a].node.fs = 1..n /\ n \in Nat
    BY <2>1
  <2>3. Cardinality(1..n) = n
    BY <2>2, FS_Interval
  <2>4. QED
    BY <2>2, <2>3
<1>9. QED
  BY <1>3, <1>4, <1>5, <1>7, <1>8

\* A loss alone keeps the pool.
LEMMA LostPool ==
  ASSUME NEW s, Shape(s), NEW R, PoolOk(s, R), NEW a \in DOMAIN s.cells, NEW s2, Lost(s, s2, a),
         s2.pool = s.pool
  PROVE  PoolOk(s2, R)
<1>1. /\ DOMAIN s2.cells = DOMAIN s.cells \ {a}
      /\ s2.next = s.next /\ s2.fresh = s.fresh
  BY LostIs DEF Lost, SameFrame
<1>2. \A b : Minted(b, s) => Minted(b, s2)
  BY <1>1 DEF Minted
<1>3. QED
  BY <1>1, <1>2 DEF PoolOk

(* A freed C cell joins the pool of its size.                              *)
LEMMA PoolPush ==
  ASSUME NEW s, NEW R, PoolOk(s, R), NEW a \in Addresses, a[1] = "C", Minted(a, s),
         a \notin R \cup DOMAIN s.cells, \A n \in DOMAIN s.pool : \A j \in DOMAIN s.pool[n] : s.pool[n][j] # a,
         NEW m \in Nat, NEW s2, s2.pool = Extend(s.pool, m, <<a>> \o PoolOf(m, s)),
         s2.next = s.next, s2.fresh = s.fresh, s2.cells = s.cells
  PROVE  PoolOk(s2, R)
<1> DEFINE old == PoolOf(m, s)
           new == <<a>> \o old
<1>1. /\ old \in Seq(Addresses)
      /\ \A j \in DOMAIN old : m \in DOMAIN s.pool /\ old[j] = s.pool[m][j] /\ j \in DOMAIN s.pool[m]
  BY DEF PoolOf, PoolOk
<1>2. /\ new \in Seq(Addresses) /\ new[1] = a /\ DOMAIN new = 1..(Len(old) + 1)
      /\ \A j \in DOMAIN new : j # 1 => j - 1 \in DOMAIN old /\ new[j] = old[j - 1]
  BY <1>1
<1>3. /\ DOMAIN s2.pool = DOMAIN s.pool \cup {m} /\ s2.pool[m] = new
      /\ \A n \in DOMAIN s.pool : n # m => s2.pool[n] = s.pool[n]
  BY DEF Extend
<1> HIDE DEF new, old
<1>4. \A b : Minted(b, s) => Minted(b, s2)
  BY DEF Minted
<1>5. ASSUME NEW j \in DOMAIN new
      PROVE  /\ new[j][1] = "C" /\ Minted(new[j], s2) /\ new[j] \notin R \cup DOMAIN s2.cells
  <2>1. CASE j = 1
    BY <1>2, <1>4, <2>1
  <2>2. CASE j # 1
    <3>1. /\ m \in DOMAIN s.pool /\ j - 1 \in DOMAIN s.pool[m] /\ new[j] = s.pool[m][j - 1]
      BY <1>1, <1>2, <2>2
    <3>2. QED
      BY <1>4, <3>1 DEF PoolOk
  <2>3. QED
    BY <2>1, <2>2
<1>6. ASSUME NEW n \in DOMAIN s2.pool
      PROVE  /\ s2.pool[n] \in Seq(Addresses)
             /\ \A j \in DOMAIN s2.pool[n] :
                  /\ s2.pool[n][j][1] = "C" /\ Minted(s2.pool[n][j], s2)
                  /\ s2.pool[n][j] \notin R \cup DOMAIN s2.cells
  <2>1. CASE n = m
    BY <1>2, <1>3, <1>5, <2>1
  <2>2. CASE n # m
    BY <1>3, <1>4, <2>2 DEF PoolOk
  <2>3. QED
    BY <2>1, <2>2
<1>7. ASSUME NEW n \in DOMAIN s2.pool, NEW j \in DOMAIN s2.pool[n]
      PROVE  \/ n = m /\ j = 1 /\ s2.pool[n][j] = a
             \/ \E i \in DOMAIN s.pool[n] : /\ n \in DOMAIN s.pool /\ s2.pool[n][j] = s.pool[n][i]
                                            /\ i = IF n = m THEN j - 1 ELSE j
                                            /\ (n = m => j \in Int)
  <2>1. CASE n = m /\ j = 1
    BY <1>2, <1>3, <2>1
  <2>2. CASE n = m /\ j # 1
    <3>1. j \in DOMAIN new /\ new[j] = s2.pool[n][j] /\ j \in Int
      BY <1>2, <1>3, <2>2
    <3>2. j - 1 \in DOMAIN s.pool[m] /\ new[j] = s.pool[m][j - 1] /\ m \in DOMAIN s.pool
      BY <1>1, <1>2, <2>2, <3>1
    <3>3. QED
      BY <2>2, <3>1, <3>2
  <2>3. CASE n # m
    BY <1>3, <2>3
  <2>4. QED
    BY <2>1, <2>2, <2>3
<1>8. ASSUME NEW n \in DOMAIN s2.pool, NEW k \in DOMAIN s2.pool, NEW j \in DOMAIN s2.pool[n],
             NEW h \in DOMAIN s2.pool[k], s2.pool[n][j] = s2.pool[k][h]
      PROVE  n = k /\ j = h
  <2>1. CASE n = m /\ j = 1 /\ s2.pool[n][j] = a
    BY <1>7, <1>8, <2>1
  <2>2. CASE k = m /\ h = 1 /\ s2.pool[k][h] = a
    BY <1>7, <1>8, <2>2
  <2>3. CASE ~(n = m /\ j = 1 /\ s2.pool[n][j] = a) /\ ~(k = m /\ h = 1 /\ s2.pool[k][h] = a)
    <3>1. PICK i \in DOMAIN s.pool[n] : /\ n \in DOMAIN s.pool /\ s2.pool[n][j] = s.pool[n][i]
                                        /\ i = (IF n = m THEN j - 1 ELSE j) /\ (n = m => j \in Int)
      BY <1>7, <2>3
    <3>2. PICK l \in DOMAIN s.pool[k] : /\ k \in DOMAIN s.pool /\ s2.pool[k][h] = s.pool[k][l]
                                        /\ l = (IF k = m THEN h - 1 ELSE h) /\ (k = m => h \in Int)
      BY <1>7, <2>3
    <3>3. n = k /\ i = l
      BY <1>8, <3>1, <3>2 DEF PoolOk
    <3>4. QED
      BY <3>1, <3>2, <3>3
  <2>4. QED
    BY <2>1, <2>2, <2>3
<1>9. \A b \in R : Minted(b, s2) /\ b \notin DOMAIN s2.cells
  BY <1>4 DEF PoolOk
<1>10. QED
  BY <1>6, <1>8, <1>9 DEF PoolOk

(* The pool's addresses and the shells are the cells' no more.             *)
LEMMA NotPooled ==
  ASSUME NEW s, NEW R, PoolOk(s, R), NEW a \in DOMAIN s.cells
  PROVE  a \notin R /\ \A n \in DOMAIN s.pool : \A j \in DOMAIN s.pool[n] : s.pool[n][j] # a
  BY DEF PoolOk

\* A release loses the cell, pools its memory and takes it off the books.
LEMMA ReleaseIs ==
  ASSUME NEW s, Shape(s), NEW R, PoolOk(s, R), NEW a \in DOMAIN s.cells, a \in Addresses
  PROVE  /\ Lost(s, Release(a, s), a) /\ PoolOk(Release(a, s), R)
         /\ Release(a, s).stats = RecordFree(s.cells[a].bytes, s.stats)
<1> DEFINE m  == s.cells[a].bytes
           s1 == [Unmap(a, s) EXCEPT !.stats = RecordFree(m, @)]
<1>0. DOMAIN s = StoreFields /\ DOMAIN s.stats = StatFields
  BY DEF Shape
<1>1. /\ DOMAIN s1 = StoreFields
      /\ s1.backend = s.backend /\ s1.next = s.next /\ s1.desc = s.desc /\ s1.reserved = s.reserved
      /\ s1.arena = s.arena /\ s1.arenaC = s.arenaC /\ s1.fresh = s.fresh /\ s1.err = s.err
      /\ s1.pool = s.pool /\ s1.stats = RecordFree(m, s.stats)
      /\ s1.cells = Restrict(s.cells, DOMAIN s.cells \ {a})
  BY <1>0 DEF Unmap, StoreFields
<1>2. DOMAIN RecordFree(m, s.stats) = StatFields
  BY <1>0 DEF RecordFree
<1>3. Lost(s, s1, a)
  BY <1>1, <1>2 DEF Lost, SameFrame
<1>4. PoolOk(s1, R)
  BY <1>1, <1>3, LostPool
<1>5. m \in Nat
  BY ShapePlain DEF Cell
<1> HIDE DEF s1, m
<1>6. CASE a[1] # "C"
  <2>1. Release(a, s) = s1
    BY <1>6 DEF Release, s1, m
  <2>2. QED
    BY <1>1, <1>3, <1>4, <2>1 DEF m
<1>7. CASE a[1] = "C"
  <2> DEFINE s2 == WokFree(a, m, s1)
  <2>1. Release(a, s) = s2
    BY <1>7 DEF Release, s1, m
  <2>2. /\ DOMAIN s2 = StoreFields
        /\ s2.backend = s1.backend /\ s2.next = s1.next /\ s2.desc = s1.desc /\ s2.reserved = s1.reserved
        /\ s2.arena = s1.arena /\ s2.arenaC = s1.arenaC /\ s2.fresh = s1.fresh /\ s2.err = s1.err
        /\ s2.pool = Extend(s1.pool, m, <<a>> \o PoolOf(m, s1)) /\ s2.stats = s1.stats
        /\ s2.cells = s1.cells
    BY <1>1 DEF WokFree, StoreFields
  <2> HIDE DEF s2
  <2>3. Lost(s, s2, a)
    BY <1>1, <1>2, <2>2 DEF Lost, SameFrame
  <2>4. Minted(a, s1) /\ a \notin R \cup DOMAIN s1.cells
    BY <1>1, <1>3, LostIs, NotPooled DEF Shape, Minted
  <2>5. \A n \in DOMAIN s1.pool : \A j \in DOMAIN s1.pool[n] : s1.pool[n][j] # a
    BY <1>1, NotPooled
  <2>6. PoolOk(s2, R)
    BY <1>4, <1>5, <1>7, <2>2, <2>4, <2>5, PoolPush
  <2>7. QED
    BY <1>1, <2>1, <2>2, <2>3, <2>6 DEF m
<1>8. QED
  BY <1>6, <1>7

\* A release (bumpFreeStats, dropAddrStepPure): the fields of the dead cell are
\* on their way.
LEMMA ReleaseGood ==
  ASSUME NEW s, NEW e, NEW w, NEW X, NEW R, NEW nl, NEW nb, NEW a \in Addresses,
         Good(s, e, <<a>> \o w, X, R, nl, nb), w \in Seq(Anything),
         ~IsArena(a, s), a \in DOMAIN s.cells, ~(s.cells[a].rc > 1)
  PROVE  /\ Good(Release(a, s), e, s.cells[a].node.fs \o w, X, R, nl, nb)
         /\ Lost(s, Release(a, s), a)
<1> DEFINE s2 == Release(a, s)
           w2 == s.cells[a].node.fs \o w
<1>1. /\ Lost(s, s2, a) /\ PoolOk(s2, R) /\ Shape(s) /\ FramesOk(s)
      /\ s2.stats = RecordFree(s.cells[a].bytes, s.stats)
  BY ReleaseIs DEF Good
<1> HIDE DEF s2
<1>2. Exact(s2, e, w2, X) /\ Holding(e, w2, X, s2)
  BY <1>1, LostExact
<1>3. Books(s2, nl, nb)
  BY <1>1, LostBooks DEF Good
<1>4. Shape(s2) /\ Shrinks(s, s2) /\ DOMAIN s2.cells = DOMAIN s.cells \ {a}
  BY <1>1, LostIs
<1>5. \A b \in DOMAIN s.cells : IsArena(b, s) => b \in DOMAIN s2.cells
  BY <1>4
<1>6. FramesOk(s2)
  BY <1>1, <1>4, <1>5, ShrinkFrames
<1>7. QED
  BY <1>1, <1>2, <1>3, <1>4, <1>6 DEF Good, s2

-----------------------------------------------------------------------------
(* dropAddr: one step of the worklist, and the loop.                       *)

\* The places a drop has still to visit.
Size(s) == Cardinality(Places(s.cells))

\* Two steps that lose cells are one.
LEMMA ShrinksOn ==
  ASSUME NEW s, NEW s2, NEW s3, Shrinks(s, s2), Shrinks(s2, s3)
  PROVE  Shrinks(s, s3)
<1>1. SameFrame(s, s3)
  BY DEF Shrinks, SameFrame
<1>2. DOMAIN s3.cells \subseteq DOMAIN s.cells /\ DOMAIN s3.cells \subseteq DOMAIN s2.cells
  BY DEF Shrinks
<1>3. SameCells(s, s3, DOMAIN s3.cells)
  BY <1>2 DEF Shrinks, SameCells
<1>4. QED
  BY <1>1, <1>2, <1>3 DEF Shrinks

\* Counting changes no place.
LEMMA RecountPlaces ==
  ASSUME NEW s, NEW s2, Recounted(s, s2)
  PROVE  Size(s2) = Size(s)
<1>1. DOMAIN s2.cells = DOMAIN s.cells /\ \A k \in DOMAIN s.cells : s2.cells[k].node = s.cells[k].node
  BY DEF Recounted, SameCells
<1>2. Places(s2.cells) = Places(s.cells)
  <2>1. {{k} \X Holds(s2.cells[k].node) : k \in DOMAIN s2.cells}
          = {{k} \X Holds(s.cells[k].node) : k \in DOMAIN s.cells}
    BY <1>1
  <2>2. QED
    BY <2>1 DEF Places
<1>3. QED
  BY <1>2 DEF Size

\* The measure is a natural number.
LEMMA SizeType == ASSUME NEW s, Shape(s) PROVE Size(s) \in Nat
  BY ShapePlain, PlacesFinite, FS_CardinalityType DEF Size

\* One step of dropAddr's worklist keeps the invariant, and the list with the
\* heap behind it gets shorter by one.
LEMMA DropHeadGood ==
  ASSUME NEW s, NEW e, NEW a \in Anything, NEW w \in Seq(Anything), NEW X, NEW R, NEW nl, NEW nb,
         Good(s, e, <<a>> \o w, X, R, nl, nb)
  PROVE  LET d == DropHead(a, w, s)
         IN /\ d.work \in Seq(Anything) /\ Good(d.s, e, d.work, X, R, nl, nb) /\ Shrinks(s, d.s)
            /\ Len(d.work) + Size(d.s) = Len(w) + Size(s)
<1> DEFINE d  == DropHead(a, w, s)
           w1 == <<a>> \o w
           Done(t, u) == /\ u \in Seq(Anything) /\ Good(t, e, u, X, R, nl, nb) /\ Shrinks(s, t)
                         /\ Len(u) + Size(t) = Len(w) + Size(s)
<1>0. /\ Shape(s) /\ PoolOk(s, R) /\ FramesOk(s) /\ Size(s) \in Nat /\ Len(w) \in Nat
      /\ w1 \in Seq(Anything)
  BY SizeType DEF Good
<1>1. \A b : Occ(w1, b) = (IF a = b THEN 1 ELSE 0) + Occ(w, b)
  BY OccPush
<1>2. \A b : Occ(w, b) \in Nat /\ Occ(w1, b) \in Nat
  BY <1>0, TotalType DEF Good, Holding
<1>3. IsCounted(a) <=> a \in Addresses
  BY AddressIs
<1> HIDE DEF w1
<1>4. CASE ~IsCounted(a) \/ IsArena(a, s)
  <2>1. d = [work |-> w, s |-> s]
    BY <1>4 DEF DropHead
  <2>2. Recounted(s, s)
    BY <1>0, RecountSelf
  <2>3. ASSUME NEW b \in Addresses, ~IsArena(b, s) PROVE Occ(w, b) = Occ(w1, b)
    <3>1. a # b
      BY <1>3, <1>4, <2>3
    <3>2. QED
      BY <1>1, <1>2, <3>1
  <2>4. ASSUME NEW b \in Addresses, ~IsArena(b, s), b \in DOMAIN s.cells
        PROVE  s.cells[b].rc - s.cells[b].rc = Occ(w, b) - Occ(w1, b)
    <3>1. s.cells[b].rc \in Nat
      BY <1>0, <2>4, ShapePlain DEF Cell
    <3>2. QED
      BY <1>2, <2>3, <2>4, <3>1
  <2>5. Good(s, e, w, X, R, nl, nb)
    BY <2>2, <2>3, <2>4, RecountGood DEF w1
  <2>6. Done(s, w)
    BY <1>0, <2>2, <2>5, RecountShape
  <2>7. d.work = w /\ d.s = s
    BY <2>1
  <2>8. QED
    BY <2>6, <2>7
<1>5. CASE ~(~IsCounted(a) \/ IsArena(a, s))
  <2>0. a \in Addresses /\ ~IsArena(a, s)
    BY <1>3, <1>5
  <2>1. a \in DOMAIN s.cells /\ s.cells[a].rc = Total(s, e, w1, X, a)
    <3>1. DOMAIN w1 = 1..(1 + Len(w)) /\ w1[1] = a
      BY DEF w1
    <3>2. 1 \in DOMAIN w1
      BY <1>0, <3>1
    <3>5. Good(s, e, w1, X, R, nl, nb)
      BY DEF w1
    <3>3. Total(s, e, w1, X, a) # 0
      BY <2>0, <3>1, <3>2, <3>5, Referenced
    <3>4. QED
      BY <2>0, <3>3, <3>5, Referenced
  <2>2. s.cells[a].rc \in Nat /\ s.cells[a].node.con # "NCont"
    <3>1. s.cells[a] \in Cell
      BY <1>0, <2>1, ShapePlain
    <3>2. s.cells[a].node.con \in Constructors \cup {"Array"} /\ s.cells[a].rc \in Nat
      BY <3>1 DEF Cell, Nodes
    <3>3. QED
      BY <3>2, StoreAssumption
  <2>3. CASE s.cells[a].rc > 1
    <3> DEFINE m  == s.cells[a].rc - 1
               s2 == SetRc(a, m, s)
    <3>1. d = [work |-> w, s |-> s2]
      BY <1>5, <2>1, <2>3 DEF DropHead
    <3>2. m \in Nat
      BY <2>2, <2>3
    <3>3. /\ Recounted(s, s2) /\ s2.cells[a].rc = m
          /\ \A b \in DOMAIN s.cells : b # a => s2.cells[b].rc = s.cells[b].rc
      BY <1>0, <2>1, <3>2, SetRcIs
    <3> HIDE DEF s2
    <3>4. ASSUME NEW b \in Addresses, ~IsArena(b, s), b \in DOMAIN s.cells
          PROVE  s2.cells[b].rc - s.cells[b].rc = Occ(w, b) - Occ(w1, b)
      <4>1. s.cells[b].rc \in Nat
        BY <1>0, <3>4, ShapePlain DEF Cell
      <4>2. CASE a = b
        BY <1>1, <1>2, <2>2, <3>3, <4>2
      <4>3. CASE a # b
        BY <1>1, <1>2, <3>3, <3>4, <4>1, <4>3
      <4>4. QED
        BY <4>2, <4>3
    <3>5. \A b \in Addresses : b \notin DOMAIN s.cells => Occ(w, b) = Occ(w1, b)
      BY <1>1, <1>2, <2>1
    <3>6. Good(s2, e, w, X, R, nl, nb)
      BY <3>3, <3>4, <3>5, RecountGood DEF w1
    <3>7. Shrinks(s, s2) /\ Size(s2) = Size(s)
      BY <1>0, <3>3, RecountShape, RecountPlaces
    <3>8. Done(s2, w)
      BY <1>0, <3>6, <3>7
    <3>9. d.work = w /\ d.s = s2
      BY <3>1
    <3>10. QED
      BY <3>8, <3>9
  <2>4. CASE ~(s.cells[a].rc > 1)
    <3> DEFINE fs == s.cells[a].node.fs
               s2 == Release(a, s)
               w2 == fs \o w
    <3>1. FieldsOf(a, s) = fs /\ fs \in Seq(Storables)
      BY <1>0, <2>1, FieldsAre, ShapePlain
    <3>2. ChildrenOf(a, s) = fs
      BY <2>2, <3>1 DEF ChildrenOf
    <3>3. d = [work |-> w2, s |-> s2]
      BY <1>5, <2>1, <2>2, <2>4, <3>2 DEF DropHead
    <3>4. Good(s2, e, w2, X, R, nl, nb) /\ Lost(s, s2, a)
      BY <2>0, <2>1, <2>4, ReleaseGood
    <3>5. Shrinks(s, s2) /\ Size(s) = Size(s2) + Len(fs) /\ Size(s2) \in Nat
      BY <1>0, <2>1, <3>4, LostIs, LostPlaces DEF Size
    <3>6. w2 \in Seq(Anything) /\ Len(w2) = Len(fs) + Len(w) /\ Len(fs) \in Nat
      <4>1. fs \in Seq(Anything)
        BY <3>1 DEF Anything
      <4>2. QED
        BY <4>1
    <3> HIDE DEF s2, w2, fs
    <3>7. Done(s2, w2)
      BY <1>0, <3>4, <3>5, <3>6
    <3>8. d.work = w2 /\ d.s = s2
      BY <3>3
    <3>9. QED
      BY <3>7, <3>8
  <2>5. QED
    BY <2>3, <2>4
<1>6. QED
  BY <1>4, <1>5

(* The steps of a worklist, as a function of their number.                 *)
Steps(f, d) == f = [k \in Nat |-> IF k = 0 THEN d ELSE DropStep(f[k - 1])]

\* The steps a drop may take.
Fuel(work, s) == Len(work) + Cardinality(Places(s.cells))

\* dropAddr's loop is the last of its steps.
LEMMA DropAllUnfold ==
  ASSUME NEW work, NEW s
  PROVE  DropAll(work, s) = (CHOOSE f : Steps(f, [work |-> work, s |-> s]))[Fuel(work, s)].s
  BY Zenon DEF DropAll, Steps, Fuel

(* Its first n steps.                                                      *)
Prefix(f, d, n) == /\ DOMAIN f = 0..n /\ f[0] = d /\ f = [k \in 0..n |-> f[k]]
                   /\ \A k \in 1..n : f[k] = DropStep(f[k - 1])

\* The first n steps exist,
LEMMA PrefixExists ==
  ASSUME NEW d, NEW n \in Nat
  PROVE  \E f : Prefix(f, d, n)
<1> DEFINE T == {m \in Nat : ~\E f : Prefix(f, d, m)}
<1>1. SUFFICES ASSUME T # {} PROVE FALSE
  OBVIOUS
<1>2. PICK m \in T : \A l \in T : m <= l
  BY <1>1, LeastExists
<1>3. m # 0
  <2> DEFINE f == [k \in 0..0 |-> d]
  <2>1. Prefix(f, d, 0)
    BY DEF Prefix
  <2>2. QED
    BY <1>2, <2>1
<1>4. m - 1 \in Nat /\ m - 1 \notin T /\ m \in Nat
  BY <1>2, <1>3
<1>5. PICK f : Prefix(f, d, m - 1)
  BY <1>4
<1> DEFINE v == DropStep(f[m - 1])
           g == [k \in 0..m |-> IF k = m THEN v ELSE f[k]]
<1> HIDE DEF v
<1>6. DOMAIN g = 0..m /\ g[0] = d /\ g = [k \in 0..m |-> g[k]]
  BY <1>3, <1>4, <1>5 DEF Prefix
<1>7. ASSUME NEW k \in 1..m PROVE g[k] = DropStep(g[k - 1])
  <2>1. k - 1 \in 0..m /\ k - 1 # m /\ g[k - 1] = f[k - 1]
    BY <1>4
  <2>2. CASE k = m
    BY <2>1, <2>2 DEF v
  <2>3. CASE k # m
    <3>1. k \in 1..(m - 1) /\ g[k] = f[k]
      BY <1>4, <2>3
    <3>2. f[k] = DropStep(f[k - 1])
      BY <1>5, <3>1 DEF Prefix
    <3>3. QED
      BY <2>1, <3>1, <3>2
  <2>4. QED
    BY <2>2, <2>3
<1> HIDE DEF g
<1>8. Prefix(g, d, m)
  BY <1>6, <1>7 DEF Prefix
<1>9. QED
  BY <1>2, <1>8

\* agree with every other such prefix,
LEMMA PrefixesAgree ==
  ASSUME NEW d, NEW n \in Nat, NEW m \in Nat, NEW f, NEW g, Prefix(f, d, n), Prefix(g, d, m),
         NEW k \in Nat, k <= n, k <= m
  PROVE  f[k] = g[k]
<1> DEFINE T == {l \in Nat : l <= n /\ l <= m /\ f[l] # g[l]}
<1>1. SUFFICES ASSUME T # {} PROVE FALSE
  OBVIOUS
<1>2. PICK l \in T : \A j \in T : l <= j
  BY <1>1, LeastExists
<1>3. l \in Nat /\ l <= n /\ l <= m /\ f[l] # g[l]
  BY <1>2
<1>4. l # 0
  BY <1>3 DEF Prefix
<1>5. l - 1 \in Nat /\ l - 1 \notin T /\ l \in 1..n /\ l \in 1..m
  BY <1>2, <1>3, <1>4
<1>6. f[l - 1] = g[l - 1]
  BY <1>3, <1>5
<1>7. f[l] = DropStep(f[l - 1]) /\ g[l] = DropStep(g[l - 1])
  BY <1>5 DEF Prefix
<1>8. QED
  BY <1>3, <1>6, <1>7

\* and so all of them do.
LEMMA StepsExist ==
  ASSUME NEW d
  PROVE  \E f : Steps(f, d)
<1> DEFINE P(n) == CHOOSE f : Prefix(f, d, n)
           F    == [k \in Nat |-> P(k)[k]]
<1>1. ASSUME NEW n \in Nat PROVE Prefix(P(n), d, n)
  BY PrefixExists
<1> HIDE DEF P
<1>2. F[0] = d
  BY <1>1 DEF Prefix
<1>3. ASSUME NEW k \in Nat, k # 0 PROVE F[k] = DropStep(F[k - 1])
  <2>1. k - 1 \in Nat /\ k \in 1..k /\ k - 1 <= k
    BY <1>3
  <2>2. P(k)[k] = DropStep(P(k)[k - 1])
    BY <1>1, <2>1 DEF Prefix
  <2>3. P(k)[k - 1] = P(k - 1)[k - 1]
    BY <1>1, <2>1, PrefixesAgree
  <2>4. QED
    BY <2>1, <2>2, <2>3
<1>4. F = [k \in Nat |-> F[k]]
  OBVIOUS
<1> HIDE DEF F
<1>5. \A k \in Nat : F[k] = IF k = 0 THEN d ELSE DropStep(F[k - 1])
  BY <1>2, <1>3
<1>6. Steps(F, d)
  BY <1>4, <1>5 DEF Steps
<1>7. QED
  BY <1>6

(* A worklist and its store, k steps from (work, s).                       *)
Along(d, work, s, e, X, R, nl, nb, k) ==
  /\ d.work \in Seq(Anything) /\ Good(d.s, e, d.work, X, R, nl, nb) /\ Shrinks(s, d.s)
  /\ d.work = <<>> \/ Len(d.work) + Size(d.s) + k = Fuel(work, s)

\* A list that is not empty is its head and its tail.
LEMMA HeadTail ==
  ASSUME NEW V, NEW w \in Seq(V), w # <<>>
  PROVE  Head(w) \in V /\ Tail(w) \in Seq(V) /\ w = <<Head(w)>> \o Tail(w) /\ Len(Tail(w)) = Len(w) - 1
<1>1. Head(w) \in V /\ Tail(w) \in Seq(V) /\ Len(Tail(w)) = Len(w) - 1
  OBVIOUS
<1>2. <<Head(w)>> \in Seq(V) /\ Len(<<Head(w)>>) = 1 /\ <<Head(w)>>[1] = Head(w)
  BY <1>1
<1> DEFINE u == <<Head(w)>> \o Tail(w)
<1>3. u \in Seq(V) /\ Len(u) = Len(w)
  BY <1>1, <1>2
<1>4. ASSUME NEW j \in 1..Len(w) PROVE u[j] = w[j]
  <2>1. CASE j = 1
    BY <1>1, <1>2, <2>1
  <2>2. CASE j # 1
    BY <1>1, <1>2, <2>2
  <2>3. QED
    BY <2>1, <2>2
<1> HIDE DEF u
<1>5. u = w
  BY <1>3, <1>4
<1>6. QED
  BY <1>1, <1>5 DEF u

\* One step more.
LEMMA StepAlong ==
  ASSUME NEW work, NEW s, NEW e, NEW X, NEW R, NEW nl, NEW nb, s.err = "none",
         NEW d, NEW k \in Nat, Along(d, work, s, e, X, R, nl, nb, k)
  PROVE  Along(DropStep(d), work, s, e, X, R, nl, nb, k + 1)
<1>1. CASE d.work = <<>>
  BY <1>1 DEF DropStep, Along
<1>2. CASE d.work # <<>>
  <2> DEFINE a  == Head(d.work)
             w  == Tail(d.work)
             d2 == DropHead(a, w, d.s)
  <2>1. a \in Anything /\ w \in Seq(Anything) /\ d.work = <<a>> \o w /\ Len(w) = Len(d.work) - 1
        /\ Len(d.work) \in Nat
    <3>1. d.work \in Seq(Anything)
      BY DEF Along
    <3>2. QED
      BY <1>2, <3>1, HeadTail
  <2>2. d.s.err = "none"
    BY DEF Along, Shrinks, SameFrame
  <2>3. DropStep(d) = d2
    BY <1>2, <2>2 DEF DropStep
  <2>4. Good(d.s, e, <<a>> \o w, X, R, nl, nb)
    BY <2>1 DEF Along
  <2> HIDE DEF a, w
  <2>5. /\ d2.work \in Seq(Anything) /\ Good(d2.s, e, d2.work, X, R, nl, nb) /\ Shrinks(d.s, d2.s)
        /\ Len(d2.work) + Size(d2.s) = Len(w) + Size(d.s)
    BY <2>1, <2>4, DropHeadGood
  <2> HIDE DEF d2
  <2>6. Shrinks(s, d2.s)
    BY <2>5, ShrinksOn DEF Along
  <2>7. Size(d.s) \in Nat /\ Size(d2.s) \in Nat /\ Len(d2.work) \in Nat
    BY <2>5, SizeType DEF Along, Good
  <2>8. Len(d.work) + Size(d.s) + k = Fuel(work, s)
    BY <1>2 DEF Along
  <2>9. Len(d2.work) + Size(d2.s) + (k + 1) = Fuel(work, s)
    BY <2>1, <2>5, <2>7, <2>8
  <2>10. QED
    BY <2>3, <2>5, <2>6, <2>9 DEF Along
<1>3. QED
  BY <1>1, <1>2

\* Any number of steps.
LEMMA AlongAll ==
  ASSUME NEW work, NEW s, NEW e, NEW X, NEW R, NEW nl, NEW nb, s.err = "none",
         NEW f, Steps(f, [work |-> work, s |-> s]),
         Along([work |-> work, s |-> s], work, s, e, X, R, nl, nb, 0), NEW n \in Nat
  PROVE  Along(f[n], work, s, e, X, R, nl, nb, n)
<1> DEFINE d == [work |-> work, s |-> s]
           A(g, k) == Along(g, work, s, e, X, R, nl, nb, k)
           T == {m \in Nat : ~A(f[m], m)}
<1>1. SUFFICES ASSUME T # {} PROVE FALSE
  OBVIOUS
<1>2. f[0] = d /\ \A k \in Nat : k # 0 => f[k] = DropStep(f[k - 1])
  BY DEF Steps
<1> HIDE DEF d
<1>3. PICK m \in T : \A l \in T : m <= l
  <2>1. T \subseteq Nat
    OBVIOUS
  <2> HIDE DEF T
  <2>2. QED
    BY <1>1, <2>1, LeastExists
<1>4. A(f[0], 0)
  BY <1>2 DEF d
<1>5. m \in Nat /\ m # 0 /\ m - 1 \in Nat /\ (m - 1) + 1 = m
  BY <1>3, <1>4
<1>6. m - 1 \notin T
  BY <1>3, <1>5
<1>7. A(f[m - 1], m - 1)
  BY <1>5, <1>6
<1>8. A(DropStep(f[m - 1]), (m - 1) + 1)
  BY <1>5, <1>7, StepAlong
<1>9. A(f[m], m)
  BY <1>2, <1>5, <1>8
<1>10. QED
  BY <1>3, <1>9

\* The loop ends with an empty list: all that was on its way is dropped, and no
\* cell is missed or dropped twice.
LEMMA DropAllGood ==
  ASSUME NEW work, NEW s, NEW e, NEW X, NEW R, NEW nl, NEW nb, s.err = "none",
         Good(s, e, work, X, R, nl, nb)
  PROVE  Good(DropAll(work, s), e, <<>>, X, R, nl, nb) /\ Shrinks(s, DropAll(work, s))
<1> DEFINE d == [work |-> work, s |-> s]
           n == Fuel(work, s)
<1>1. PICK f : Steps(f, d) /\ DropAll(work, s) = f[n].s
  <2>1. \E f : Steps(f, d)
    BY StepsExist
  <2>2. DropAll(work, s) = (CHOOSE f : Steps(f, d))[n].s
    BY DropAllUnfold
  <2> HIDE DEF n, d
  <2>3. QED
    BY <2>1, <2>2
<1>2. work \in Seq(Anything) /\ Shape(s) /\ Size(s) \in Nat /\ Len(work) \in Nat
  BY SizeType DEF Good, Holding
<1>3. Shrinks(s, s)
  BY <1>2, RecountSelf, RecountShape DEF Good
<1>4. d.work = work /\ d.s = s /\ n = Len(work) + Size(s)
  BY DEF Fuel, Size
<1>5. Along(d, work, s, e, X, R, nl, nb, 0)
  BY <1>2, <1>3, <1>4 DEF Along
<1>6. n \in Nat
  BY <1>2, <1>4
<1>7. Along(f[n], work, s, e, X, R, nl, nb, n)
  <2> HIDE DEF n
  <2>1. QED
    BY <1>1, <1>5, <1>6, AlongAll
<1>8. f[n].work = <<>>
  <2>1. CASE Len(f[n].work) + Size(f[n].s) + n = n
    <3>1. f[n].work \in Seq(Anything) /\ Size(f[n].s) \in Nat
      BY <1>7, SizeType DEF Along, Good
    <3> HIDE DEF n
    <3>2. Len(f[n].work) = 0
      BY <1>6, <2>1, <3>1
    <3>3. QED
      BY <3>1, <3>2
  <2>2. QED
    BY <1>7, <2>1 DEF Along
<1>9. QED
  BY <1>1, <1>7, <1>8 DEF Along

-----------------------------------------------------------------------------
(* The birth of a cell.                                                    *)

(* A node a store may take: its fields are no arena values.                *)
Fits(n, s) ==
  /\ n \in Nodes /\ n.fs # <<>>
  /\ n.con = "Array" => /\ Len(n.fs) = 2 /\ Encodable(n.fs)
                        /\ SlotKind(n.fs[1]) = SlotKind(n.fs[2])
  /\ \A j \in DOMAIN n.fs : ~IsArena(n.fs[j], s)

\* A store with a cell more.
Born(s, s2, a, n, m) ==
  /\ DOMAIN s2 = StoreFields /\ DOMAIN s2.stats = StatFields /\ s2.desc = s.desc
  /\ s2.backend = s.backend /\ s2.err = s.err
  /\ s2.next \in Nat /\ s.next <= s2.next /\ s2.fresh \in Nat /\ s.fresh <= s2.fresh
  /\ s2.cells = Extend(s.cells, a, [rc |-> 1, node |-> n, bytes |-> m])
  /\ Minted(a, s2) /\ \A b : b # a => (IsArena(b, s2) <=> IsArena(b, s))

\* Where the cell may be put.
Place(s, a, n, m) ==
  /\ a \in Addresses /\ a \notin DOMAIN s.cells /\ Fits(n, s) /\ m \in Nat
  /\ n.con # "Array" /\ a[1] = "C" => Encodable(n.fs) /\ s.desc[n.con] = SlotKinds(n.fs)

\* The cells with the new one.
LEMMA BornCells ==
  ASSUME NEW s, NEW s2, NEW a, NEW n, NEW m, Born(s, s2, a, n, m), a \notin DOMAIN s.cells
  PROVE  /\ DOMAIN s2.cells = DOMAIN s.cells \cup {a}
         /\ s2.cells[a] = [rc |-> 1, node |-> n, bytes |-> m]
         /\ \A b \in DOMAIN s.cells : b # a /\ s2.cells[b] = s.cells[b]
  BY DEF Born, Extend

(* No slot and no cell refers to an address that holds nothing.            *)
LEMMA Unused ==
  ASSUME NEW s, NEW e, NEW w, NEW R, NEW nl, NEW nb, Good(s, e, w, {}, R, nl, nb),
         NEW a \in Addresses, a \notin DOMAIN s.cells
  PROVE  /\ ~IsArena(a, s)
         /\ \A x \in Slots : e[x] # a
         /\ \A j \in DOMAIN w : w[j] # a
         /\ \A k \in DOMAIN s.cells : \A j \in DOMAIN s.cells[k].node.fs : s.cells[k].node.fs[j] # a
<1>1. ~IsArena(a, s)
  BY ArenaLives DEF Good
<1>2. Total(s, e, w, {}, a) = 0
  BY <1>1 DEF Good, Exact
<1>3. /\ \A x \in Slots : e[x] = a => Total(s, e, w, {}, a) # 0
      /\ \A j \in DOMAIN w : w[j] = a => Total(s, e, w, {}, a) # 0
      /\ \A k \in DOMAIN s.cells \ {} : \A j \in DOMAIN s.cells[k].node.fs :
              s.cells[k].node.fs[j] = a => Total(s, e, w, {}, a) # 0
  BY <1>1, Referenced
<1>4. QED
  BY <1>1, <1>2, <1>3

\* What was handed out stays so.
LEMMA MintedOn ==
  ASSUME NEW s, NEW s2, s.next \in Nat, s.fresh \in Nat, s2.next \in Nat, s2.fresh \in Nat,
         s.next <= s2.next, s.fresh <= s2.fresh, NEW a, Minted(a, s)
  PROVE  Minted(a, s2)
  BY DEF Minted

\* A birth keeps the shape.
LEMMA BornShape ==
  ASSUME NEW s, NEW e, NEW n, NEW R, NEW nl, NEW nb, Good(s, e, n.fs, {}, R, nl, nb),
         NEW a, NEW m, Place(s, a, n, m), NEW s2, Born(s, s2, a, n, m)
  PROVE  Shape(s2)
<1>1. Shape(s) /\ a \in Addresses /\ a \notin DOMAIN s.cells /\ Fits(n, s)
  BY DEF Good, Place
<1>2. /\ DOMAIN s2.cells = DOMAIN s.cells \cup {a}
      /\ s2.cells[a] = [rc |-> 1, node |-> n, bytes |-> m]
      /\ \A b \in DOMAIN s.cells : b # a /\ s2.cells[b] = s.cells[b]
  BY <1>1, BornCells
<1>3. IsFiniteSet(DOMAIN s2.cells)
  BY <1>1, <1>2, FS_AddElement DEF Shape
<1>4. /\ \A j \in DOMAIN n.fs : n.fs[j] # a
      /\ \A k \in DOMAIN s.cells : \A j \in DOMAIN s.cells[k].node.fs : s.cells[k].node.fs[j] # a
  BY <1>1, Unused
<1>5. Minted(a, s2) /\ CellOk(a, s2)
  <2>1. s2.cells[a] \in Cell
    BY <1>1, <1>2 DEF Cell, Fits, Place
  <2>2. s2.cells[a].node = n
    BY <1>2
  <2>3. \A j \in DOMAIN n.fs : ~IsArena(n.fs[j], s2)
    BY <1>1, <1>4 DEF Born, Fits
  <2>4. n.con # "Array" /\ a[1] = "C" => Encodable(n.fs) /\ s2.desc[n.con] = SlotKinds(n.fs)
    BY DEF Place, Born
  <2>5. CellOk(a, s2)
    BY <1>1, <2>1, <2>2, <2>3, <2>4 DEF CellOk, Fits
  <2>6. QED
    BY <2>5 DEF Born
<1>6. ASSUME NEW b \in DOMAIN s.cells PROVE Minted(b, s2) /\ CellOk(b, s2)
  <2>1. Minted(b, s) /\ CellOk(b, s) /\ s2.cells[b] = s.cells[b] /\ s2.desc = s.desc
    BY <1>1, <1>2 DEF Shape, Born
  <2>2. Minted(b, s2)
    BY <1>1, <2>1, MintedOn DEF Shape, Born
  <2>3. \A j \in DOMAIN s.cells[b].node.fs : ~IsArena(s.cells[b].node.fs[j], s2)
    BY <1>4, <2>1 DEF CellOk, Born
  <2>4. CellOk(b, s2)
    BY <2>1, <2>3 DEF CellOk
  <2>5. QED
    BY <2>2, <2>4
<1>7. /\ DOMAIN s2 = StoreFields /\ DOMAIN s2.stats = StatFields /\ DOMAIN s2.desc = Constructors
      /\ s2.backend \in Backends /\ s2.next \in Nat /\ s2.fresh \in Nat
  BY <1>1 DEF Born, Shape
<1>8. QED
  BY <1>2, <1>3, <1>5, <1>6, <1>7 DEF Shape

(* The fields that were on their way are the new cell's, and its address is *)
(* on its way instead.                                                     *)
LEMMA BornExact ==
  ASSUME NEW s, NEW e, NEW n, NEW R, NEW nl, NEW nb, Good(s, e, n.fs, {}, R, nl, nb),
         NEW a, NEW m, Place(s, a, n, m), NEW s2, Born(s, s2, a, n, m)
  PROVE  Exact(s2, e, <<a>>, {}) /\ Holding(e, <<a>>, {}, s2)
<1>1. /\ Shape(s) /\ Shape(s2) /\ a \in Addresses /\ a \notin DOMAIN s.cells /\ ~IsArena(a, s)
      /\ e \in [Slots -> Anything] /\ n.fs \in Seq(Anything) /\ a \in Anything
  BY BornShape, Unused DEF Good, Place, Holding, Anything, Storables
<1>2. /\ DOMAIN s2.cells = DOMAIN s.cells \cup {a}
      /\ s2.cells[a].node = n /\ s2.cells[a].rc = 1
      /\ \A b \in DOMAIN s.cells : b # a /\ s2.cells[b] = s.cells[b]
  <2>1. /\ DOMAIN s2.cells = DOMAIN s.cells \cup {a}
        /\ s2.cells[a] = [rc |-> 1, node |-> n, bytes |-> m]
        /\ \A b \in DOMAIN s.cells : b # a /\ s2.cells[b] = s.cells[b]
    BY <1>1, BornCells
  <2>2. QED
    BY <2>1
<1>3. <<a>> \in Seq(Anything)
  BY <1>1
<1>4. ASSUME NEW b PROVE Edges(s2.cells, {}, b) = Edges(s.cells, {}, b) + Occ(n.fs, b)
  <2>1. Plain(s.cells) /\ Plain(s2.cells)
    BY <1>1, ShapePlain
  <2>2. Edges(s2.cells, {}, b) = Edges(s2.cells, {} \cup {a}, b) + Occ(n.fs, b)
    <3>1. a \in DOMAIN s2.cells /\ a \notin {}
      BY <1>2
    <3>2. Edges(s2.cells, {}, b) = Edges(s2.cells, {} \cup {a}, b) + Occ(s2.cells[a].node.fs, b)
      BY <2>1, <3>1, EdgeSplit
    <3>3. QED
      BY <1>2, <3>2
  <2>3. Edges(s2.cells, {a}, b) = Edges(s.cells, {a}, b)
    <3>1. DOMAIN s.cells \ {a} = DOMAIN s2.cells \ {a}
      BY <1>2
    <3>2. \A k \in DOMAIN s.cells \ {a} : s2.cells[k].node = s.cells[k].node
      BY <1>2
    <3>3. QED
      BY <2>1, <3>1, <3>2, EdgesSame
  <2>4. At(s.cells, {a}, b) = At(s.cells, {}, b)
    <3>1. \A p \in Places(s.cells) : p[1] # a
      BY <1>1, <2>1, PlaceIs
    <3>2. QED
      BY <3>1 DEF At
  <2>5. {} \cup {a} = {a}
    OBVIOUS
  <2>6. QED
    BY <2>2, <2>3, <2>4, <2>5 DEF Edges
<1>5. \A b : Occ(<<a>>, b) = IF a = b THEN 1 ELSE 0
  BY OccOne
<1>6. \A b : /\ Occ(e, b) \in Nat /\ Occ(n.fs, b) \in Nat
             /\ Edges(s.cells, {}, b) \in Nat /\ Edges(s2.cells, {}, b) \in Nat
  BY <1>1, TotalType
<1>7. ASSUME NEW b \in Addresses, ~IsArena(b, s2)
      PROVE  Total(s2, e, <<a>>, {}, b) = IF b \in DOMAIN s2.cells THEN s2.cells[b].rc ELSE 0
  <2>0. ~IsArena(b, s)
    BY <1>1, <1>7 DEF Born
  <2>1. Total(s, e, n.fs, {}, b) = IF b \in DOMAIN s.cells THEN s.cells[b].rc ELSE 0
    BY <2>0 DEF Good, Exact
  <2>2. Total(s, e, n.fs, {}, b) = Occ(e, b) + Occ(n.fs, b) + Edges(s.cells, {}, b)
    BY DEF Total
  <2>3. Total(s2, e, <<a>>, {}, b) = Occ(e, b) + Occ(<<a>>, b) + Edges(s2.cells, {}, b)
    BY DEF Total
  <2>4. Total(s2, e, <<a>>, {}, b) = Total(s, e, n.fs, {}, b) + (IF a = b THEN 1 ELSE 0)
    BY <1>4, <1>5, <1>6, <2>2, <2>3
  <2>5. Total(s, e, n.fs, {}, b) \in Nat
    BY <1>6, <2>2
  <2>6. CASE b = a
    BY <1>1, <1>2, <2>1, <2>4, <2>5, <2>6
  <2>7. CASE b # a
    BY <1>2, <2>1, <2>4, <2>5, <2>7
  <2>8. QED
    BY <2>6, <2>7
<1>8. QED
  BY <1>1, <1>3, <1>7 DEF Exact, Holding

\* Cells that did not change have the bytes they had.
LEMMA BytesSame ==
  ASSUME NEW s, NEW s2, NEW D, \A b \in D : s2.cells[b] = s.cells[b]
  PROVE  Bytes(s2, D) = Bytes(s, D)
<1>1. [b \in D |-> s2.cells[b].bytes] = [b \in D |-> s.cells[b].bytes]
  OBVIOUS
<1>2. QED
  BY <1>1 DEF Bytes

(* A sum over a set with one more cell.                                    *)
LEMMA BytesMore ==
  ASSUME NEW s, NEW s2, Shape(s), Shape(s2), NEW D, D \subseteq DOMAIN s.cells, NEW a, a \notin D,
         a \in DOMAIN s2.cells, D \subseteq DOMAIN s2.cells, \A b \in D : s2.cells[b] = s.cells[b]
  PROVE  /\ Bytes(s2, D \cup {a}) = Bytes(s, D) + s2.cells[a].bytes
         /\ Bytes(s, D) \in Nat /\ s2.cells[a].bytes \in Nat
         /\ Cardinality(D \cup {a}) = Cardinality(D) + 1 /\ Cardinality(D) \in Nat
<1> DEFINE D2 == D \cup {a}
<1>1. /\ \A b \in D : s.cells[b].bytes \in Nat
      /\ \A b \in D2 : s2.cells[b].bytes \in Nat
  BY InFinite
<1>2. IsFiniteSet(D) /\ IsFiniteSet(D2)
  <2>1. IsFiniteSet(DOMAIN s.cells)
    BY DEF Shape
  <2>2. IsFiniteSet(D)
    BY <2>1, FS_Subset
  <2>3. QED
    BY <2>2, FS_AddElement
<1>3. D \ {a} = D2 \ {a} /\ a \in D2 /\ \A b \in D \ {a} : s2.cells[b].bytes = s.cells[b].bytes
  OBVIOUS
<1> HIDE DEF D2
<1>4. /\ Bytes(s, D) \in Nat /\ Bytes(s2, D2) \in Nat
      /\ Bytes(s2, D2) - (IF a \in D2 THEN s2.cells[a].bytes ELSE 0)
           = Bytes(s, D) - (IF a \in D THEN s.cells[a].bytes ELSE 0)
  BY <1>1, <1>2, <1>3, BytesStep
<1>5. s2.cells[a].bytes \in Nat
  BY <1>1, <1>3
<1>6. Bytes(s2, D2) = Bytes(s, D) + s2.cells[a].bytes
  BY <1>3, <1>4, <1>5
<1>7. Cardinality(D2) = Cardinality(D) + 1 /\ Cardinality(D) \in Nat
  BY <1>2, FS_AddElement, FS_CardinalityType DEF D2
<1>8. QED
  BY <1>4, <1>5, <1>6, <1>7 DEF D2

\* A birth on the counted books, out of a shell, and on the arena's books.
LEMMA BornBooks ==
  ASSUME NEW s, Shape(s), NEW nl, NEW nb, Books(s, nl, nb),
         NEW a, a \notin DOMAIN s.cells, ~IsArena(a, s), NEW n, NEW m, m \in Nat,
         NEW s2, Shape(s2), Born(s, s2, a, n, m)
  PROVE  /\ ~IsArena(a, s2) /\ s2.stats = RecordAlloc(m, s.stats) => Books(s2, nl, nb)
         /\ ~IsArena(a, s2) /\ s2.stats = s.stats /\ nl = 1 /\ nb = m => Books(s2, 0, 0)
         /\ IsArena(a, s2) /\ s2.stats = RecordArena(m, s.stats) => Books(s2, nl, nb)
<1>1. /\ DOMAIN s2.cells = DOMAIN s.cells \cup {a}
      /\ s2.cells[a].bytes = m
      /\ \A b \in DOMAIN s.cells : b # a /\ s2.cells[b] = s.cells[b]
  <2>1. /\ DOMAIN s2.cells = DOMAIN s.cells \cup {a}
        /\ s2.cells[a] = [rc |-> 1, node |-> n, bytes |-> m]
        /\ \A b \in DOMAIN s.cells : b # a /\ s2.cells[b] = s.cells[b]
    BY BornCells
  <2>2. QED
    BY <2>1
<1>2. \A b : b # a => (IsArena(b, s2) <=> IsArena(b, s))
  BY DEF Born
<1>3. CountedIn(s) \subseteq DOMAIN s.cells /\ ArenaIn(s) \subseteq DOMAIN s.cells
      /\ a \notin CountedIn(s) /\ a \notin ArenaIn(s)
  BY <1>1 DEF CountedIn, ArenaIn
<1>4. nl \in Nat /\ nb \in Nat /\ s.stats.live = Cardinality(CountedIn(s)) + nl
      /\ s.stats.cur = Bytes(s, CountedIn(s)) + nb /\ s.stats.arena = Bytes(s, ArenaIn(s))
  BY DEF Books
<1>5. \A D \in {CountedIn(s), ArenaIn(s)} :
        /\ Bytes(s2, D \cup {a}) = Bytes(s, D) + m
        /\ Bytes(s2, D) = Bytes(s, D) /\ Bytes(s, D) \in Nat
        /\ Cardinality(D \cup {a}) = Cardinality(D) + 1 /\ Cardinality(D) \in Nat
  <2>1. ASSUME NEW D \in {CountedIn(s), ArenaIn(s)}
        PROVE  /\ Bytes(s2, D \cup {a}) = Bytes(s, D) + m
               /\ Bytes(s2, D) = Bytes(s, D) /\ Bytes(s, D) \in Nat
               /\ Cardinality(D \cup {a}) = Cardinality(D) + 1 /\ Cardinality(D) \in Nat
    <3>1. D \subseteq DOMAIN s.cells /\ a \notin D /\ a \in DOMAIN s2.cells /\ D \subseteq DOMAIN s2.cells
      BY <1>1, <1>3
    <3>2. \A b \in D : s2.cells[b] = s.cells[b]
      BY <1>1, <3>1
    <3>3. Bytes(s2, D) = Bytes(s, D)
      BY <3>2, BytesSame
    <3>4. QED
      BY <1>1, <3>1, <3>2, <3>3, BytesMore
  <2>2. QED
    BY <2>1
<1>6. DOMAIN s.stats = StatFields
  BY DEF Shape
<1>7. ASSUME ~IsArena(a, s2)
      PROVE  /\ CountedIn(s2) = CountedIn(s) \cup {a} /\ ArenaIn(s2) = ArenaIn(s)
             /\ Cardinality(CountedIn(s2)) = Cardinality(CountedIn(s)) + 1
             /\ Bytes(s2, CountedIn(s2)) = Bytes(s, CountedIn(s)) + m
             /\ Bytes(s2, ArenaIn(s2)) = Bytes(s, ArenaIn(s))
  <2>1. CountedIn(s2) = CountedIn(s) \cup {a} /\ ArenaIn(s2) = ArenaIn(s)
    BY <1>1, <1>2, <1>7 DEF CountedIn, ArenaIn
  <2>2. QED
    BY <1>5, <2>1
<1>8. ASSUME ~IsArena(a, s2), s2.stats = RecordAlloc(m, s.stats) PROVE Books(s2, nl, nb)
  <2>1. /\ s2.stats.live = s.stats.live + 1 /\ s2.stats.cur = s.stats.cur + m
        /\ s2.stats.arena = s.stats.arena
    BY <1>6, <1>8 DEF RecordAlloc, StatFields
  <2>2. QED
    BY <1>4, <1>5, <1>7, <1>8, <2>1 DEF Books
<1>9. ASSUME ~IsArena(a, s2), s2.stats = s.stats, nl = 1, nb = m PROVE Books(s2, 0, 0)
  BY <1>4, <1>5, <1>7, <1>9 DEF Books
<1>10. ASSUME IsArena(a, s2), s2.stats = RecordArena(m, s.stats) PROVE Books(s2, nl, nb)
  <2>1. /\ s2.stats.live = s.stats.live /\ s2.stats.cur = s.stats.cur
        /\ s2.stats.arena = s.stats.arena + m
    BY <1>6, <1>10 DEF RecordArena, StatFields
  <2>2. CountedIn(s2) = CountedIn(s) /\ ArenaIn(s2) = ArenaIn(s) \cup {a}
    BY <1>1, <1>2, <1>10 DEF CountedIn, ArenaIn
  <2>3. /\ Bytes(s2, ArenaIn(s2)) = Bytes(s, ArenaIn(s)) + m
        /\ Bytes(s2, CountedIn(s2)) = Bytes(s, CountedIn(s))
    BY <1>5, <2>2
  <2>4. QED
    BY <1>4, <1>5, <2>1, <2>2, <2>3 DEF Books
<1>11. QED
  BY <1>8, <1>9, <1>10

\* A counted cell enters no frame.
LEMMA BornFrames ==
  ASSUME NEW s, FramesOk(s), NEW a, a \notin DOMAIN s.cells, NEW n, NEW m,
         NEW s2, Born(s, s2, a, n, m), s2.arena = s.arena, s2.arenaC = s.arenaC
  PROVE  FramesOk(s2)
<1>1. /\ DOMAIN s2.cells = DOMAIN s.cells \cup {a}
      /\ \A b \in DOMAIN s.cells : b # a /\ s2.cells[b] = s.cells[b]
  BY BornCells
<1>2. ASSUME NEW fr, NEW w, HalfOk(fr, w, s) PROVE HalfOk(fr, w, s2)
  <2>1. fr \in Seq(SUBSET DOMAIN s.cells)
    BY <1>2 DEF HalfOk
  <2>2. fr \in Seq(SUBSET DOMAIN s2.cells)
    BY <1>1, <2>1
  <2>3. \A j \in DOMAIN fr : \A b \in fr[j] : b \in DOMAIN s.cells
    BY <2>1
  <2>4. QED
    BY <1>1, <1>2, <2>2, <2>3 DEF HalfOk
<1>3. QED
  BY <1>2 DEF FramesOk

(* A newly minted address is in no pool and no shell has it.               *)
LEMMA BornPool ==
  ASSUME NEW s, Shape(s), NEW R, PoolOk(s, R), NEW a, a \notin DOMAIN s.cells, ~Minted(a, s), NEW n, NEW m,
         NEW s2, Born(s, s2, a, n, m), s2.pool = s.pool
  PROVE  PoolOk(s2, R)
<1>1. DOMAIN s2.cells = DOMAIN s.cells \cup {a}
  BY BornCells
<1>2. \A b : Minted(b, s) => Minted(b, s2) /\ b # a
  BY MintedOn DEF Born, Shape
<1>3. QED
  BY <1>1, <1>2 DEF PoolOk

\* What an operation that hands out cell a with node n did to the store, and
\* that nothing else refers to the cell.
Gives(s, t, a, n) ==
  /\ a \in DOMAIN t.cells /\ t.cells[a].node = n
  /\ \A u \in DOMAIN t.cells : u # a => u \in DOMAIN s.cells /\ t.cells[u].node = s.cells[u].node

\* No slot and no cell refers to a.
Clear(t, e, a) ==
  /\ \A x \in Slots : e[x] # a
  /\ \A k \in DOMAIN t.cells : \A j \in DOMAIN t.cells[k].node.fs : t.cells[k].node.fs[j] # a

\* The frames, the shells and the recorded descriptors stay.
SameArena(s, t) ==
  /\ t.arena = s.arena /\ t.arenaC = s.arenaC /\ t.err = s.err /\ t.backend = s.backend
  /\ t.reserved = s.reserved
  /\ \A c \in Constructors : s.desc[c] # <<>> => t.desc[c] = s.desc[c]

\* What a counted allocation leaves behind.
Made(s, r, e, n, R, nl, nb) ==
  /\ Good(r.s, e, <<r.a>>, {}, R, nl, nb) /\ r.a \in Addresses
  /\ Gives(s, r.s, r.a, n) /\ Clear(r.s, e, r.a) /\ SameArena(s, r.s) /\ ~IsArena(r.a, r.s)

\* A birth hands out a cell that nothing refers to.
LEMMA BornGives ==
  ASSUME NEW s, NEW e, NEW n, NEW R, NEW nl, NEW nb, Good(s, e, n.fs, {}, R, nl, nb),
         NEW a, NEW m, Place(s, a, n, m), NEW s2, Born(s, s2, a, n, m)
  PROVE  Gives(s, s2, a, n) /\ Clear(s2, e, a)
<1>1. a \in Addresses /\ a \notin DOMAIN s.cells
  BY DEF Place
<1>2. /\ DOMAIN s2.cells = DOMAIN s.cells \cup {a}
      /\ s2.cells[a].node = n
      /\ \A b \in DOMAIN s.cells : b # a /\ s2.cells[b] = s.cells[b]
  <2>1. /\ DOMAIN s2.cells = DOMAIN s.cells \cup {a}
        /\ s2.cells[a] = [rc |-> 1, node |-> n, bytes |-> m]
        /\ \A b \in DOMAIN s.cells : b # a /\ s2.cells[b] = s.cells[b]
    BY <1>1, BornCells
  <2>2. QED
    BY <2>1
<1>3. /\ \A x \in Slots : e[x] # a
      /\ \A j \in DOMAIN n.fs : n.fs[j] # a
      /\ \A k \in DOMAIN s.cells : \A j \in DOMAIN s.cells[k].node.fs : s.cells[k].node.fs[j] # a
  BY <1>1, Unused
<1>4. Gives(s, s2, a, n)
  BY <1>2 DEF Gives
<1>5. Clear(s2, e, a)
  BY <1>2, <1>3 DEF Clear
<1>6. QED
  BY <1>4, <1>5

\* A counted birth is an allocation, whether on new memory or in a shell.
LEMMA BornMade ==
  ASSUME NEW s, NEW e, NEW n, NEW R, NEW nl, NEW nb, Good(s, e, n.fs, {}, R, nl, nb),
         NEW a, NEW m, Place(s, a, n, m), NEW s2, Born(s, s2, a, n, m),
         SameArena(s, s2), NEW R2, PoolOk(s2, R2), NEW nl2, NEW nb2,
         \/ s2.stats = RecordAlloc(m, s.stats) /\ nl2 = nl /\ nb2 = nb
         \/ s2.stats = s.stats /\ nl = 1 /\ nb = m /\ nl2 = 0 /\ nb2 = 0,
         NEW r, r.a = a, r.s = s2
  PROVE  Made(s, r, e, n, R2, nl2, nb2) /\ ~IsArena(a, s2)
<1>1. a \in Addresses /\ a \notin DOMAIN s.cells /\ m \in Nat /\ Shape(s) /\ FramesOk(s)
      /\ Books(s, nl, nb) /\ s2.arena = s.arena /\ s2.arenaC = s.arenaC
  BY DEF Place, Good, SameArena
<1>2. ~IsArena(a, s) /\ ~IsArena(a, s2)
  BY <1>1, Unused, ArenaSame
<1>3. Shape(s2)
  BY BornShape
<1>4. FramesOk(s2)
  BY <1>1, BornFrames
<1>5. Books(s2, nl2, nb2)
  BY <1>1, <1>2, <1>3, BornBooks
<1>6. Good(s2, e, <<a>>, {}, R2, nl2, nb2)
  BY <1>3, <1>4, <1>5, BornExact DEF Good
<1>7. Gives(s, s2, a, n) /\ Clear(s2, e, a)
  BY BornGives
<1>8. QED
  BY <1>1, <1>2, <1>6, <1>7 DEF Made

\* allocPure, on the IntMap.
LEMMA AllocPureMade ==
  ASSUME NEW s, NEW e, NEW n, NEW R, NEW nl, NEW nb, Good(s, e, n.fs, {}, R, nl, nb), Fits(n, s),
         NEW m \in Nat
  PROVE  Made(s, AllocPure(n, m, s), e, n, R, nl, nb)
<1> DEFINE a  == HAddr(s.next)
           s1 == Put(a, 1, n, m, s)
           s2 == [s1 EXCEPT !.next = @ + 1, !.stats = RecordAlloc(m, @)]
           r  == AllocPure(n, m, s)
<1>0. Shape(s) /\ DOMAIN s = StoreFields /\ DOMAIN s.stats = StatFields /\ s.next \in Nat /\ s.fresh \in Nat
      /\ PoolOk(s, R)
  BY DEF Good, Shape
<1>1. a \in Addresses /\ ~Minted(a, s) /\ a[1] = "H"
  BY <1>0 DEF Addresses, Minted, HAddr, CAddr
<1>2. a \notin DOMAIN s.cells
  BY <1>0, <1>1 DEF Shape
<1>3. r.a = a /\ r.s = s2
  BY DEF AllocPure
<1>4. /\ DOMAIN s1 = StoreFields
      /\ s1.backend = s.backend /\ s1.next = s.next /\ s1.desc = s.desc /\ s1.reserved = s.reserved
      /\ s1.arena = s.arena /\ s1.arenaC = s.arenaC /\ s1.fresh = s.fresh /\ s1.err = s.err
      /\ s1.pool = s.pool /\ s1.stats = s.stats
      /\ s1.cells = Extend(s.cells, a, [rc |-> 1, node |-> n, bytes |-> m])
  BY <1>0 DEF Put, StoreFields
<1> HIDE DEF s1, a, r
<1>5. /\ DOMAIN s2 = StoreFields
      /\ s2.backend = s.backend /\ s2.next = s.next + 1 /\ s2.desc = s.desc /\ s2.reserved = s.reserved
      /\ s2.arena = s.arena /\ s2.arenaC = s.arenaC /\ s2.fresh = s.fresh /\ s2.err = s.err
      /\ s2.pool = s.pool /\ s2.stats = RecordAlloc(m, s.stats)
      /\ s2.cells = Extend(s.cells, a, [rc |-> 1, node |-> n, bytes |-> m])
  BY <1>4 DEF StoreFields
<1> HIDE DEF s2
<1>6. DOMAIN s2.stats = StatFields
  BY <1>0, <1>5 DEF RecordAlloc
<1>7. Minted(a, s2)
  BY <1>0, <1>5 DEF Minted, a
<1>8. Born(s, s2, a, n, m)
  <2>1. \A b : IsArena(b, s2) <=> IsArena(b, s)
    BY <1>5, ArenaSame
  <2>2. s2.next \in Nat /\ s.next <= s2.next /\ s2.fresh \in Nat /\ s.fresh <= s2.fresh
    BY <1>0, <1>5
  <2>3. QED
    BY <1>5, <1>6, <1>7, <2>1, <2>2 DEF Born
<1>9. Place(s, a, n, m)
  BY <1>1, <1>2 DEF Place
<1>10. PoolOk(s2, R)
  BY <1>0, <1>1, <1>2, <1>5, <1>8, BornPool
<1>11. SameArena(s, s2)
  BY <1>5 DEF SameArena
<1>12. QED
  BY <1>3, <1>5, <1>8, <1>9, <1>10, <1>11, BornMade DEF r

-----------------------------------------------------------------------------
(* alloc, on both heaps.                                                   *)

(* A descriptor recorded for a constructor without one.                    *)
Redescribed(s, s2) ==
  /\ DOMAIN s2 = StoreFields /\ DOMAIN s2.desc = Constructors
  /\ s2.backend = s.backend /\ s2.next = s.next
  /\ s2.arena = s.arena /\ s2.arenaC = s.arenaC /\ s2.fresh = s.fresh /\ s2.err = s.err
  /\ s2.pool = s.pool /\ s2.stats = s.stats /\ s2.cells = s.cells
  /\ \A c \in Constructors : s.desc[c] # <<>> => s2.desc[c] = s.desc[c]

\* A list that is not empty has a first element.
LEMMA NonEmpty ==
  ASSUME NEW V, NEW w \in Seq(V), w # <<>>
  PROVE  1 \in DOMAIN w
  OBVIOUS

\* Recording a descriptor disturbs nothing.
LEMMA RedescribedGood ==
  ASSUME NEW s, NEW e, NEW w, NEW X, NEW R, NEW nl, NEW nb, Good(s, e, w, X, R, nl, nb),
         NEW s2, Redescribed(s, s2)
  PROVE  Good(s2, e, w, X, R, nl, nb)
<1>1. Shape(s) /\ PoolOk(s, R) /\ FramesOk(s) /\ Holding(e, w, X, s) /\ Exact(s, e, w, X) /\ Books(s, nl, nb)
  BY DEF Good
<1>2. \A b : IsArena(b, s2) <=> IsArena(b, s)
  BY DEF IsArena, Redescribed
<1>3. \A b : Minted(b, s2) <=> Minted(b, s)
  BY DEF Minted, Redescribed
<1>4. ASSUME NEW b \in DOMAIN s.cells PROVE CellOk(b, s2)
  <2> DEFINE n == s.cells[b].node
  <2>1. CellOk(b, s) /\ s2.cells = s.cells /\ n.con \in Constructors \cup {"Array"} /\ n.fs \in Seq(Storables)
        /\ n.fs # <<>>
    BY <1>1 DEF Shape, Redescribed, CellOk, Cell, Nodes
  <2>2. SlotKinds(n.fs) # <<>>
    <3>1. DOMAIN SlotKinds(n.fs) = DOMAIN n.fs
      BY DEF SlotKinds
    <3>2. DOMAIN n.fs # {}
      BY <2>1, NonEmpty
    <3>3. QED
      BY <3>1, <3>2
  <2>3. n.con # "Array" /\ b[1] = "C" => Encodable(n.fs) /\ s2.desc[n.con] = SlotKinds(n.fs)
    <3>1. ASSUME n.con # "Array", b[1] = "C" PROVE Encodable(n.fs) /\ s2.desc[n.con] = SlotKinds(n.fs)
      <4>1. n.con \in Constructors /\ Encodable(n.fs) /\ s.desc[n.con] = SlotKinds(n.fs)
        BY <2>1, <3>1 DEF CellOk
      <4>2. QED
        BY <2>2, <4>1 DEF Redescribed
    <3>2. QED
      BY <3>1
  <2>4. \A j \in DOMAIN n.fs : ~IsArena(n.fs[j], s2)
    BY <1>2, <2>1 DEF CellOk
  <2>5. QED
    BY <2>1, <2>3, <2>4 DEF CellOk
<1>5. Shape(s2)
  BY <1>1, <1>3, <1>4 DEF Shape, Redescribed
<1>6. PoolOk(s2, R)
  BY <1>1, <1>3 DEF PoolOk, Redescribed
<1>7. FramesOk(s2)
  BY <1>1 DEF FramesOk, HalfOk, Redescribed
<1>8. CountedIn(s2) = CountedIn(s) /\ ArenaIn(s2) = ArenaIn(s)
  BY <1>2 DEF CountedIn, ArenaIn, Redescribed
<1>9. Holding(e, w, X, s2)
  BY <1>1, <1>8 DEF Holding
<1>10. Exact(s2, e, w, X)
  BY <1>1, <1>2 DEF Exact, Total, Redescribed
<1>11. Books(s2, nl, nb)
  <2>1. \A D : Bytes(s2, D) = Bytes(s, D)
    BY DEF Bytes, Redescribed
  <2>2. QED
    BY <1>1, <1>8, <2>1 DEF Books, Redescribed
<1>12. QED
  BY <1>5, <1>6, <1>7, <1>9, <1>10, <1>11 DEF Good

\* allocNCon records the kinds it sees, once.
LEMMA RecordDescIs ==
  ASSUME NEW s, Shape(s), NEW n, n.con \in Constructors, FitsDesc(n, s)
  PROVE  /\ Redescribed(s, RecordDesc(n, s))
         /\ RecordDesc(n, s).desc[n.con] = SlotKinds(n.fs)
         /\ RecordDesc(n, s).reserved = s.reserved
<1> DEFINE s2 == [s EXCEPT !.desc[n.con] = SlotKinds(n.fs)]
<1>0. DOMAIN s = StoreFields /\ DOMAIN s.desc = Constructors
  BY DEF Shape
<1>1. CASE s.desc[n.con] = <<>>
  <2>1. /\ DOMAIN s2 = StoreFields
        /\ s2.backend = s.backend /\ s2.next = s.next /\ s2.reserved = s.reserved
        /\ s2.arena = s.arena /\ s2.arenaC = s.arenaC /\ s2.fresh = s.fresh /\ s2.err = s.err
        /\ s2.pool = s.pool /\ s2.stats = s.stats /\ s2.cells = s.cells
        /\ s2.desc = [s.desc EXCEPT ![n.con] = SlotKinds(n.fs)]
    BY <1>0 DEF StoreFields
  <2>2. RecordDesc(n, s) = s2
    BY <1>1 DEF RecordDesc
  <2> HIDE DEF s2
  <2>3. s2.desc[n.con] = SlotKinds(n.fs) /\ DOMAIN s2.desc = Constructors
        /\ \A c \in Constructors : c # n.con => s2.desc[c] = s.desc[c]
    BY <1>0, <2>1
  <2>4. Redescribed(s, s2)
    BY <1>1, <2>1, <2>3 DEF Redescribed
  <2>5. QED
    BY <2>1, <2>2, <2>3, <2>4
<1>2. CASE s.desc[n.con] # <<>>
  <2>1. RecordDesc(n, s) = s
    BY <1>2 DEF RecordDesc
  <2>2. s.desc[n.con] = SlotKinds(n.fs)
    BY <1>2 DEF FitsDesc
  <2>3. QED
    BY <1>0, <2>1, <2>2 DEF Redescribed
<1>3. QED
  BY <1>1, <1>2

\* Sizes and arities are numbers.
LEMMA BytesOf ==
  ASSUME NEW n \in Nodes
  PROVE  WouldBeCBytes(n) \in Nat /\ NodeArity(n) \in Nat
<1>1. Len(n.fs) \in Nat
  BY DEF Nodes
<1>2. QED
  BY <1>1 DEF WouldBeCBytes, NodeArity

(* The head of a pool goes to a new cell.                                  *)
LEMMA PoolPop ==
  ASSUME NEW s, NEW R, PoolOk(s, R), NEW m \in DOMAIN s.pool, s.pool[m] # <<>>,
         NEW s2, s2.pool = [s.pool EXCEPT ![m] = Tail(@)],
         DOMAIN s2.cells = DOMAIN s.cells \cup {Head(s.pool[m])},
         \A b : Minted(b, s) => Minted(b, s2)
  PROVE  /\ PoolOk(s2, R)
         /\ Head(s.pool[m]) \in Addresses /\ Head(s.pool[m])[1] = "C" /\ Minted(Head(s.pool[m]), s)
         /\ Head(s.pool[m]) \notin DOMAIN s.cells
<1> DEFINE old == s.pool[m]
           new == Tail(old)
           a   == Head(old)
<1>1. /\ old \in Seq(Addresses) /\ 1 \in DOMAIN old /\ a = old[1] /\ a \in Addresses
      /\ new \in Seq(Addresses)
      /\ \A j \in DOMAIN new : j + 1 \in DOMAIN old /\ new[j] = old[j + 1] /\ j \in Nat /\ j # 0
  <2>1. old \in Seq(Addresses) /\ old # <<>>
    BY DEF PoolOk
  <2> HIDE DEF old
  <2>2. QED
    BY <2>1
<1>2. a[1] = "C" /\ Minted(a, s) /\ a \notin R \cup DOMAIN s.cells
  BY <1>1 DEF PoolOk
<1>3. /\ DOMAIN s2.pool = DOMAIN s.pool /\ s2.pool[m] = new
      /\ \A k \in DOMAIN s.pool : k # m => s2.pool[k] = s.pool[k]
  OBVIOUS
<1> HIDE DEF new, a
<1>4. ASSUME NEW k \in DOMAIN s2.pool, NEW j \in DOMAIN s2.pool[k]
      PROVE  \E i \in DOMAIN s.pool[k] : /\ s2.pool[k][j] = s.pool[k][i]
                                         /\ i = IF k = m THEN j + 1 ELSE j
                                         /\ k = m => j \in Nat /\ j # 0
  BY <1>1, <1>3
<1>5. ASSUME NEW k \in DOMAIN s2.pool PROVE s2.pool[k] \in Seq(Addresses)
  BY <1>1, <1>3 DEF PoolOk
<1>6. ASSUME NEW k \in DOMAIN s2.pool, NEW j \in DOMAIN s2.pool[k]
      PROVE  /\ s2.pool[k][j][1] = "C" /\ Minted(s2.pool[k][j], s2)
             /\ s2.pool[k][j] \notin R \cup DOMAIN s2.cells
  <2>1. PICK i \in DOMAIN s.pool[k] : /\ s2.pool[k][j] = s.pool[k][i]
                                      /\ i = (IF k = m THEN j + 1 ELSE j)
                                      /\ k = m => j \in Nat /\ j # 0
    BY <1>4
  <2>2. s.pool[k][i] # a
    <3>1. ~(k = m /\ i = 1)
      BY <2>1
    <3>2. QED
      BY <1>1, <1>3, <3>1 DEF PoolOk
  <2>3. QED
    BY <1>3, <2>1, <2>2 DEF PoolOk, a
<1>7. ASSUME NEW k \in DOMAIN s2.pool, NEW l \in DOMAIN s2.pool, NEW j \in DOMAIN s2.pool[k],
             NEW h \in DOMAIN s2.pool[l], s2.pool[k][j] = s2.pool[l][h]
      PROVE  k = l /\ j = h
  <2>1. PICK i \in DOMAIN s.pool[k] : /\ s2.pool[k][j] = s.pool[k][i]
                                      /\ i = (IF k = m THEN j + 1 ELSE j)
                                      /\ k = m => j \in Nat /\ j # 0
    BY <1>4
  <2>2. PICK g \in DOMAIN s.pool[l] : /\ s2.pool[l][h] = s.pool[l][g]
                                      /\ g = (IF l = m THEN h + 1 ELSE h)
                                      /\ l = m => h \in Nat /\ h # 0
    BY <1>4
  <2>3. k = l /\ i = g
    BY <1>3, <1>7, <2>1, <2>2 DEF PoolOk
  <2>4. QED
    BY <2>1, <2>2, <2>3
<1>8. ASSUME NEW b \in R PROVE Minted(b, s2) /\ b \notin DOMAIN s2.cells
  BY <1>2 DEF PoolOk, a
<1>9. QED
  BY <1>1, <1>2, <1>5, <1>6, <1>7, <1>8 DEF PoolOk, a

\* The C half of allocNCon and allocNArray, on fresh memory or on the pool's.
LEMMA AllocCMade ==
  ASSUME NEW s, NEW e, NEW n, NEW R, NEW nl, NEW nb, Good(s, e, n.fs, {}, R, nl, nb), Fits(n, s),
         n.con # "Array" => Encodable(n.fs) /\ s.desc[n.con] = SlotKinds(n.fs)
  PROVE  Made(s, AllocC(n, s), e, n, R, nl, nb)
<1> DEFINE m    == WouldBeCBytes(n)
           pool == PoolOf(m, s)
           a    == IF pool = <<>> THEN CAddr(s.fresh) ELSE Head(pool)
           s1   == IF pool = <<>> THEN [s EXCEPT !.fresh = @ + 1] ELSE [s EXCEPT !.pool[m] = Tail(@)]
           s2   == Put(a, 1, n, m, s1)
           s3   == [s2 EXCEPT !.stats = RecordAlloc(m, @)]
           r    == AllocC(n, s)
<1>0. Shape(s) /\ DOMAIN s = StoreFields /\ DOMAIN s.stats = StatFields /\ s.next \in Nat /\ s.fresh \in Nat
      /\ PoolOk(s, R)
  BY DEF Good, Shape
<1>1. m \in Nat
  BY BytesOf DEF Fits
<1>2. r.a = a /\ r.s = s3
  <2>1. WokAlloc(n, s) = [a |-> a, s |-> s2]
    BY DEF WokAlloc
  <2> HIDE DEF a, s2, m
  <2>2. r = [[a |-> a, s |-> s2] EXCEPT !.s.stats = RecordAlloc(m, @)]
    BY <2>1 DEF AllocC, m
  <2>3. QED
    BY <2>2
<1>3. /\ DOMAIN s1 = StoreFields
      /\ s1.backend = s.backend /\ s1.next = s.next /\ s1.desc = s.desc /\ s1.reserved = s.reserved
      /\ s1.arena = s.arena /\ s1.arenaC = s.arenaC /\ s1.err = s.err
      /\ s1.stats = s.stats /\ s1.cells = s.cells
      /\ pool = <<>> => s1.fresh = s.fresh + 1 /\ s1.pool = s.pool
      /\ pool # <<>> => s1.fresh = s.fresh /\ s1.pool = [s.pool EXCEPT ![m] = Tail(@)]
  <2> HIDE DEF pool, m
  <2>1. CASE pool = <<>>
    BY <1>0, <2>1 DEF StoreFields
  <2>2. CASE pool # <<>>
    BY <1>0, <2>2 DEF StoreFields
  <2>3. QED
    BY <2>1, <2>2
<1> HIDE DEF s1, a, r, m
<1>4. /\ DOMAIN s2 = StoreFields
      /\ s2.backend = s1.backend /\ s2.next = s1.next /\ s2.desc = s1.desc /\ s2.reserved = s1.reserved
      /\ s2.arena = s1.arena /\ s2.arenaC = s1.arenaC /\ s2.err = s1.err /\ s2.fresh = s1.fresh
      /\ s2.stats = s1.stats /\ s2.pool = s1.pool
      /\ s2.cells = Extend(s1.cells, a, [rc |-> 1, node |-> n, bytes |-> m])
  BY <1>3 DEF Put, StoreFields
<1> HIDE DEF s2
<1>5. /\ DOMAIN s3 = StoreFields
      /\ s3.backend = s2.backend /\ s3.next = s2.next /\ s3.desc = s2.desc /\ s3.reserved = s2.reserved
      /\ s3.arena = s2.arena /\ s3.arenaC = s2.arenaC /\ s3.err = s2.err /\ s3.fresh = s2.fresh
      /\ s3.pool = s2.pool /\ s3.cells = s2.cells /\ s3.stats = RecordAlloc(m, s2.stats)
  BY <1>4 DEF StoreFields
<1> HIDE DEF s3
<1>6. /\ DOMAIN s3 = StoreFields
      /\ s3.backend = s.backend /\ s3.next = s.next /\ s3.desc = s.desc /\ s3.reserved = s.reserved
      /\ s3.arena = s.arena /\ s3.arenaC = s.arenaC /\ s3.err = s.err /\ s3.stats = RecordAlloc(m, s.stats)
      /\ s3.cells = Extend(s.cells, a, [rc |-> 1, node |-> n, bytes |-> m])
      /\ DOMAIN s3.stats = StatFields
      /\ pool = <<>> => s3.fresh = s.fresh + 1 /\ s3.pool = s.pool
      /\ pool # <<>> => s3.fresh = s.fresh /\ s3.pool = [s.pool EXCEPT ![m] = Tail(@)]
  BY <1>0, <1>3, <1>4, <1>5 DEF RecordAlloc
<1>7. s3.fresh \in Nat /\ s.fresh <= s3.fresh /\ s3.next \in Nat /\ s.next <= s3.next
  BY <1>0, <1>6
<1>8. \A b : Minted(b, s) => Minted(b, s3)
  BY <1>0, <1>7, MintedOn
<1>9. SameArena(s, s3) /\ \A b : IsArena(b, s3) <=> IsArena(b, s)
  BY <1>6, ArenaSame DEF SameArena
<1>10. a \in Addresses /\ a[1] = "C" /\ a \notin DOMAIN s.cells /\ Minted(a, s3)
       /\ (Born(s, s3, a, n, m) => PoolOk(s3, R))
  <2>1. CASE pool = <<>>
    <3>1. a = CAddr(s.fresh) /\ s3.fresh = s.fresh + 1 /\ s3.pool = s.pool
      BY <1>6, <2>1 DEF a
    <3>2. a \in Addresses /\ ~Minted(a, s) /\ a[1] = "C"
      BY <1>0, <3>1 DEF Addresses, Minted, HAddr, CAddr
    <3>3. a \notin DOMAIN s.cells
      BY <1>0, <3>2 DEF Shape
    <3>4. Minted(a, s3)
      BY <1>0, <3>1 DEF Minted
    <3>5. Born(s, s3, a, n, m) => PoolOk(s3, R)
      BY <1>0, <3>1, <3>2, <3>3, BornPool
    <3>6. QED
      BY <3>2, <3>3, <3>4, <3>5
  <2>2. CASE pool # <<>>
    <3>1. m \in DOMAIN s.pool /\ s.pool[m] # <<>> /\ a = Head(s.pool[m])
      BY <2>2 DEF PoolOf, a
    <3>2. s3.pool = [s.pool EXCEPT ![m] = Tail(@)]
      BY <1>6, <2>2
    <3>3. DOMAIN s3.cells = DOMAIN s.cells \cup {a}
      BY <1>6 DEF Extend
    <3>4. PoolOk(s3, R) /\ a \in Addresses /\ a[1] = "C" /\ Minted(a, s) /\ a \notin DOMAIN s.cells
      <4>1. DOMAIN s3.cells = DOMAIN s.cells \cup {Head(s.pool[m])}
        BY <3>1, <3>3
      <4>2. /\ PoolOk(s3, R)
            /\ Head(s.pool[m]) \in Addresses /\ Head(s.pool[m])[1] = "C" /\ Minted(Head(s.pool[m]), s)
            /\ Head(s.pool[m]) \notin DOMAIN s.cells
        BY <1>0, <1>8, <3>1, <3>2, <4>1, PoolPop
      <4>3. QED
        BY <3>1, <4>2
    <3>5. QED
      BY <1>8, <3>4
  <2>3. QED
    BY <2>1, <2>2
<1>11. Born(s, s3, a, n, m)
  BY <1>6, <1>7, <1>9, <1>10 DEF Born
<1>12. Place(s, a, n, m)
  BY <1>1, <1>10 DEF Place
<1>13. PoolOk(s3, R)
  BY <1>10, <1>11
<1>14. s3.stats = RecordAlloc(m, s.stats)
  BY <1>6
<1>15. QED
  BY <1>2, <1>9, <1>11, <1>12, <1>13, <1>14, BornMade DEF r

\* An allocation after a recorded descriptor.
LEMMA MadeFrom ==
  ASSUME NEW s, NEW s1, Redescribed(s, s1), s1.reserved = s.reserved, NEW r, NEW e, NEW n, NEW R, NEW nl, NEW nb,
         Made(s1, r, e, n, R, nl, nb)
  PROVE  Made(s, r, e, n, R, nl, nb)
<1>1. s1.cells = s.cells /\ SameArena(s, s1)
  BY DEF Redescribed, SameArena
<1>2. Gives(s, r.s, r.a, n)
  BY <1>1 DEF Made, Gives
<1>3. SameArena(s, r.s)
  BY <1>1 DEF Made, SameArena
<1>4. QED
  BY <1>2, <1>3 DEF Made

\* A node fits as long as the frames stay.
LEMMA FitsFrom ==
  ASSUME NEW s, NEW s1, s1.arena = s.arena, s1.arenaC = s.arenaC, NEW n, Fits(n, s)
  PROVE  Fits(n, s1)
  BY ArenaSame DEF Fits

\* alloc, of any node that fits.
LEMMA AllocMade ==
  ASSUME NEW s, NEW e, NEW n, NEW R, NEW nl, NEW nb, Good(s, e, n.fs, {}, R, nl, nb), Fits(n, s)
  PROVE  Made(s, Alloc(n, s), e, n, R, nl, nb)
<1>0. Shape(s) /\ n \in Nodes /\ n.con \in Constructors \cup {"Array"} /\ n.fs # <<>>
      /\ WouldBeCBytes(n) \in Nat
  BY BytesOf DEF Good, Fits, Nodes
<1>1. CASE n.con = "Array"
  <2>1. Encodable(n.fs)
    BY <1>1 DEF Fits
  <2>2. CASE s.backend = "abs"
    <3>1. Alloc(n, s) = AllocPure(n, WouldBeCBytes(n), s)
      BY <1>1, <2>2 DEF Alloc, AllocNArray
    <3>2. QED
      BY <1>0, <3>1, AllocPureMade
  <2>3. CASE s.backend # "abs"
    <3>1. Alloc(n, s) = AllocC(n, s)
      BY <1>1, <2>1, <2>3 DEF Alloc, AllocNArray
    <3>2. QED
      BY <1>1, <3>1, AllocCMade
  <2>4. QED
    BY <2>2, <2>3
<1>2. CASE n.con # "Array"
  <2>0. n.con \in Constructors
    BY <1>0, <1>2
  <2>1. Alloc(n, s) = AllocNCon(n, s)
    BY <1>2, <2>0 DEF Alloc
  <2>2. CASE ~NodeCEligible(n) \/ ~FitsDesc(n, s)
    <3>1. Alloc(n, s) = AllocPure(n, 0, s)
      BY <1>0, <2>1, <2>2 DEF AllocNCon
    <3>2. QED
      BY <3>1, AllocPureMade
  <2>3. CASE ~(~NodeCEligible(n) \/ ~FitsDesc(n, s))
    <3> DEFINE s1 == RecordDesc(n, s)
    <3>1. Redescribed(s, s1) /\ s1.desc[n.con] = SlotKinds(n.fs) /\ s1.reserved = s.reserved
      BY <1>0, <2>0, <2>3, RecordDescIs
    <3> HIDE DEF s1
    <3>2. Good(s1, e, n.fs, {}, R, nl, nb)
      BY <3>1, RedescribedGood
    <3>3. Fits(n, s1)
      BY <3>1, FitsFrom DEF Redescribed
    <3>4. CASE s.backend = "abs"
      <4>1. Alloc(n, s) = AllocPure(n, WouldBeCBytes(n), s1)
        BY <1>0, <2>1, <2>3, <3>4 DEF AllocNCon, s1
      <4>2. QED
        BY <1>0, <3>1, <3>2, <3>3, <4>1, AllocPureMade, MadeFrom
    <3>5. CASE s.backend # "abs"
      <4>1. Alloc(n, s) = AllocC(n, s1)
        BY <1>0, <2>1, <2>3, <3>5 DEF AllocNCon, s1
      <4>2. Encodable(n.fs)
        BY <2>3 DEF NodeCEligible
      <4>3. QED
        BY <3>1, <3>2, <3>3, <4>1, <4>2, AllocCMade, MadeFrom
    <3>6. QED
      BY <3>4, <3>5
  <2>4. QED
    BY <2>2, <2>3
<1>3. QED
  BY <1>1, <1>2

-----------------------------------------------------------------------------
(* In-place reuse: dropReuse and allocAt.                                  *)

(* A shell leaves the books, and a C one joins the pool.                   *)
LEMMA ShellGood ==
  ASSUME NEW s, NEW e, NEW w, NEW X, NEW a \in Addresses, NEW m,
         Good(s, e, w, X, {a}, 1, m), NEW s2,
         /\ DOMAIN s2 = StoreFields /\ s2.backend = s.backend /\ s2.next = s.next /\ s2.desc = s.desc
         /\ s2.arena = s.arena /\ s2.arenaC = s.arenaC /\ s2.fresh = s.fresh
         /\ s2.cells = s.cells /\ s2.stats = RecordFree(m, s.stats),
         \/ s2.pool = s.pool
         \/ a[1] = "C" /\ s2.pool = Extend(s.pool, m, <<a>> \o PoolOf(m, s))
  PROVE  Good(s2, e, w, X, {}, 0, 0)
<1>1. Shape(s) /\ PoolOk(s, {a}) /\ FramesOk(s) /\ Holding(e, w, X, s) /\ Exact(s, e, w, X) /\ Books(s, 1, m)
  BY DEF Good
<1>2. \A b : IsArena(b, s2) <=> IsArena(b, s)
  BY ArenaSame
<1>3. \A b : Minted(b, s2) <=> Minted(b, s)
  BY DEF Minted
<1>4. DOMAIN s.stats = StatFields
  BY <1>1 DEF Shape
<1>5. Shape(s2)
  <2>1. \A b \in DOMAIN s.cells : CellOk(b, s) => CellOk(b, s2)
    BY <1>2 DEF CellOk
  <2>2. DOMAIN s2.stats = StatFields
    BY <1>4 DEF RecordFree
  <2>3. QED
    BY <1>1, <1>3, <2>1, <2>2 DEF Shape
<1>6. PoolOk(s, {})
  BY <1>1 DEF PoolOk
<1>7. PoolOk(s2, {})
  <2>1. CASE s2.pool = s.pool
    BY <1>3, <1>6, <2>1 DEF PoolOk
  <2>2. CASE a[1] = "C" /\ s2.pool = Extend(s.pool, m, <<a>> \o PoolOf(m, s))
    <3>1. Minted(a, s) /\ a \notin {} \cup DOMAIN s.cells
          /\ \A n \in DOMAIN s.pool : \A j \in DOMAIN s.pool[n] : s.pool[n][j] # a
      BY <1>1 DEF PoolOk
    <3>2. m \in Nat
      BY <1>1 DEF Books
    <3>3. QED
      BY <1>6, <2>2, <3>1, <3>2, PoolPush
  <2>3. QED
    BY <2>1, <2>2
<1>8. FramesOk(s2)
  BY <1>1 DEF FramesOk, HalfOk
<1>9. CountedIn(s2) = CountedIn(s) /\ ArenaIn(s2) = ArenaIn(s)
  BY <1>2 DEF CountedIn, ArenaIn
<1>10. Holding(e, w, X, s2)
  BY <1>1, <1>9 DEF Holding
<1>11. Exact(s2, e, w, X)
  BY <1>1, <1>2 DEF Exact, Total
<1>12. Books(s2, 0, 0)
  <2>1. \A D : Bytes(s2, D) = Bytes(s, D)
    BY DEF Bytes
  <2>2. /\ s2.stats.live = s.stats.live - 1 /\ s2.stats.cur = s.stats.cur - m
        /\ s2.stats.arena = s.stats.arena
    BY <1>4 DEF RecordFree, StatFields
  <2>3. IsFiniteSet(CountedIn(s)) /\ Cardinality(CountedIn(s)) \in Nat
    BY <1>1, InFinite, FS_CardinalityType
  <2>4. Bytes(s, CountedIn(s)) \in Nat
    <3>1. \A b \in CountedIn(s) : s.cells[b].bytes \in Nat
      BY <1>1, InFinite DEF CountedIn
    <3>2. QED
      BY <2>3, <3>1, BytesStep
  <2>5. QED
    BY <1>1, <1>9, <2>1, <2>2, <2>3, <2>4 DEF Books
<1>13. QED
  BY <1>5, <1>7, <1>8, <1>10, <1>11, <1>12 DEF Good

\* The kind a slot has for a field of a class, if it has one.
ClassKind(c) == IF c = "ptr" THEN "KPointer" ELSE IF c = "char" THEN "KLitChar" ELSE "KLitInt"
ClassKinds(cs) == [j \in DOMAIN cs |-> ClassKind(cs[j])]

\* What a slot stores tells the static class; only a big natural has no kind.
LEMMA KindIs ==
  ASSUME NEW v \in Storables
  PROVE  /\ SlotKind(v) # "none" => SlotKind(v) = ClassKind(StaticClass(v))
         /\ SlotKind(v) = "none" <=> v = Lit("big")
<1>1. CASE v \in Addresses
  <2>1. v[1] # "lit" /\ v # Lit("big")
    BY <1>1 DEF Addresses, HAddr, CAddr, Lit
  <2>2. QED
    BY <2>1 DEF SlotKind, StaticClass, ClassKind
<1>2. CASE v = Inline
  <2>1. v[1] # "lit" /\ v # Lit("big")
    BY <1>2 DEF Inline, Lit
  <2>2. QED
    BY <2>1 DEF SlotKind, StaticClass, ClassKind
<1>3. CASE v \in Literals
  <2>1. PICK k \in {"small", "char", "big"} : v = Lit(k)
    BY <1>3 DEF Literals
  <2>2. v[1] = "lit" /\ v[2] = k /\ (v = Lit("big") <=> k = "big")
    BY <2>1 DEF Lit
  <2>3. CASE k = "small"
    BY <2>2, <2>3 DEF SlotKind, StaticClass, ClassKind
  <2>4. CASE k = "char"
    BY <2>2, <2>4 DEF SlotKind, StaticClass, ClassKind
  <2>5. CASE k = "big"
    BY <2>2, <2>5 DEF SlotKind, StaticClass, ClassKind
  <2>6. QED
    BY <2>3, <2>4, <2>5
<1>4. QED
  BY <1>1, <1>2, <1>3 DEF Storables

\* So fields of the same static classes have the same kinds.
LEMMA KindsAre ==
  ASSUME NEW vs \in Seq(Storables), Encodable(vs)
  PROVE  SlotKinds(vs) = ClassKinds(StaticClasses(vs))
<1>1. \A j \in DOMAIN vs : SlotKind(vs[j]) = ClassKind(StaticClass(vs[j]))
  <2>1. \A j \in DOMAIN vs : vs[j] \in Storables /\ SlotKind(vs[j]) # "none"
    BY DEF Encodable
  <2>2. QED
    BY <2>1, KindIs
<1>2. DOMAIN StaticClasses(vs) = DOMAIN vs /\ \A j \in DOMAIN vs : StaticClasses(vs)[j] = StaticClass(vs[j])
  BY DEF StaticClasses
<1>3. QED
  BY <1>1, <1>2 DEF SlotKinds, ClassKinds

(* A token to be spent on a constructor with fields of these classes.      *)
TokenOk(t, s, kon, cs) ==
  \/ t = NullToken
  \/ /\ t.a \in Addresses /\ t.bytes \in Nat
     /\ t.a[1] = "C" => t.elig = TRUE /\ s.desc[kon] = ClassKinds(cs) /\ s.desc[kon] # <<>>

\* A spent shell is an allocation (reuseCConAt).
LEMMA RestampMade ==
  ASSUME NEW s, NEW e, NEW n, NEW t, t.a \in Addresses,
         Good(s, e, n.fs, {}, {t.a}, 1, t.bytes), Fits(n, s), n.con \in Constructors,
         t.a[1] = "C" => Encodable(n.fs) /\ FitsDesc(n, s)
  PROVE  Made(s, Restamp(t, n, s), e, n, {}, 0, 0)
<1> DEFINE a  == t.a
           m  == t.bytes
           s1 == IF a[1] = "C" THEN RecordDesc(n, s) ELSE s
           s2 == Put(a, 1, n, m, s1)
           r  == Restamp(t, n, s)
<1>0. Shape(s) /\ m \in Nat
  BY DEF Good, Books
<1>1. Redescribed(s, s1) /\ (a[1] = "C" => s1.desc[n.con] = SlotKinds(n.fs)) /\ s1.reserved = s.reserved
  <2>1. CASE a[1] = "C"
    BY <1>0, <2>1, RecordDescIs
  <2>2. CASE a[1] # "C"
    BY <1>0, <2>2 DEF Redescribed, Shape
  <2>3. QED
    BY <2>1, <2>2
<1>2. r.a = a /\ r.s = s2
  BY DEF Restamp
<1> HIDE DEF s1, r
<1>3. Good(s1, e, n.fs, {}, {a}, 1, m)
  BY <1>1, RedescribedGood
<1>4. Fits(n, s1)
  BY <1>1, FitsFrom DEF Redescribed
<1>5. PoolOk(s1, {a}) /\ Shape(s1)
  BY <1>3 DEF Good
<1>6. /\ DOMAIN s2 = StoreFields
      /\ s2.backend = s1.backend /\ s2.next = s1.next /\ s2.desc = s1.desc /\ s2.reserved = s1.reserved
      /\ s2.arena = s1.arena /\ s2.arenaC = s1.arenaC /\ s2.fresh = s1.fresh /\ s2.err = s1.err
      /\ s2.pool = s1.pool /\ s2.stats = s1.stats
      /\ s2.cells = Extend(s1.cells, a, [rc |-> 1, node |-> n, bytes |-> m])
  <2>1. DOMAIN s1 = StoreFields
    BY <1>5 DEF Shape
  <2>2. QED
    BY <2>1 DEF Put, StoreFields
<1> HIDE DEF s2
<1>7. Minted(a, s1) /\ a \notin DOMAIN s1.cells
  BY <1>5 DEF PoolOk
<1>8. Minted(a, s2)
  BY <1>6, <1>7 DEF Minted
<1>9. Place(s1, a, n, m)
  BY <1>0, <1>1, <1>4, <1>7 DEF Place
<1>10. Born(s1, s2, a, n, m)
  <2>1. \A b : IsArena(b, s2) <=> IsArena(b, s1)
    BY <1>6, ArenaSame
  <2>2. s1.next \in Nat /\ s1.fresh \in Nat /\ DOMAIN s1.stats = StatFields
    BY <1>5 DEF Shape
  <2>3. s1.next <= s1.next /\ s1.fresh <= s1.fresh
    BY <2>2
  <2>4. QED
    BY <1>6, <1>8, <2>1, <2>2, <2>3 DEF Born
<1>11. PoolOk(s2, {})
  <2>1. DOMAIN s2.cells = DOMAIN s1.cells \cup {a}
    BY <1>7, <1>10, BornCells
  <2>2. \A b : Minted(b, s1) => Minted(b, s2)
    BY <1>6 DEF Minted
  <2>3. QED
    BY <1>5, <1>6, <2>1, <2>2 DEF PoolOk
<1>12. SameArena(s1, s2)
  BY <1>6 DEF SameArena
<1>13. Made(s1, r, e, n, {}, 0, 0)
  BY <1>2, <1>3, <1>6, <1>9, <1>10, <1>11, <1>12, BornMade
<1>14. QED
  BY <1>1, <1>13, MadeFrom DEF r

\* allocAt, of a token in flight: the shell is spent or given back.
LEMMA AllocAtMade ==
  ASSUME NEW s, NEW e, NEW n, NEW t, t # NullToken,
         TokenOk(t, s, n.con, StaticClasses(n.fs)),
         Good(s, e, n.fs, {}, {t.a}, 1, t.bytes), Fits(n, s), n.con \in Constructors
  PROVE  Made([s EXCEPT !.reserved = @ \ {t.a}], AllocAt(t, n, s), e, n, {}, 0, 0)
<1> DEFINE s1 == [s EXCEPT !.reserved = @ \ {t.a}]
           s2 == [s1 EXCEPT !.stats = RecordFree(t.bytes, @)]
           s3 == IF t.a[1] = "C" THEN WokFree(t.a, t.bytes, s2) ELSE s2
<1>0. /\ t.a \in Addresses /\ t.bytes \in Nat
      /\ t.a[1] = "C" => t.elig = TRUE /\ s.desc[n.con] = ClassKinds(StaticClasses(n.fs))
  BY DEF TokenOk
<1>1. DOMAIN s = StoreFields /\ DOMAIN s.desc = Constructors
  BY DEF Good, Shape
<1>2. /\ DOMAIN s1 = StoreFields
      /\ s1.backend = s.backend /\ s1.next = s.next /\ s1.desc = s.desc
      /\ s1.arena = s.arena /\ s1.arenaC = s.arenaC /\ s1.fresh = s.fresh /\ s1.err = s.err
      /\ s1.pool = s.pool /\ s1.stats = s.stats /\ s1.cells = s.cells
  BY <1>1 DEF StoreFields
<1>3. Redescribed(s, s1)
  BY <1>1, <1>2 DEF Redescribed
<1> HIDE DEF s1
<1>4. Good(s1, e, n.fs, {}, {t.a}, 1, t.bytes)
  BY <1>3, RedescribedGood
<1>5. Fits(n, s1)
  BY <1>2, FitsFrom
<1>6. CASE NodeArity(n) = t.ar /\ NodeCEligible(n) = t.elig
  <2>1. t.a[1] = "C" => Encodable(n.fs) /\ FitsDesc(n, s1)
    <3>1. ASSUME t.a[1] = "C" PROVE Encodable(n.fs) /\ FitsDesc(n, s1)
      <4>1. Encodable(n.fs) /\ n.fs \in Seq(Storables)
        BY <1>0, <1>6, <3>1 DEF NodeCEligible, Fits, Nodes
      <4>2. SlotKinds(n.fs) = ClassKinds(StaticClasses(n.fs))
        BY <4>1, KindsAre
      <4>3. QED
        BY <1>0, <1>2, <3>1, <4>1, <4>2 DEF FitsDesc
    <3>2. QED
      BY <3>1
  <2>2. AllocAt(t, n, s) = Restamp(t, n, s1)
    BY <1>6 DEF AllocAt, s1
  <2>3. QED
    BY <1>0, <1>4, <1>5, <2>1, <2>2, RestampMade DEF s1
<1>7. CASE ~(NodeArity(n) = t.ar /\ NodeCEligible(n) = t.elig)
  <2>1. AllocAt(t, n, s) = Alloc(n, s3)
    BY <1>7 DEF AllocAt, s1
  <2>2. /\ DOMAIN s2 = StoreFields
        /\ s2.backend = s1.backend /\ s2.next = s1.next /\ s2.desc = s1.desc /\ s2.reserved = s1.reserved
        /\ s2.arena = s1.arena /\ s2.arenaC = s1.arenaC /\ s2.fresh = s1.fresh /\ s2.err = s1.err
        /\ s2.pool = s1.pool /\ s2.stats = RecordFree(t.bytes, s1.stats) /\ s2.cells = s1.cells
    BY <1>2 DEF StoreFields
  <2> HIDE DEF s2
  <2>3. /\ DOMAIN s3 = StoreFields
        /\ s3.backend = s1.backend /\ s3.next = s1.next /\ s3.desc = s1.desc /\ s3.reserved = s1.reserved
        /\ s3.arena = s1.arena /\ s3.arenaC = s1.arenaC /\ s3.fresh = s1.fresh /\ s3.err = s1.err
        /\ s3.stats = RecordFree(t.bytes, s1.stats) /\ s3.cells = s1.cells
        /\ \/ s3.pool = s1.pool
           \/ t.a[1] = "C" /\ s3.pool = Extend(s1.pool, t.bytes, <<t.a>> \o PoolOf(t.bytes, s1))
    <3>1. CASE t.a[1] # "C"
      BY <2>2, <3>1
    <3>2. CASE t.a[1] = "C"
      <4>1. s3 = WokFree(t.a, t.bytes, s2)
        BY <3>2
      <4>2. /\ DOMAIN s3 = StoreFields
            /\ s3.backend = s2.backend /\ s3.next = s2.next /\ s3.desc = s2.desc /\ s3.reserved = s2.reserved
            /\ s3.arena = s2.arena /\ s3.arenaC = s2.arenaC /\ s3.fresh = s2.fresh /\ s3.err = s2.err
            /\ s3.stats = s2.stats /\ s3.cells = s2.cells
            /\ s3.pool = Extend(s2.pool, t.bytes, <<t.a>> \o PoolOf(t.bytes, s2))
        BY <2>2, <4>1 DEF WokFree, StoreFields
      <4>3. PoolOf(t.bytes, s2) = PoolOf(t.bytes, s1)
        BY <2>2 DEF PoolOf
      <4>4. QED
        BY <2>2, <3>2, <4>2, <4>3
    <3>3. QED
      BY <3>1, <3>2
  <2> HIDE DEF s3
  <2>4. Good(s3, e, n.fs, {}, {}, 0, 0)
    BY <1>0, <1>4, <2>3, ShellGood
  <2>5. Fits(n, s3)
    BY <1>5, <2>3, FitsFrom
  <2>6. Made(s3, Alloc(n, s3), e, n, {}, 0, 0)
    BY <2>4, <2>5, AllocMade
  <2> DEFINE r == Alloc(n, s3)
  <2> HIDE DEF r
  <2>7. Made(s3, r, e, n, {}, 0, 0)
    BY <2>6 DEF r
  <2>8. Gives(s1, r.s, r.a, n)
    BY <2>3, <2>7 DEF Made, Gives
  <2>9. SameArena(s1, r.s)
    BY <2>3, <2>7 DEF Made, SameArena
  <2>10. Made(s1, r, e, n, {}, 0, 0)
    BY <2>7, <2>8, <2>9 DEF Made
  <2>11. QED
    BY <2>1, <2>10 DEF r, s1
<1>8. QED
  BY <1>6, <1>7

\* A step that loses cells and keeps what the rest of them hold, where they
\* are and the descriptors there are.
Thins(s, t) ==
  /\ DOMAIN t.cells \subseteq DOMAIN s.cells
  /\ \A u \in DOMAIN t.cells : t.cells[u].node = s.cells[u].node
  /\ t.arena = s.arena /\ t.arenaC = s.arenaC /\ t.err = s.err /\ t.backend = s.backend
  /\ \A c \in Constructors : s.desc[c] # <<>> => t.desc[c] = s.desc[c]

\* A step that loses cells is such a step.
LEMMA ShrinksThins ==
  ASSUME NEW s, NEW t, Shrinks(s, t)
  PROVE  Thins(s, t) /\ t.reserved = s.reserved
  BY DEF Shrinks, SameFrame, SameCells, Thins

(* dropAddr.                                                               *)
LEMMA DropAddrGood ==
  ASSUME NEW a, NEW s, NEW e, NEW X, NEW R, NEW nl, NEW nb, s.err = "none",
         Good(s, e, <<a>>, X, R, nl, nb)
  PROVE  /\ Good(DropAddr(a, s), e, <<>>, X, R, nl, nb)
         /\ Thins(s, DropAddr(a, s)) /\ DropAddr(a, s).reserved = s.reserved
  BY DropAllGood, ShrinksThins DEF DropAddr

\* Nothing more on a list.
LEMMA JoinNone ==
  ASSUME NEW V, NEW w \in Seq(V)
  PROVE  w \o <<>> = w
  OBVIOUS

\* What a drop turned into a donor leaves behind.
Donated(s, e, a, r) ==
  LET off == r.tok # NullToken
  IN /\ Good(r.s, e, <<>>, {}, {r.tok.a} \ {Empty}, IF off THEN 1 ELSE 0, r.tok.bytes)
     /\ Thins(s, r.s) /\ r.s.reserved = s.reserved \cup ({r.tok.a} \ {Empty})
     /\ off => /\ r.tok.a \in Addresses
               /\ TokenOk(r.tok, r.s, s.cells[a].node.con, StaticClasses(s.cells[a].node.fs))

\* A donor that leaves no token.
LEMMA NullDonated ==
  ASSUME NEW s, NEW e, NEW a, NEW s2, Good(s2, e, <<>>, {}, {}, 0, 0), Thins(s, s2),
         s2.reserved = s.reserved, NEW r, r = [tok |-> NullToken, s |-> s2]
  PROVE  Donated(s, e, a, r)
<1>1. r.tok = NullToken /\ r.s = s2 /\ r.tok.a = Empty /\ r.tok.bytes = 0
  BY DEF NullToken
<1>2. {r.tok.a} \ {Empty} = {}
  BY <1>1
<1>3. QED
  BY <1>1, <1>2 DEF Donated

\* dropReuse: a shared cell loses a reference, a unique one its fields, and its
\* shell is held back.
LEMMA DropReuseGood ==
  ASSUME NEW a \in Anything, NEW s, NEW e, s.err = "none", Good(s, e, <<a>>, {}, {}, 0, 0),
         a \in DOMAIN s.cells => s.cells[a].node.con \in Constructors
  PROVE  Donated(s, e, a, DropReuse(a, s))
<1> DEFINE r == DropReuse(a, s)
           d == DropHead(a, <<>>, s)
<1>0. Shape(s) /\ PoolOk(s, {}) /\ FramesOk(s) /\ Holding(e, <<a>>, {}, s)
  BY DEF Good
<1>1. <<>> \in Seq(Anything) /\ <<a>> \in Seq(Anything) /\ <<a>> \o <<>> = <<a>>
  <2>1. <<>> \in Seq(Anything) /\ <<a>> \in Seq(Anything)
    OBVIOUS
  <2>2. QED
    BY <2>1, JoinNone
<1>2. Good(s, e, <<a>> \o <<>>, {}, {}, 0, 0)
  BY <1>1
<1>3. /\ Good(d.s, e, d.work, {}, {}, 0, 0) /\ Shrinks(s, d.s)
  BY <1>1, <1>2, DropHeadGood
<1>4. Thins(s, d.s) /\ d.s.reserved = s.reserved
  BY <1>3, ShrinksThins
<1>5. CASE ~IsCounted(a) \/ IsArena(a, s)
  <2>1. d = [work |-> <<>>, s |-> s] /\ r = [tok |-> NullToken, s |-> s]
    BY <1>5 DEF DropHead, DropReuse
  <2>2. d.work = <<>> /\ d.s = s
    BY <2>1
  <2>3. QED
    BY <1>3, <1>4, <2>1, <2>2, NullDonated
<1>6. CASE ~(~IsCounted(a) \/ IsArena(a, s))
  <2>0. a \in Addresses /\ ~IsArena(a, s)
    BY <1>6, AddressIs
  <2>1. a \in DOMAIN s.cells
    <3>1. 1 \in DOMAIN <<a>> /\ <<a>>[1] = a
      OBVIOUS
    <3>2. Total(s, e, <<a>>, {}, a) # 0
      BY <2>0, <3>1, Referenced
    <3>3. QED
      BY <2>0, <3>2, Referenced
  <2>2. CASE s.cells[a].rc > 1
    <3> DEFINE s2 == SetRc(a, s.cells[a].rc - 1, s)
    <3>1. d = [work |-> <<>>, s |-> s2] /\ r = [tok |-> NullToken, s |-> s2]
      BY <1>6, <2>1, <2>2 DEF DropHead, DropReuse
    <3> HIDE DEF s2
    <3>2. d.work = <<>> /\ d.s = s2
      BY <3>1
    <3>3. QED
      BY <1>3, <1>4, <3>1, <3>2, NullDonated
  <2>3. CASE ~(s.cells[a].rc > 1)
    <3> DEFINE n  == s.cells[a].node
               m  == s.cells[a].bytes
               s1 == Unmap(a, s)
               s2 == DropAll(n.fs, s1)
               s3 == [s2 EXCEPT !.reserved = @ \cup {a}]
               t  == [a |-> a, ar |-> NodeArity(n), elig |-> a[1] = "C" \/ NodeCEligible(n), bytes |-> m]
    <3>1. FieldsOf(a, s) = n.fs /\ n.fs \in Seq(Storables) /\ s.cells[a] \in Cell
      BY <1>0, <2>1, FieldsAre, ShapePlain
    <3>2. r = [tok |-> t, s |-> s3]
      BY <1>6, <2>1, <2>3, <3>1 DEF DropReuse
    <3>3. /\ DOMAIN s1 = StoreFields
          /\ s1.backend = s.backend /\ s1.next = s.next /\ s1.desc = s.desc /\ s1.reserved = s.reserved
          /\ s1.arena = s.arena /\ s1.arenaC = s.arenaC /\ s1.fresh = s.fresh /\ s1.err = s.err
          /\ s1.pool = s.pool /\ s1.stats = s.stats
          /\ s1.cells = Restrict(s.cells, DOMAIN s.cells \ {a})
      <4>1. DOMAIN s = StoreFields
        BY <1>0 DEF Shape
      <4>2. QED
        BY <4>1 DEF Unmap, StoreFields
    <3> HIDE DEF s1
    <3>4. Lost(s, s1, a)
      BY <1>0, <3>3 DEF Lost, SameFrame, Shape
    <3>5. /\ DOMAIN s1.cells = DOMAIN s.cells \ {a} /\ Shrinks(s, s1) /\ Shape(s1)
          /\ \A b : IsArena(b, s1) <=> IsArena(b, s)
      BY <1>0, <2>1, <3>4, LostIs
    <3>6. n.fs \o <<>> = n.fs /\ n.fs \in Seq(Anything)
      <4>1. n.fs \in Seq(Anything)
        BY <3>1 DEF Anything
      <4>2. QED
        BY <4>1, JoinNone
    <3>7. Exact(s1, e, n.fs, {}) /\ Holding(e, n.fs, {}, s1)
      <4>1. Exact(s1, e, n.fs \o <<>>, {}) /\ Holding(e, n.fs \o <<>>, {}, s1)
        BY <1>1, <1>2, <2>0, <2>1, <2>3, <3>4, LostExact
      <4>2. QED
        BY <3>6, <4>1
    <3>8. PoolOk(s1, {a})
      <4>1. PoolOk(s1, {})
        BY <1>0, <2>1, <3>3, <3>4, LostPool
      <4>2. Minted(a, s1) /\ a \notin DOMAIN s1.cells
        BY <1>0, <2>1, <3>3, <3>5 DEF Shape, Minted
      <4>3. \A k \in DOMAIN s1.pool : \A j \in DOMAIN s1.pool[k] : s1.pool[k][j] # a
        BY <1>0, <2>1, <3>3, NotPooled
      <4>4. QED
        BY <4>1, <4>2, <4>3 DEF PoolOk
    <3>9. FramesOk(s1)
      <4>1. \A b \in DOMAIN s.cells : IsArena(b, s) => b \in DOMAIN s1.cells
        BY <2>0, <3>5
      <4>2. QED
        BY <1>0, <3>5, <4>1, ShrinkFrames
    <3>10. Books(s1, 1, m) /\ m \in Nat
      <4>1. Books(s, 0, 0)
        BY DEF Good
      <4>2. Books(s1, 0 + 1, 0 + m) /\ m \in Nat
        BY <1>0, <2>0, <2>1, <3>3, <3>4, <4>1, LostBooks
      <4>3. 0 + 1 = 1 /\ 0 + m = m
        BY <4>2
      <4>4. QED
        BY <4>2, <4>3
    <3>11. Good(s1, e, n.fs, {}, {a}, 1, m)
      BY <3>5, <3>7, <3>8, <3>9, <3>10 DEF Good
    <3>12. Good(s2, e, <<>>, {}, {a}, 1, m) /\ Shrinks(s1, s2)
      BY <3>3, <3>11, DropAllGood
    <3> HIDE DEF s2
    <3>13. Thins(s, s2) /\ s2.reserved = s.reserved
      BY <3>5, <3>12, ShrinksOn, ShrinksThins
    <3>14. /\ DOMAIN s3 = StoreFields
           /\ s3.backend = s2.backend /\ s3.next = s2.next /\ s3.desc = s2.desc
           /\ s3.reserved = s2.reserved \cup {a}
           /\ s3.arena = s2.arena /\ s3.arenaC = s2.arenaC /\ s3.fresh = s2.fresh /\ s3.err = s2.err
           /\ s3.pool = s2.pool /\ s3.stats = s2.stats /\ s3.cells = s2.cells
      <4>1. DOMAIN s2 = StoreFields
        BY <3>12 DEF Good, Shape
      <4>2. QED
        BY <4>1 DEF StoreFields
    <3> HIDE DEF s3
    <3>15. Redescribed(s2, s3)
      BY <3>12, <3>14 DEF Redescribed, Good, Shape
    <3>16. Good(s3, e, <<>>, {}, {a}, 1, m)
      BY <3>12, <3>15, RedescribedGood
    <3>17. Thins(s, s3)
      BY <3>13, <3>14 DEF Thins
    <3>18. r.tok = t /\ r.s = s3 /\ t.a = a /\ t.bytes = m
      BY <3>2
    <3>19. a # Empty /\ {a} \ {Empty} = {a} /\ t # NullToken
      <4>1. a # Empty
        BY <2>0, EmptyIsNo
      <4>2. NullToken.a = Empty
        BY DEF NullToken
      <4>3. QED
        BY <3>18, <4>1, <4>2
    <3>20. a[1] = "C" => s.desc[n.con] = ClassKinds(StaticClasses(n.fs)) /\ s.desc[n.con] # <<>>
      <4>1. ASSUME a[1] = "C"
            PROVE  s.desc[n.con] = ClassKinds(StaticClasses(n.fs)) /\ s.desc[n.con] # <<>>
        <5>1. CellOk(a, s) /\ n.con # "Array"
          BY <1>0, <2>1, StoreAssumption DEF Shape
        <5>2. Encodable(n.fs) /\ s.desc[n.con] = SlotKinds(n.fs) /\ n.fs # <<>>
          BY <4>1, <5>1 DEF CellOk
        <5>3. SlotKinds(n.fs) = ClassKinds(StaticClasses(n.fs))
          BY <3>1, <5>2, KindsAre
        <5>4. DOMAIN SlotKinds(n.fs) = DOMAIN n.fs /\ 1 \in DOMAIN n.fs
          BY <3>1, <5>2, NonEmpty DEF SlotKinds
        <5>5. SlotKinds(n.fs) # <<>>
          BY <5>4
        <5>6. QED
          BY <5>2, <5>3, <5>5
      <4>2. QED
        BY <4>1
    <3>21. TokenOk(t, s3, n.con, StaticClasses(n.fs))
      <4>1. a[1] = "C" => t.elig = TRUE
        OBVIOUS
      <4>2. a[1] = "C" => s3.desc[n.con] = s.desc[n.con]
        BY <2>1, <3>17, <3>20 DEF Thins
      <4>3. QED
        BY <2>0, <3>10, <3>18, <3>20, <4>1, <4>2 DEF TokenOk
    <3>22. s3.reserved = s.reserved \cup {a}
      BY <3>13, <3>14
    <3>23. QED
      BY <2>0, <3>16, <3>17, <3>18, <3>19, <3>21, <3>22 DEF Donated
  <2>4. QED
    BY <2>2, <2>3
<1>7. QED
  BY <1>5, <1>6

-----------------------------------------------------------------------------
(* The uncounted arena: open, birth, close.                                *)

\* Frames with an empty one more.
LEMMA OpenFrame ==
  ASSUME NEW V, NEW fr \in Seq(V), {} \in V
  PROVE  LET g == <<{}>> \o fr
         IN /\ g \in Seq(V) /\ Len(g) = Len(fr) + 1 /\ DOMAIN g = 1..(Len(fr) + 1) /\ g[1] = {}
            /\ \A j \in 1..Len(fr) : g[j + 1] = fr[j]
            /\ \A j \in DOMAIN g : j # 1 => j - 1 \in 1..Len(fr) /\ g[j] = fr[j - 1]
            /\ \A a : InFrames(a, g) <=> InFrames(a, fr)
<1> DEFINE g == <<{}>> \o fr
<1>1. <<{}>> \in Seq(V) /\ Len(<<{}>>) = 1 /\ <<{}>>[1] = {}
  OBVIOUS
<1>2. g \in Seq(V) /\ Len(g) = Len(fr) + 1 /\ DOMAIN g = 1..(Len(fr) + 1) /\ g[1] = {} /\ Len(fr) \in Nat
      /\ DOMAIN fr = 1..Len(fr)
  BY <1>1
<1>3. \A j \in 1..Len(fr) : g[j + 1] = fr[j]
  BY <1>1, <1>2
<1>4. ASSUME NEW j \in DOMAIN g, j # 1 PROVE j - 1 \in 1..Len(fr) /\ g[j] = fr[j - 1]
  <2>1. j - 1 \in 1..Len(fr) /\ (j - 1) + 1 = j
    BY <1>2, <1>4
  <2>2. QED
    BY <1>3, <2>1
<1>5. \A j \in 1..Len(fr) : j + 1 \in DOMAIN g
  BY <1>2
<1> HIDE DEF g
<1>6. ASSUME NEW a PROVE InFrames(a, g) <=> InFrames(a, fr)
  BY <1>2, <1>3, <1>4, <1>5 DEF InFrames
<1>7. QED
  BY <1>2, <1>3, <1>4, <1>6 DEF g

\* They keep their shape.
LEMMA OpenHalf ==
  ASSUME NEW s, NEW fr, NEW w, HalfOk(fr, w, s), NEW s2, s2.cells = s.cells
  PROVE  HalfOk(<<{}>> \o fr, w, s2)
<1> DEFINE g == <<{}>> \o fr
           V == SUBSET DOMAIN s.cells
<1>1. fr \in Seq(V) /\ {} \in V
  BY DEF HalfOk
<1>2. /\ g \in Seq(V) /\ g[1] = {} /\ DOMAIN fr = 1..Len(fr)
      /\ \A j \in DOMAIN g : j # 1 => j - 1 \in 1..Len(fr) /\ g[j] = fr[j - 1] /\ j \in Int
  <2>1. Len(fr) \in Nat /\ DOMAIN fr = 1..Len(fr)
    BY <1>1
  <2> HIDE DEF V
  <2>2. g \in Seq(V) /\ DOMAIN g = 1..(Len(fr) + 1) /\ g[1] = {}
        /\ \A j \in DOMAIN g : j # 1 => j - 1 \in 1..Len(fr) /\ g[j] = fr[j - 1]
    BY <1>1, OpenFrame
  <2>3. QED
    BY <2>1, <2>2
<1> HIDE DEF g
<1>3. ASSUME NEW j \in DOMAIN g, NEW a \in g[j] PROVE a[1] = w /\ s2.cells[a].node.con # "Array"
  <2>1. j # 1
    BY <1>2, <1>3
  <2>2. j - 1 \in DOMAIN fr /\ a \in fr[j - 1]
    BY <1>2, <1>3, <2>1
  <2>3. QED
    BY <2>2 DEF HalfOk
<1>4. ASSUME NEW j \in DOMAIN g, NEW h \in DOMAIN g, j # h PROVE g[j] \cap g[h] = {}
  <2>1. CASE j = 1 \/ h = 1
    BY <1>2, <2>1
  <2>2. CASE j # 1 /\ h # 1
    <3>1. j - 1 \in DOMAIN fr /\ h - 1 \in DOMAIN fr /\ j - 1 # h - 1 /\ g[j] = fr[j - 1] /\ g[h] = fr[h - 1]
      BY <1>2, <1>4, <2>2
    <3>2. QED
      BY <3>1 DEF HalfOk
  <2>3. QED
    BY <2>1, <2>2
<1>5. QED
  BY <1>2, <1>3, <1>4 DEF HalfOk, g

\* A scope opened.
Opened(s, t) ==
  /\ t.arena = <<{}>> \o s.arena /\ t.arenaC = <<{}>> \o s.arenaC
  /\ t.cells = s.cells /\ t.desc = s.desc /\ t.err = s.err /\ t.backend = s.backend
  /\ t.reserved = s.reserved

\* arenaOpen.
LEMMA ArenaOpenGood ==
  ASSUME NEW s, NEW e, NEW w, NEW R, NEW nl, NEW nb, Good(s, e, w, {}, R, nl, nb)
  PROVE  Good(ArenaOpen(s), e, w, {}, R, nl, nb) /\ Opened(s, ArenaOpen(s))
<1> DEFINE t == ArenaOpen(s)
<1>1. Shape(s) /\ PoolOk(s, R) /\ FramesOk(s) /\ Holding(e, w, {}, s) /\ Exact(s, e, w, {}) /\ Books(s, nl, nb)
  BY DEF Good
<1>2. /\ DOMAIN t = StoreFields
      /\ t.backend = s.backend /\ t.next = s.next /\ t.desc = s.desc /\ t.reserved = s.reserved
      /\ t.arena = <<{}>> \o s.arena /\ t.arenaC = <<{}>> \o s.arenaC /\ t.fresh = s.fresh /\ t.err = s.err
      /\ t.pool = s.pool /\ t.stats = s.stats /\ t.cells = s.cells
  <2>1. DOMAIN s = StoreFields
    BY <1>1 DEF Shape
  <2>2. QED
    BY <2>1 DEF ArenaOpen, StoreFields
<1> HIDE DEF t
<1>3. ASSUME NEW b PROVE IsArena(b, t) <=> IsArena(b, s)
  <2> DEFINE V == SUBSET DOMAIN s.cells
  <2>1. s.arena \in Seq(V) /\ s.arenaC \in Seq(V) /\ {} \in V
    BY <1>1 DEF FramesOk, HalfOk
  <2> HIDE DEF V
  <2>2. /\ InFrames(b, t.arena) <=> InFrames(b, s.arena)
        /\ InFrames(b, t.arenaC) <=> InFrames(b, s.arenaC)
    BY <1>2, <2>1, OpenFrame
  <2>3. QED
    BY <2>2 DEF IsArena
<1>4. \A b : Minted(b, t) <=> Minted(b, s)
  BY <1>2 DEF Minted
<1>5. Shape(t)
  <2>1. \A b \in DOMAIN s.cells : CellOk(b, s) => CellOk(b, t)
    BY <1>2, <1>3 DEF CellOk
  <2>2. QED
    BY <1>1, <1>2, <1>4, <2>1 DEF Shape
<1>6. PoolOk(t, R)
  BY <1>1, <1>2, <1>4 DEF PoolOk
<1>7. FramesOk(t)
  BY <1>1, <1>2, OpenHalf DEF FramesOk
<1>8. CountedIn(t) = CountedIn(s) /\ ArenaIn(t) = ArenaIn(s)
  BY <1>2, <1>3 DEF CountedIn, ArenaIn
<1>9. Holding(e, w, {}, t)
  BY <1>1, <1>8 DEF Holding
<1>10. Exact(t, e, w, {})
  BY <1>1, <1>2, <1>3 DEF Exact, Total
<1>11. Books(t, nl, nb)
  <2>1. \A D : Bytes(t, D) = Bytes(s, D)
    BY <1>2 DEF Bytes
  <2>2. QED
    BY <1>1, <1>2, <1>8, <2>1 DEF Books
<1>12. Opened(s, t)
  BY <1>2 DEF Opened
<1>13. QED
  BY <1>5, <1>6, <1>7, <1>9, <1>10, <1>11, <1>12 DEF Good, t

\* A cell born in the innermost scope.
InnerBorn(s, t, a) ==
  \/ t.arena = [s.arena EXCEPT ![1] = @ \cup {a}] /\ t.arenaC = s.arenaC
  \/ t.arenaC = [s.arenaC EXCEPT ![1] = @ \cup {a}] /\ t.arena = s.arena /\ s.backend # "abs"

\* What an arena allocation leaves behind.
ArenaMade(s, r, e, n, R, nl, nb) ==
  /\ Good(r.s, e, <<r.a>>, {}, R, nl, nb) /\ r.a \in Addresses
  /\ Gives(s, r.s, r.a, n) /\ Clear(r.s, e, r.a) /\ InnerBorn(s, r.s, r.a)
  /\ r.s.err = s.err /\ r.s.backend = s.backend /\ r.s.reserved = s.reserved
  /\ \A c \in Constructors : s.desc[c] # <<>> => r.s.desc[c] = s.desc[c]

\* A frame with a cell more.
LEMMA GrowFrame ==
  ASSUME NEW fr, 1 \in DOMAIN fr, NEW a, NEW g, g = [fr EXCEPT ![1] = @ \cup {a}], NEW b
  PROVE  InFrames(b, g) <=> (b = a \/ InFrames(b, fr))
<1>1. DOMAIN g = DOMAIN fr /\ g[1] = fr[1] \cup {a} /\ \A j \in DOMAIN fr : j # 1 => g[j] = fr[j]
  OBVIOUS
<1>2. QED
  BY <1>1 DEF InFrames

\* The half a cell is born in keeps its shape,
LEMMA GrowHalf ==
  ASSUME NEW s, NEW fr, NEW w, HalfOk(fr, w, s), 1 \in DOMAIN fr, NEW a, a[1] = w, a \notin DOMAIN s.cells,
         NEW n, n.con # "Array", NEW m, NEW s2, Born(s, s2, a, n, m)
  PROVE  HalfOk([fr EXCEPT ![1] = @ \cup {a}], w, s2)
<1> DEFINE g == [fr EXCEPT ![1] = @ \cup {a}]
<1>1. /\ DOMAIN s2.cells = DOMAIN s.cells \cup {a}
      /\ s2.cells[a].node = n
      /\ \A b \in DOMAIN s.cells : b # a /\ s2.cells[b] = s.cells[b]
  <2>1. /\ DOMAIN s2.cells = DOMAIN s.cells \cup {a}
        /\ s2.cells[a] = [rc |-> 1, node |-> n, bytes |-> m]
        /\ \A b \in DOMAIN s.cells : b # a /\ s2.cells[b] = s.cells[b]
    BY BornCells DEF Born, Extend
  <2>2. QED
    BY <2>1
<1>2. fr \in Seq(SUBSET DOMAIN s.cells)
  BY DEF HalfOk
<1>3. DOMAIN g = DOMAIN fr /\ g[1] = fr[1] \cup {a} /\ \A j \in DOMAIN fr : j # 1 => g[j] = fr[j]
  OBVIOUS
<1>4. g \in Seq(SUBSET DOMAIN s2.cells)
  <2>1. \A j \in DOMAIN fr : g[j] \in SUBSET DOMAIN s2.cells
    BY <1>1, <1>2, <1>3
  <2>2. DOMAIN g = 1..Len(fr) /\ Len(fr) \in Nat
    BY <1>2, <1>3
  <2>3. g = [j \in 1..Len(fr) |-> g[j]]
    BY <2>2
  <2> HIDE DEF g
  <2>4. QED
    BY <1>3, <2>1, <2>2, <2>3
<1> HIDE DEF g
<1>5. \A j \in DOMAIN fr : fr[j] \subseteq DOMAIN s.cells
  BY <1>2
<1>6. ASSUME NEW j \in DOMAIN g, NEW b \in g[j] PROVE b[1] = w /\ s2.cells[b].node.con # "Array"
  <2>1. CASE b = a
    BY <1>1, <2>1
  <2>2. CASE b # a
    <3>1. b \in fr[j] /\ j \in DOMAIN fr
      BY <1>3, <1>6, <2>2
    <3>2. b \in DOMAIN s.cells
      BY <1>5, <3>1
    <3>3. QED
      BY <1>1, <3>1, <3>2 DEF HalfOk
  <2>3. QED
    BY <2>1, <2>2
<1>7. ASSUME NEW j \in DOMAIN g, NEW h \in DOMAIN g, j # h PROVE g[j] \cap g[h] = {}
  <2>1. fr[j] \cap fr[h] = {} /\ a \notin fr[j] /\ a \notin fr[h]
    BY <1>3, <1>5, <1>7 DEF HalfOk
  <2>2. QED
    BY <1>3, <1>7, <2>1
<1>8. QED
  BY <1>4, <1>6, <1>7 DEF HalfOk, g

\* and so does the other.
LEMMA SameHalf ==
  ASSUME NEW s, NEW fr, NEW w, HalfOk(fr, w, s), NEW a, a \notin DOMAIN s.cells,
         NEW n, NEW m, NEW s2, Born(s, s2, a, n, m)
  PROVE  HalfOk(fr, w, s2)
<1>1. /\ DOMAIN s2.cells = DOMAIN s.cells \cup {a}
      /\ \A b \in DOMAIN s.cells : b # a /\ s2.cells[b] = s.cells[b]
  BY DEF Born, Extend
<1>2. fr \in Seq(SUBSET DOMAIN s.cells)
  BY DEF HalfOk
<1>3. fr \in Seq(SUBSET DOMAIN s2.cells)
  BY <1>1, <1>2
<1>4. \A j \in DOMAIN fr : \A b \in fr[j] : b \in DOMAIN s.cells
  BY <1>2
<1>5. QED
  BY <1>1, <1>3, <1>4 DEF HalfOk

\* A birth on the arena's books is an arena allocation.
LEMMA BornArenaMade ==
  ASSUME NEW s, NEW e, NEW n, NEW R, NEW nl, NEW nb, Good(s, e, n.fs, {}, R, nl, nb), n.con # "Array",
         NEW a, NEW m, Place(s, a, n, m), NEW s2, Born(s, s2, a, n, m), ~Minted(a, s),
         s2.pool = s.pool, s2.stats = RecordArena(m, s.stats), s2.reserved = s.reserved,
         1 \in DOMAIN s.arena, 1 \in DOMAIN s.arenaC,
         \/ a[1] = "H" /\ s2.arena = [s.arena EXCEPT ![1] = @ \cup {a}] /\ s2.arenaC = s.arenaC
         \/ /\ a[1] = "C" /\ s2.arenaC = [s.arenaC EXCEPT ![1] = @ \cup {a}] /\ s2.arena = s.arena
            /\ s.backend # "abs",
         NEW r, r.a = a, r.s = s2
  PROVE  ArenaMade(s, r, e, n, R, nl, nb)
<1>1. a \in Addresses /\ a \notin DOMAIN s.cells /\ m \in Nat /\ Shape(s) /\ FramesOk(s) /\ PoolOk(s, R)
      /\ Books(s, nl, nb)
  BY DEF Place, Good
<1>2. ~IsArena(a, s)
  BY <1>1, Unused
<1>3. Shape(s2)
  BY BornShape
<1>4. HalfOk(s.arena, "H", s) /\ HalfOk(s.arenaC, "C", s)
  BY <1>1 DEF FramesOk
<1>5. FramesOk(s2) /\ IsArena(a, s2)
  <2>1. CASE a[1] = "H" /\ s2.arena = [s.arena EXCEPT ![1] = @ \cup {a}] /\ s2.arenaC = s.arenaC
    <3>1. HalfOk(s2.arena, "H", s2)
      BY <1>1, <1>4, <2>1, GrowHalf
    <3>2. HalfOk(s2.arenaC, "C", s2)
      BY <1>1, <1>4, <2>1, SameHalf
    <3>3. InFrames(a, s2.arena)
      BY <2>1, GrowFrame
    <3>4. QED
      BY <3>1, <3>2, <3>3 DEF FramesOk, IsArena
  <2>2. CASE a[1] = "C" /\ s2.arenaC = [s.arenaC EXCEPT ![1] = @ \cup {a}] /\ s2.arena = s.arena
    <3>1. HalfOk(s2.arenaC, "C", s2)
      BY <1>1, <1>4, <2>2, GrowHalf
    <3>2. HalfOk(s2.arena, "H", s2)
      BY <1>1, <1>4, <2>2, SameHalf
    <3>3. InFrames(a, s2.arenaC)
      BY <2>2, GrowFrame
    <3>4. QED
      BY <3>1, <3>2, <3>3 DEF FramesOk, IsArena
  <2>3. QED
    BY <2>1, <2>2
<1>6. PoolOk(s2, R)
  BY <1>1, BornPool
<1>7. Books(s2, nl, nb)
  BY <1>1, <1>2, <1>3, <1>5, BornBooks
<1>8. Good(s2, e, <<a>>, {}, R, nl, nb)
  BY <1>3, <1>5, <1>6, <1>7, BornExact DEF Good
<1>9. Gives(s, s2, a, n) /\ Clear(s2, e, a)
  BY BornGives
<1>10. InnerBorn(s, s2, a)
  BY DEF InnerBorn
<1>11. s2.err = s.err /\ s2.backend = s.backend /\ s2.desc = s.desc
  BY DEF Born
<1>12. QED
  BY <1>1, <1>8, <1>9, <1>10, <1>11 DEF ArenaMade

\* arenaAllocPure, on the IntMap.
LEMMA ArenaAllocPureMade ==
  ASSUME NEW s, NEW e, NEW n, NEW R, NEW nl, NEW nb, Good(s, e, n.fs, {}, R, nl, nb), Fits(n, s),
         n.con # "Array", 1 \in DOMAIN s.arena, 1 \in DOMAIN s.arenaC, NEW m \in Nat
  PROVE  ArenaMade(s, ArenaAllocPure(n, m, s), e, n, R, nl, nb)
<1> DEFINE a  == HAddr(s.next)
           s1 == Put(a, 1, n, m, s)
           s2 == [s1 EXCEPT !.next = @ + 1, !.arena[1] = @ \cup {a}, !.stats = RecordArena(m, @)]
           r  == ArenaAllocPure(n, m, s)
<1>0. Shape(s) /\ DOMAIN s = StoreFields /\ DOMAIN s.stats = StatFields /\ s.next \in Nat /\ s.fresh \in Nat
  BY DEF Good, Shape
<1>1. a \in Addresses /\ ~Minted(a, s) /\ a[1] = "H"
  BY <1>0 DEF Addresses, Minted, HAddr, CAddr
<1>2. a \notin DOMAIN s.cells
  BY <1>0, <1>1 DEF Shape
<1>3. r.a = a /\ r.s = s2
  BY DEF ArenaAllocPure
<1>4. /\ DOMAIN s1 = StoreFields
      /\ s1.backend = s.backend /\ s1.next = s.next /\ s1.desc = s.desc /\ s1.reserved = s.reserved
      /\ s1.arena = s.arena /\ s1.arenaC = s.arenaC /\ s1.fresh = s.fresh /\ s1.err = s.err
      /\ s1.pool = s.pool /\ s1.stats = s.stats
      /\ s1.cells = Extend(s.cells, a, [rc |-> 1, node |-> n, bytes |-> m])
  BY <1>0 DEF Put, StoreFields
<1> HIDE DEF s1, a, r
<1>5. /\ DOMAIN s2 = StoreFields
      /\ s2.backend = s.backend /\ s2.next = s.next + 1 /\ s2.desc = s.desc /\ s2.reserved = s.reserved
      /\ s2.arena = [s.arena EXCEPT ![1] = @ \cup {a}] /\ s2.arenaC = s.arenaC
      /\ s2.fresh = s.fresh /\ s2.err = s.err
      /\ s2.pool = s.pool /\ s2.stats = RecordArena(m, s.stats)
      /\ s2.cells = Extend(s.cells, a, [rc |-> 1, node |-> n, bytes |-> m])
  BY <1>4 DEF StoreFields
<1> HIDE DEF s2
<1>6. DOMAIN s2.stats = StatFields
  BY <1>0, <1>5 DEF RecordArena
<1>7. Minted(a, s2)
  BY <1>0, <1>5 DEF Minted, a
<1>8. Born(s, s2, a, n, m)
  <2>1. \A b : b # a => (IsArena(b, s2) <=> IsArena(b, s))
    BY <1>5, GrowFrame DEF IsArena
  <2>2. s2.next \in Nat /\ s.next <= s2.next /\ s2.fresh \in Nat /\ s.fresh <= s2.fresh
    BY <1>0, <1>5
  <2>3. QED
    BY <1>5, <1>6, <1>7, <2>1, <2>2 DEF Born
<1>9. Place(s, a, n, m)
  BY <1>1, <1>2 DEF Place
<1>10. QED
  BY <1>1, <1>3, <1>5, <1>8, <1>9, BornArenaMade DEF r

\* arenaAllocCEligible, on the C arena.
LEMMA ArenaAllocCMade ==
  ASSUME NEW s, NEW e, NEW n, NEW R, NEW nl, NEW nb, Good(s, e, n.fs, {}, R, nl, nb), Fits(n, s),
         n.con # "Array", 1 \in DOMAIN s.arena, 1 \in DOMAIN s.arenaC, s.backend # "abs",
         Encodable(n.fs), s.desc[n.con] = SlotKinds(n.fs)
  PROVE  ArenaMade(s, ArenaAllocC(n, s), e, n, R, nl, nb)
<1> DEFINE a  == CAddr(s.fresh)
           m  == WouldBeCBytes(n)
           s1 == Put(a, 1, n, m, s)
           s2 == [s1 EXCEPT !.fresh = @ + 1, !.arenaC[1] = @ \cup {a}, !.stats = RecordArena(m, @)]
           r  == ArenaAllocC(n, s)
<1>0. Shape(s) /\ DOMAIN s = StoreFields /\ DOMAIN s.stats = StatFields /\ s.next \in Nat /\ s.fresh \in Nat
      /\ m \in Nat
  BY BytesOf DEF Good, Shape, Fits
<1>1. a \in Addresses /\ ~Minted(a, s) /\ a[1] = "C"
  BY <1>0 DEF Addresses, Minted, HAddr, CAddr
<1>2. a \notin DOMAIN s.cells
  BY <1>0, <1>1 DEF Shape
<1>3. r.a = a /\ r.s = s2
  BY DEF ArenaAllocC
<1>4. /\ DOMAIN s1 = StoreFields
      /\ s1.backend = s.backend /\ s1.next = s.next /\ s1.desc = s.desc /\ s1.reserved = s.reserved
      /\ s1.arena = s.arena /\ s1.arenaC = s.arenaC /\ s1.fresh = s.fresh /\ s1.err = s.err
      /\ s1.pool = s.pool /\ s1.stats = s.stats
      /\ s1.cells = Extend(s.cells, a, [rc |-> 1, node |-> n, bytes |-> m])
  BY <1>0 DEF Put, StoreFields
<1> HIDE DEF s1, a, r, m
<1>5. /\ DOMAIN s2 = StoreFields
      /\ s2.backend = s.backend /\ s2.next = s.next /\ s2.desc = s.desc /\ s2.reserved = s.reserved
      /\ s2.arenaC = [s.arenaC EXCEPT ![1] = @ \cup {a}] /\ s2.arena = s.arena
      /\ s2.fresh = s.fresh + 1 /\ s2.err = s.err
      /\ s2.pool = s.pool /\ s2.stats = RecordArena(m, s.stats)
      /\ s2.cells = Extend(s.cells, a, [rc |-> 1, node |-> n, bytes |-> m])
  BY <1>4 DEF StoreFields
<1> HIDE DEF s2
<1>6. DOMAIN s2.stats = StatFields
  BY <1>0, <1>5 DEF RecordArena
<1>7. Minted(a, s2)
  BY <1>0, <1>5 DEF Minted, a
<1>8. Born(s, s2, a, n, m)
  <2>1. \A b : b # a => (IsArena(b, s2) <=> IsArena(b, s))
    BY <1>5, GrowFrame DEF IsArena
  <2>2. s2.next \in Nat /\ s.next <= s2.next /\ s2.fresh \in Nat /\ s.fresh <= s2.fresh
    BY <1>0, <1>5
  <2>3. QED
    BY <1>5, <1>6, <1>7, <2>1, <2>2 DEF Born
<1>9. Place(s, a, n, m)
  BY <1>0, <1>1, <1>2 DEF Place
<1>10. QED
  BY <1>1, <1>3, <1>5, <1>8, <1>9, BornArenaMade DEF r

\* arenaAlloc, on either heap.
LEMMA ArenaAllocMade ==
  ASSUME NEW s, NEW e, NEW n, NEW R, NEW nl, NEW nb, Good(s, e, n.fs, {}, R, nl, nb), Fits(n, s),
         n.con \in Constructors, s.arena # <<>>, Len(s.arena) = Len(s.arenaC)
  PROVE  ArenaMade(s, ArenaAlloc(n, s), e, n, R, nl, nb)
<1>0. Shape(s) /\ FramesOk(s) /\ n.con # "Array" /\ WouldBeCBytes(n) \in Nat
  BY StoreAssumption, BytesOf DEF Good, Fits
<1>1. 1 \in DOMAIN s.arena /\ 1 \in DOMAIN s.arenaC
  <2> DEFINE V == SUBSET DOMAIN s.cells
  <2>1. s.arena \in Seq(V) /\ s.arenaC \in Seq(V)
    BY <1>0 DEF FramesOk, HalfOk
  <2> HIDE DEF V
  <2>2. 1 \in DOMAIN s.arena
    BY <2>1, NonEmpty
  <2>3. QED
    BY <2>1, <2>2
<1>2. CASE s.backend = "abs" \/ ~NodeCEligible(n)
  <2>1. ArenaAlloc(n, s) = ArenaAllocPure(n, WouldBeCBytes(n), s)
    BY <1>2 DEF ArenaAlloc
  <2>2. QED
    BY <1>0, <1>1, <2>1, ArenaAllocPureMade
<1>3. CASE ~(s.backend = "abs" \/ ~NodeCEligible(n)) /\ ~FitsDesc(n, s)
  <2>1. ArenaAlloc(n, s) = ArenaAllocPure(n, 0, s)
    BY <1>3 DEF ArenaAlloc
  <2>2. QED
    BY <1>0, <1>1, <2>1, ArenaAllocPureMade
<1>4. CASE ~(s.backend = "abs" \/ ~NodeCEligible(n)) /\ FitsDesc(n, s)
  <2> DEFINE s1 == RecordDesc(n, s)
             r  == ArenaAllocC(n, s1)
  <2>1. Redescribed(s, s1) /\ s1.desc[n.con] = SlotKinds(n.fs) /\ s1.reserved = s.reserved
    BY <1>0, <1>4, RecordDescIs
  <2>2. ArenaAlloc(n, s) = r
    BY <1>4 DEF ArenaAlloc
  <2> HIDE DEF s1
  <2>3. Good(s1, e, n.fs, {}, R, nl, nb)
    BY <2>1, RedescribedGood
  <2>4. Fits(n, s1)
    BY <2>1, FitsFrom DEF Redescribed
  <2>5. Encodable(n.fs)
    BY <1>4 DEF NodeCEligible
  <2>6. s1.arena = s.arena /\ s1.arenaC = s.arenaC /\ s1.backend = s.backend /\ s1.cells = s.cells
        /\ s1.err = s.err /\ \A c \in Constructors : s.desc[c] # <<>> => s1.desc[c] = s.desc[c]
    BY <2>1 DEF Redescribed
  <2>7. ArenaMade(s1, r, e, n, R, nl, nb)
    BY <1>0, <1>1, <1>4, <2>1, <2>3, <2>4, <2>5, <2>6, ArenaAllocCMade
  <2> HIDE DEF r
  <2>8. Gives(s, r.s, r.a, n)
    BY <2>6, <2>7 DEF ArenaMade, Gives
  <2>9. InnerBorn(s, r.s, r.a)
    BY <2>6, <2>7 DEF ArenaMade, InnerBorn
  <2>10. QED
    BY <2>1, <2>2, <2>6, <2>7, <2>8, <2>9 DEF ArenaMade
<1>5. QED
  BY <1>2, <1>3, <1>4

(* The children of a frame's cells, on their way.                          *)
LEMMA KidsGood ==
  ASSUME NEW s, NEW e, NEW R, NEW nl, NEW nb, Good(s, e, <<>>, {}, R, nl, nb),
         NEW F, F \subseteq ArenaIn(s)
  PROVE  Good(s, e, KidsOf(F, s), F, R, nl, nb)
<1> DEFINE P    == UNION {{a} \X DOMAIN s.cells[a].node.fs : a \in F}
           es   == SetToSeq(P)
           f    == [p \in P |-> s.cells[p[1]].node.fs[p[2]]]
           kids == KidsOf(F, s)
           n    == Cardinality(P)
<1>0. Shape(s) /\ Plain(s.cells) /\ e \in [Slots -> Anything] /\ F \subseteq DOMAIN s.cells
  BY ShapePlain DEF Good, Holding, ArenaIn
<1>1. \A p : p \in P <=> \E a \in F : \E j \in DOMAIN s.cells[a].node.fs : p = <<a, j>>
  OBVIOUS
<1>2. IsFiniteSet(P)
  <2>1. IsFiniteSet(Places(s.cells))
    BY <1>0, PlacesFinite
  <2>2. \A p \in P : p \in Places(s.cells)
    BY <1>0, <1>1, PlaceIs
  <2> HIDE DEF P
  <2>3. P \subseteq Places(s.cells)
    BY <2>2
  <2>4. QED
    BY <2>1, <2>3, FS_Subset
<1>3. es \in [1..n -> P] /\ IsInjective(es)
  <2> HIDE DEF P
  <2>1. \E g \in [1..n -> P] : IsInjective(g)
    BY <1>2, Listing
  <2>2. QED
    BY <2>1 DEF SetToSeq
<1>4. ASSUME NEW p \in P
      PROVE  /\ FieldsOf(p[1], s)[p[2]] = f[p] /\ f[p] \in Anything
             /\ p[1] \in F /\ p[2] \in DOMAIN s.cells[p[1]].node.fs /\ p = <<p[1], p[2]>>
  <2>1. PICK a \in F : \E j \in DOMAIN s.cells[a].node.fs : p = <<a, j>>
    BY <1>1
  <2>2. PICK j \in DOMAIN s.cells[a].node.fs : p = <<a, j>>
    BY <2>1
  <2>3. p[1] = a /\ p[2] = j
    BY <2>2
  <2>4. a \in DOMAIN s.cells
    BY <1>0
  <2>5. FieldsOf(a, s) = s.cells[a].node.fs /\ s.cells[a].node.fs \in Seq(Storables)
    BY <1>0, <2>4, FieldsAre, ShapePlain
  <2>6. s.cells[a].node.fs[j] \in Storables
    BY <2>2, <2>5
  <2>7. f[p] = s.cells[a].node.fs[j]
    BY <2>3
  <2>8. QED
    BY <2>2, <2>3, <2>5, <2>6, <2>7 DEF Anything
<1>5. kids = [i \in 1..n |-> f[es[i]]]
  <2>1. kids = [i \in 1..n |-> FieldsOf(es[i][1], s)[es[i][2]]]
    BY DEF KidsOf
  <2>2. \A i \in 1..n : es[i] \in P
    BY <1>3
  <2>3. \A i \in 1..n : FieldsOf(es[i][1], s)[es[i][2]] = f[es[i]]
    BY <1>4, <2>2
  <2> HIDE DEF es, f, P, n, kids
  <2>4. QED
    BY <2>1, <2>3
<1>6. n \in Nat
  BY <1>2, FS_CardinalityType
<1>7. kids \in Seq(Anything)
  <2>1. \A i \in 1..n : f[es[i]] \in Anything
    BY <1>3, <1>4
  <2> HIDE DEF es, f, P, n, kids
  <2>2. QED
    BY <1>5, <1>6, <2>1
<1>8. ASSUME NEW b PROVE Occ(kids, b) = Cardinality({p \in P : f[p] = b})
  <2> HIDE DEF es, f, P, kids
  <2>1. es \in [1..Cardinality(P) -> P] /\ IsInjective(es)
    BY <1>3
  <2> DEFINE K == {p \in P : f[p] = b}
  <2>2. K = {p \in P : f[p] = b} /\ kids = [i \in 1..Cardinality(P) |-> f[es[i]]]
    BY <1>5
  <2>4. Lists(P, f, es, b, kids, K)
    BY <1>2, <2>1, <2>2 DEF Lists
  <2> HIDE DEF K
  <2>3. Occ(kids, b) = Cardinality(K)
    BY <2>4, OccListed
  <2>5. QED
    BY <2>3 DEF K
<1>9. ASSUME NEW b PROVE Edges(s.cells, {}, b) = Edges(s.cells, F, b) + Occ(kids, b)
  <2> DEFINE K == {p \in P : f[p] = b}
             A == At(s.cells, F, b)
             B == At(s.cells, {}, b)
  <2>1. ASSUME NEW p PROVE p \in B <=> p \in A \/ p \in K
    <3>1. p \in A <=> \E k \in DOMAIN s.cells \ F : \E j \in DOMAIN s.cells[k].node.fs :
                        p = <<k, j>> /\ s.cells[k].node.fs[j] = b
      BY <1>0, AtIs
    <3>2. p \in B <=> \E k \in DOMAIN s.cells \ {} : \E j \in DOMAIN s.cells[k].node.fs :
                        p = <<k, j>> /\ s.cells[k].node.fs[j] = b
      BY <1>0, AtIs
    <3>3. p \in K <=> \E k \in F : \E j \in DOMAIN s.cells[k].node.fs :
                        p = <<k, j>> /\ s.cells[k].node.fs[j] = b
      <4>1. ASSUME p \in K
            PROVE  \E k \in F : \E j \in DOMAIN s.cells[k].node.fs :
                        p = <<k, j>> /\ s.cells[k].node.fs[j] = b
        <5>1. p \in P /\ f[p] = b
          BY <4>1
        <5>2. p[1] \in F /\ p[2] \in DOMAIN s.cells[p[1]].node.fs /\ p = <<p[1], p[2]>>
          BY <1>4, <5>1
        <5>3. f[p] = s.cells[p[1]].node.fs[p[2]]
          BY <5>1
        <5>4. QED
          BY <5>1, <5>2, <5>3
      <4>2. ASSUME NEW k \in F, NEW j \in DOMAIN s.cells[k].node.fs,
                   p = <<k, j>>, s.cells[k].node.fs[j] = b
            PROVE  p \in K
        <5>1. p \in P /\ p[1] = k /\ p[2] = j
          BY <1>1, <4>2
        <5>2. f[p] = s.cells[p[1]].node.fs[p[2]]
          BY <5>1
        <5>3. QED
          BY <4>2, <5>1, <5>2
      <4>3. QED
        BY <4>1, <4>2
    <3> HIDE DEF K, A, B, P, f
    <3>4. QED
      BY <1>0, <3>1, <3>2, <3>3
  <2>2. B = A \cup K
    BY <2>1
  <2>3. A \cap K = {}
    <3>1. ASSUME NEW p \in A PROVE p \notin P
      <4>1. p[1] \notin F
        BY <3>1 DEF At
      <4>2. QED
        BY <1>4, <4>1
    <3>2. QED
      BY <3>1
  <2>4. IsFiniteSet(A) /\ IsFiniteSet(K)
    <3>1. IsFiniteSet(A)
      BY <1>0, EdgesType
    <3>2. K \subseteq P
      OBVIOUS
    <3> HIDE DEF P, K
    <3>3. QED
      BY <1>2, <3>1, <3>2, FS_Subset
  <2>5. Cardinality(B) = Cardinality(A) + Cardinality(K)
    <3> HIDE DEF A, B, K
    <3>1. QED
      BY <2>2, <2>3, <2>4, SetCount
  <2>6. QED
    BY <1>8, <2>5 DEF Edges
<1> HIDE DEF kids
<1>10. \A b : /\ Occ(e, b) \in Nat /\ Occ(kids, b) \in Nat /\ Edges(s.cells, F, b) \in Nat
              /\ Edges(s.cells, {}, b) \in Nat /\ Occ(<<>>, b) = 0
  BY <1>0, <1>7, TotalType, OccNone
<1>11. ASSUME NEW b PROVE Total(s, e, kids, F, b) = Total(s, e, <<>>, {}, b)
  <2>1. /\ Total(s, e, kids, F, b) = Occ(e, b) + Occ(kids, b) + Edges(s.cells, F, b)
        /\ Total(s, e, <<>>, {}, b) = Occ(e, b) + Occ(<<>>, b) + Edges(s.cells, {}, b)
    BY DEF Total
  <2>2. QED
    BY <1>9, <1>10, <2>1
<1>12. Exact(s, e, kids, F)
  BY <1>11 DEF Good, Exact
<1>13. Holding(e, kids, F, s)
  BY <1>0, <1>7 DEF Holding
<1>14. QED
  BY <1>12, <1>13 DEF Good, kids

\* What the tail of a list keeps.
LEMMA TailIs ==
  ASSUME NEW V, NEW fr \in Seq(V), fr # <<>>
  PROVE  /\ Tail(fr) \in Seq(V) /\ Head(fr) = fr[1] /\ 1 \in DOMAIN fr
         /\ \A j \in DOMAIN Tail(fr) : j + 1 \in DOMAIN fr /\ Tail(fr)[j] = fr[j + 1] /\ j + 1 # 1 /\ j \in Int
         /\ \A j \in DOMAIN fr : j # 1 => j - 1 \in DOMAIN Tail(fr) /\ Tail(fr)[j - 1] = fr[j]
         /\ Len(Tail(fr)) = Len(fr) - 1
<1>1. Len(fr) \in Nat /\ DOMAIN fr = 1..Len(fr) /\ Tail(fr) \in Seq(V) /\ Len(Tail(fr)) = Len(fr) - 1
      /\ Head(fr) = fr[1] /\ 1 \in DOMAIN fr /\ DOMAIN Tail(fr) = 1..(Len(fr) - 1)
      /\ \A j \in 1..(Len(fr) - 1) : Tail(fr)[j] = fr[j + 1]
  OBVIOUS
<1>2. \A j \in DOMAIN fr : j # 1 => j - 1 \in 1..(Len(fr) - 1) /\ (j - 1) + 1 = j
  BY <1>1
<1>3. QED
  BY <1>1, <1>2

\* Frames without the innermost.
LEMMA PopFrame ==
  ASSUME NEW s, NEW fr, NEW w, HalfOk(fr, w, s), fr # <<>>, NEW a
  PROVE  InFrames(a, Tail(fr)) <=> InFrames(a, fr) /\ a \notin Head(fr)
<1> DEFINE V == SUBSET DOMAIN s.cells
<1>1. fr \in Seq(V) /\ \A j, h \in DOMAIN fr : j # h => fr[j] \cap fr[h] = {}
  BY DEF HalfOk
<1> HIDE DEF V
<1>2. /\ Head(fr) = fr[1] /\ 1 \in DOMAIN fr
      /\ \A j \in DOMAIN Tail(fr) : j + 1 \in DOMAIN fr /\ Tail(fr)[j] = fr[j + 1] /\ j + 1 # 1
      /\ \A j \in DOMAIN fr : j # 1 => j - 1 \in DOMAIN Tail(fr) /\ Tail(fr)[j - 1] = fr[j]
  BY <1>1, TailIs
<1>3. ASSUME InFrames(a, Tail(fr)) PROVE InFrames(a, fr) /\ a \notin Head(fr)
  BY <1>1, <1>2, <1>3 DEF InFrames
<1>4. ASSUME InFrames(a, fr), a \notin Head(fr) PROVE InFrames(a, Tail(fr))
  BY <1>2, <1>4 DEF InFrames
<1>5. QED
  BY <1>3, <1>4

\* A scope's half closed: the cells of F, its frame, are gone.
Unframed(s, t, F) ==
  /\ DOMAIN t = StoreFields /\ t.backend = s.backend /\ t.next = s.next /\ t.desc = s.desc
  /\ t.reserved = s.reserved /\ t.fresh = s.fresh /\ t.err = s.err /\ t.pool = s.pool
  /\ t.cells = Restrict(s.cells, DOMAIN s.cells \ F)
  /\ t.stats = [s.stats EXCEPT !.arena = @ - Bytes(s, F)]
  /\ \/ s.arena # <<>> /\ F = Head(s.arena) /\ t.arena = Tail(s.arena) /\ t.arenaC = s.arenaC
     \/ s.arenaC # <<>> /\ F = Head(s.arenaC) /\ t.arenaC = Tail(s.arenaC) /\ t.arena = s.arena

\* What the close of a half keeps.
LEMMA UnframedIs ==
  ASSUME NEW s, FramesOk(s), NEW t, NEW F, Unframed(s, t, F)
  PROVE  /\ F \subseteq ArenaIn(s) /\ FramesOk(t)
         /\ DOMAIN t.cells = DOMAIN s.cells \ F
         /\ \A a \in DOMAIN t.cells : t.cells[a] = s.cells[a]
         /\ \A a : IsArena(a, t) <=> IsArena(a, s) /\ a \notin F
<1>1. HalfOk(s.arena, "H", s) /\ HalfOk(s.arenaC, "C", s)
  BY DEF FramesOk
<1>2. DOMAIN t.cells = DOMAIN s.cells \ F /\ \A a \in DOMAIN t.cells : t.cells[a] = s.cells[a]
  BY DEF Unframed, Restrict
<1>3. ASSUME NEW fr, NEW w, HalfOk(fr, w, s), fr # <<>>
      PROVE  /\ \A a \in Head(fr) : a \in DOMAIN s.cells /\ a[1] = w /\ InFrames(a, fr)
             /\ Head(fr) = F => HalfOk(Tail(fr), w, t)
  <2> DEFINE V == SUBSET DOMAIN s.cells
  <2>1. fr \in Seq(V)
    BY <1>3 DEF HalfOk
  <2>2. /\ Tail(fr) \in Seq(V) /\ Head(fr) = fr[1] /\ 1 \in DOMAIN fr
        /\ \A j \in DOMAIN Tail(fr) : j + 1 \in DOMAIN fr /\ Tail(fr)[j] = fr[j + 1] /\ j + 1 # 1 /\ j \in Int
    <3> HIDE DEF V
    <3>1. QED
      BY <1>3, <2>1, TailIs
  <2>3. \A a \in Head(fr) : a \in DOMAIN s.cells /\ a[1] = w /\ InFrames(a, fr)
    BY <1>3, <2>1, <2>2 DEF HalfOk, InFrames
  <2>4. ASSUME Head(fr) = F PROVE HalfOk(Tail(fr), w, t)
    <3>1. ASSUME NEW j \in DOMAIN Tail(fr), NEW a \in Tail(fr)[j]
          PROVE  a \in DOMAIN t.cells /\ a[1] = w /\ t.cells[a].node.con # "Array"
      <4>1. a \in fr[j + 1] /\ j + 1 \in DOMAIN fr /\ a \notin fr[1] /\ a \in DOMAIN s.cells
        BY <1>3, <2>1, <2>2, <3>1 DEF HalfOk
      <4>2. a \in DOMAIN t.cells
        BY <1>2, <2>2, <2>4, <4>1
      <4>3. QED
        BY <1>2, <1>3, <4>1, <4>2 DEF HalfOk
    <3>2. Tail(fr) \in Seq(SUBSET DOMAIN t.cells)
      <4>1. \A j \in DOMAIN Tail(fr) : Tail(fr)[j] \in SUBSET DOMAIN t.cells
        <5>1. \A j \in DOMAIN Tail(fr) : Tail(fr)[j] \subseteq DOMAIN t.cells
          BY <3>1
        <5>2. QED
          BY <5>1
      <4> DEFINE T == SUBSET DOMAIN t.cells
      <4>2. \A j \in DOMAIN Tail(fr) : Tail(fr)[j] \in T
        BY <4>1
      <4> HIDE DEF V, T
      <4>3. ASSUME NEW g, g = Tail(fr) PROVE g \in Seq(T)
        <5>1. g \in Seq(V) /\ \A j \in DOMAIN g : g[j] \in T
          BY <2>2, <4>2, <4>3
        <5>2. Len(g) \in Nat /\ DOMAIN g = 1..Len(g) /\ g = [j \in 1..Len(g) |-> g[j]]
          BY <5>1
        <5>3. \A j \in 1..Len(g) : g[j] \in T
          BY <5>1, <5>2
        <5>4. QED
          BY <5>2, <5>3
      <4>4. QED
        BY <4>3 DEF T
    <3>3. ASSUME NEW j \in DOMAIN Tail(fr), NEW h \in DOMAIN Tail(fr), j # h
          PROVE  Tail(fr)[j] \cap Tail(fr)[h] = {}
      <4>1. j + 1 \in DOMAIN fr /\ h + 1 \in DOMAIN fr /\ j + 1 # h + 1
            /\ Tail(fr)[j] = fr[j + 1] /\ Tail(fr)[h] = fr[h + 1]
        BY <2>2, <3>3
      <4>2. QED
        BY <1>3, <4>1 DEF HalfOk
    <3>4. QED
      BY <3>1, <3>2, <3>3 DEF HalfOk
  <2>5. QED
    BY <2>3, <2>4
<1>4. ASSUME NEW fr, NEW w, HalfOk(fr, w, s), NEW v, v # w, \A a \in F : a[1] = v
      PROVE  HalfOk(fr, w, t) /\ \A a : InFrames(a, fr) => a \notin F
  <2>1. fr \in Seq(SUBSET DOMAIN s.cells)
    BY <1>4 DEF HalfOk
  <2>2. \A j \in DOMAIN fr : \A a \in fr[j] : a \in DOMAIN s.cells /\ a[1] = w /\ s.cells[a].node.con # "Array"
    BY <1>4, <2>1 DEF HalfOk
  <2>3. \A j \in DOMAIN fr : \A a \in fr[j] : a \in DOMAIN t.cells /\ a \notin F
    BY <1>2, <1>4, <2>2
  <2>4. fr \in Seq(SUBSET DOMAIN t.cells)
    <3>1. \A j \in 1..Len(fr) : fr[j] \in SUBSET DOMAIN t.cells
      BY <2>1, <2>3
    <3>2. QED
      BY <2>1, <3>1
  <2>5. HalfOk(fr, w, t)
    BY <1>2, <1>4, <2>2, <2>3, <2>4 DEF HalfOk
  <2>6. \A a : InFrames(a, fr) => a \notin F
    BY <2>3 DEF InFrames
  <2>7. QED
    BY <2>5, <2>6
<1>5. CASE s.arena # <<>> /\ F = Head(s.arena) /\ t.arena = Tail(s.arena) /\ t.arenaC = s.arenaC
  <2>1. /\ \A a \in F : a \in DOMAIN s.cells /\ a[1] = "H" /\ InFrames(a, s.arena)
        /\ HalfOk(t.arena, "H", t)
    BY <1>1, <1>3, <1>5
  <2>2. HalfOk(t.arenaC, "C", t) /\ \A a : InFrames(a, s.arenaC) => a \notin F
    BY <1>1, <1>4, <1>5, <2>1
  <2>3. \A a : InFrames(a, t.arena) <=> InFrames(a, s.arena) /\ a \notin F
    BY <1>1, <1>5, PopFrame
  <2>4. QED
    BY <1>2, <1>5, <2>1, <2>2, <2>3 DEF FramesOk, ArenaIn, IsArena
<1>6. CASE s.arenaC # <<>> /\ F = Head(s.arenaC) /\ t.arenaC = Tail(s.arenaC) /\ t.arena = s.arena
  <2>1. /\ \A a \in F : a \in DOMAIN s.cells /\ a[1] = "C" /\ InFrames(a, s.arenaC)
        /\ HalfOk(t.arenaC, "C", t)
    BY <1>1, <1>3, <1>6
  <2>2. HalfOk(t.arena, "H", t) /\ \A a : InFrames(a, s.arena) => a \notin F
    BY <1>1, <1>4, <1>6, <2>1
  <2>3. \A a : InFrames(a, t.arenaC) <=> InFrames(a, s.arenaC) /\ a \notin F
    BY <1>1, <1>6, PopFrame
  <2>4. QED
    BY <1>2, <1>6, <2>1, <2>2, <2>3 DEF FramesOk, ArenaIn, IsArena
<1>7. QED
  BY <1>5, <1>6 DEF Unframed

(* Bytes of a set of cells, a part of it aside.                            *)
LEMMA BytesSplit ==
  ASSUME NEW s, Shape(s), NEW D, D \subseteq DOMAIN s.cells, NEW F, F \subseteq D
  PROVE  Bytes(s, D) = Bytes(s, F) + Bytes(s, D \ F) /\ Bytes(s, F) \in Nat /\ Bytes(s, D \ F) \in Nat
<1> DEFINE f == [a \in D |-> s.cells[a].bytes]
           g == [a \in F |-> s.cells[a].bytes]
           h == [a \in D \ F |-> s.cells[a].bytes]
<1>1. IsFiniteSet(D) /\ \A a \in D : s.cells[a].bytes \in Nat
  <2>1. IsFiniteSet(DOMAIN s.cells) /\ \A a \in DOMAIN s.cells : s.cells[a].bytes \in Nat
    BY InFinite DEF Shape
  <2>2. QED
    BY <2>1, FS_Subset
<1>2. IsFiniteSet(F) /\ IsFiniteSet(D \ F)
  <2>1. F \in SUBSET D /\ D \ F \in SUBSET D
    OBVIOUS
  <2>2. QED
    BY <1>1, <2>1, FS_Subset
<1>3. /\ DOMAIN f = D /\ DOMAIN g = F /\ DOMAIN h = D \ F
      /\ \A a \in D : f[a] \in Nat
      /\ \A a \in F : f[a] = g[a]
      /\ \A a \in D \ F : f[a] = h[a]
  BY <1>1
<1>4. Bytes(s, D) = SumFunction(f) /\ Bytes(s, F) = SumFunction(g) /\ Bytes(s, D \ F) = SumFunction(h)
  BY DEF Bytes
<1> HIDE DEF f, g, h
<1>5. /\ SumFunctionOnSet(f, D) = SumFunctionOnSet(f, F) + SumFunctionOnSet(f, D \ F)
      /\ SumFunctionOnSet(f, F) \in Nat /\ SumFunctionOnSet(f, D \ F) \in Nat
  BY <1>1, <1>3, SumSplit
<1>6. SumFunctionOnSet(f, F) = SumFunctionOnSet(g, F)
  BY <1>2, <1>3, SumSame
<1>7. SumFunctionOnSet(f, D \ F) = SumFunctionOnSet(h, D \ F)
  BY <1>2, <1>3, SumSame
<1>8. QED
  BY <1>3, <1>4, <1>5, <1>6, <1>7 DEF SumFunction

(* A slot may forget a value that is not counted, or trade it.             *)
LEMMA Forget ==
  ASSUME NEW s, NEW e, NEW w, NEW X, NEW R, NEW nl, NEW nb, Good(s, e, w, X, R, nl, nb),
         NEW e2 \in [Slots -> Anything],
         \A x \in Slots : e2[x] = e[x]
                            \/ ((e[x] \in Addresses => IsArena(e[x], s)) /\ (e2[x] \in Addresses => IsArena(e2[x], s)))
  PROVE  Good(s, e2, w, X, R, nl, nb)
<1>1. Exact(s, e, w, X) /\ Holding(e, w, X, s)
  BY DEF Good
<1>2. ASSUME NEW a \in Addresses, ~IsArena(a, s) PROVE Total(s, e2, w, X, a) = Total(s, e, w, X, a)
  <2>1. DOMAIN e2 = DOMAIN e /\ \A x \in DOMAIN e2 : e2[x] = a <=> e[x] = a
    BY <1>1, <1>2 DEF Holding
  <2>2. Occ(e2, a) = Occ(e, a)
    BY <2>1, OccEqual
  <2>3. QED
    BY <2>2 DEF Total
<1>3. Exact(s, e2, w, X) /\ Holding(e2, w, X, s)
  BY <1>1, <1>2 DEF Exact, Holding
<1>4. QED
  BY <1>3 DEF Good

\* The counts after a half closed.
LEMMA CloseExact ==
  ASSUME NEW s, NEW e, NEW R, NEW nl, NEW nb, NEW F, Good(s, e, <<>>, F, R, nl, nb),
         NEW t, Unframed(s, t, F), Shape(t), \A x \in Slots : e[x] \notin F
  PROVE  Exact(t, e, <<>>, {})
<1>0. Shape(s) /\ FramesOk(s) /\ Exact(s, e, <<>>, F) /\ e \in [Slots -> Anything]
  BY DEF Good, Holding
<1>1. /\ F \subseteq ArenaIn(s)
      /\ DOMAIN t.cells = DOMAIN s.cells \ F
      /\ \A a \in DOMAIN t.cells : t.cells[a] = s.cells[a]
      /\ \A a : IsArena(a, t) <=> IsArena(a, s) /\ a \notin F
  BY <1>0, UnframedIs
<1>2. Plain(s.cells) /\ Plain(t.cells)
  BY <1>0, ShapePlain
<1>3. ASSUME NEW a \in Addresses, ~IsArena(a, t)
      PROVE  Total(t, e, <<>>, {}, a) = IF a \in DOMAIN t.cells THEN t.cells[a].rc ELSE 0
  <2>1. CASE a \in F
    <3>1. \A x \in DOMAIN e : e[x] # a
      BY <1>0, <2>1
    <3>2. Occ(e, a) = 0
      <4>1. IsFiniteSet(DOMAIN e)
        BY <1>0, ParityAssumption
      <4>2. QED
        BY <3>1, <4>1, OccType
    <3>3. ASSUME NEW k \in DOMAIN t.cells \ {}, NEW j \in DOMAIN t.cells[k].node.fs
          PROVE  t.cells[k].node.fs[j] # a
      <4>1. CellOk(k, s) /\ t.cells[k] = s.cells[k]
        BY <1>0, <1>1 DEF Shape
      <4>2. ~IsArena(s.cells[k].node.fs[j], s)
        BY <4>1 DEF CellOk
      <4>3. IsArena(a, s)
        BY <1>1, <2>1 DEF ArenaIn
      <4>4. QED
        BY <4>1, <4>2, <4>3
    <3>4. Edges(t.cells, {}, a) = 0
      BY <1>2, <3>3, EdgesType
    <3>5. a \notin DOMAIN t.cells
      BY <1>1, <2>1
    <3>6. QED
      BY <3>2, <3>4, <3>5, OccNone DEF Total
  <2>2. CASE a \notin F
    <3>1. ~IsArena(a, s)
      BY <1>1, <1>3, <2>2
    <3>2. Total(s, e, <<>>, F, a) = IF a \in DOMAIN s.cells THEN s.cells[a].rc ELSE 0
      BY <1>0, <3>1 DEF Exact
    <3>3. Edges(t.cells, F, a) = Edges(s.cells, F, a)
      <4>1. DOMAIN s.cells \ F = DOMAIN t.cells \ F /\ \A k \in DOMAIN s.cells \ F : t.cells[k].node = s.cells[k].node
        BY <1>1
      <4>2. QED
        BY <1>2, <4>1, EdgesSame
    <3>4. Edges(t.cells, {}, a) = Edges(t.cells, F, a)
      <4>1. \A p : p \in At(t.cells, {}, a) <=> p \in At(t.cells, F, a)
        <5>1. DOMAIN t.cells \ F = DOMAIN t.cells \ {}
          BY <1>1
        <5>2. QED
          BY <1>2, <5>1, AtIs
      <4>2. At(t.cells, {}, a) = At(t.cells, F, a)
        BY <4>1
      <4>3. QED
        BY <4>2 DEF Edges
    <3>5. a \in DOMAIN t.cells <=> a \in DOMAIN s.cells
      BY <1>1, <2>2
    <3>6. QED
      BY <1>1, <3>2, <3>3, <3>4, <3>5 DEF Total
  <2>3. QED
    BY <2>1, <2>2
<1>4. QED
  BY <1>3 DEF Exact

(* The scope's own cells go, and nothing held them.                        *)
LEMMA CloseGood ==
  ASSUME NEW s, NEW e, NEW R, NEW nl, NEW nb, NEW F, Good(s, e, <<>>, F, R, nl, nb),
         NEW t, Unframed(s, t, F), \A x \in Slots : e[x] \notin F
  PROVE  Good(t, e, <<>>, {}, R, nl, nb)
<1>0. Shape(s) /\ FramesOk(s) /\ PoolOk(s, R) /\ Holding(e, <<>>, F, s) /\ Books(s, nl, nb)
  BY DEF Good
<1>1. /\ F \subseteq ArenaIn(s) /\ FramesOk(t)
      /\ DOMAIN t.cells = DOMAIN s.cells \ F
      /\ \A a \in DOMAIN t.cells : t.cells[a] = s.cells[a]
      /\ \A a : IsArena(a, t) <=> IsArena(a, s) /\ a \notin F
  BY <1>0, UnframedIs
<1>2. \A a : Minted(a, t) <=> Minted(a, s)
  BY DEF Unframed, Minted
<1>3. Shape(t)
  <2>1. DOMAIN s.stats = StatFields /\ DOMAIN t.stats = DOMAIN s.stats
    BY <1>0 DEF Shape, Unframed
  <2>2. ASSUME NEW a \in DOMAIN t.cells PROVE Minted(a, t) /\ CellOk(a, t)
    <3>1. Minted(a, s) /\ CellOk(a, s) /\ t.cells[a] = s.cells[a] /\ t.desc = s.desc
      BY <1>0, <1>1 DEF Shape, Unframed
    <3>2. QED
      BY <1>1, <1>2, <3>1 DEF CellOk
  <2>3. IsFiniteSet(DOMAIN t.cells)
    BY <1>0, <1>1, FS_Subset DEF Shape
  <2>4. QED
    BY <1>0, <2>1, <2>2, <2>3 DEF Shape, Unframed
<1>4. PoolOk(t, R)
  <2>1. t.pool = s.pool
    BY DEF Unframed
  <2>2. QED
    BY <1>0, <1>1, <1>2, <2>1 DEF PoolOk
<1>5. Exact(t, e, <<>>, {}) /\ Holding(e, <<>>, {}, t)
  BY <1>0, <1>3, CloseExact DEF Holding
<1>6. Books(t, nl, nb)
  <2>1. CountedIn(t) = CountedIn(s) /\ ArenaIn(t) = ArenaIn(s) \ F
    BY <1>1 DEF CountedIn, ArenaIn
  <2>2. Bytes(t, CountedIn(s)) = Bytes(s, CountedIn(s)) /\ Bytes(t, ArenaIn(s) \ F) = Bytes(s, ArenaIn(s) \ F)
    <3>1. \A a \in CountedIn(s) : t.cells[a] = s.cells[a]
      BY <1>1 DEF CountedIn, ArenaIn
    <3>2. \A a \in ArenaIn(s) \ F : t.cells[a] = s.cells[a]
      BY <1>1 DEF ArenaIn
    <3>3. QED
      BY <3>1, <3>2, BytesSame
  <2>3. ArenaIn(s) \subseteq DOMAIN s.cells
    BY DEF ArenaIn
  <2>4. Bytes(s, ArenaIn(s)) = Bytes(s, F) + Bytes(s, ArenaIn(s) \ F)
        /\ Bytes(s, F) \in Nat /\ Bytes(s, ArenaIn(s) \ F) \in Nat
    BY <1>0, <1>1, <2>3, BytesSplit
  <2>5. t.stats.live = s.stats.live /\ t.stats.cur = s.stats.cur /\ t.stats.arena = s.stats.arena - Bytes(s, F)
    <3>1. DOMAIN s.stats = StatFields
      BY <1>0 DEF Shape
    <3>2. "live" \in StatFields /\ "cur" \in StatFields /\ "arena" \in StatFields
      BY DEF StatFields
    <3>3. QED
      BY <3>1, <3>2 DEF Unframed
  <2>6. QED
    BY <1>0, <2>1, <2>2, <2>4, <2>5 DEF Books
<1>7. QED
  BY <1>1, <1>3, <1>4, <1>5, <1>6 DEF Good

\* A scope's half closed on top of the drops of what its cells held.
HalfClosed(s, t) ==
  /\ DOMAIN t.cells \subseteq DOMAIN s.cells
  /\ \A u \in DOMAIN t.cells : t.cells[u].node = s.cells[u].node
  /\ t.err = s.err /\ t.backend = s.backend /\ t.reserved = s.reserved /\ t.desc = s.desc

\* The two halves of arenaClose.
ScansH(s, F, t) == s.arena # <<>> /\ F = Head(s.arena) /\ t = [ScanOut(F, s) EXCEPT !.arena = Tail(@)]
ScansC(s, F, t) == s.arenaC # <<>> /\ F = Head(s.arenaC) /\ t = [ScanOut(F, s) EXCEPT !.arenaC = Tail(@)]

\* One half: the children of the frame's cells are dropped, then the cells go.
LEMMA ScanOutGood ==
  ASSUME NEW s, NEW e, NEW R, NEW nl, NEW nb, Good(s, e, <<>>, {}, R, nl, nb), s.err = "none",
         NEW F, NEW t, \A x \in Slots : e[x] \notin F,
         ScansH(s, F, t) \/ ScansC(s, F, t)
  PROVE  /\ Good(t, e, <<>>, {}, R, nl, nb) /\ HalfClosed(s, t)
         /\ ScansH(s, F, t) => t.arena = Tail(s.arena) /\ t.arenaC = s.arenaC
         /\ ScansC(s, F, t) => t.arenaC = Tail(s.arenaC) /\ t.arena = s.arena
<1> DEFINE u == DropAll(KidsOf(F, s), s)
           r == ScanOut(F, s)
<1>0. Shape(s) /\ FramesOk(s)
  BY DEF Good
<1>1. F \subseteq ArenaIn(s)
  <2>1. ASSUME NEW fr, NEW w, HalfOk(fr, w, s), fr # <<>>, NEW a \in Head(fr)
        PROVE  a \in DOMAIN s.cells /\ InFrames(a, fr)
    <3> DEFINE V == SUBSET DOMAIN s.cells
    <3>1. fr \in Seq(V)
      BY <2>1 DEF HalfOk
    <3> HIDE DEF V
    <3>2. Head(fr) = fr[1] /\ 1 \in DOMAIN fr
      BY <2>1, <3>1, TailIs
    <3>3. fr[1] \in V
      BY <3>1, <3>2
    <3>4. QED
      BY <2>1, <3>2, <3>3 DEF InFrames, V
  <2>2. \A a \in F : a \in DOMAIN s.cells /\ IsArena(a, s)
    BY <1>0, <2>1 DEF FramesOk, IsArena, ScansH, ScansC
  <2>3. QED
    BY <2>2 DEF ArenaIn
<1>2. Good(s, e, KidsOf(F, s), F, R, nl, nb)
  BY <1>1, KidsGood
<1>3. Good(u, e, <<>>, F, R, nl, nb) /\ Shrinks(s, u)
  BY <1>2, DropAllGood
<1>4. r = [u EXCEPT !.cells = Restrict(@, DOMAIN @ \ F), !.stats.arena = @ - Bytes(s, F)]
  BY DEF ScanOut, Bytes
<1> HIDE DEF u, r
<1>5. Shape(u) /\ F \subseteq ArenaIn(u)
  BY <1>3 DEF Good, Holding
<1>6. Bytes(s, F) = Bytes(u, F)
  <2>1. \A a \in F : u.cells[a].bytes = s.cells[a].bytes
    BY <1>3, <1>5 DEF Shrinks, SameCells, ArenaIn
  <2>2. [a \in F |-> u.cells[a].bytes] = [a \in F |-> s.cells[a].bytes]
    BY <2>1
  <2>3. QED
    BY <2>2 DEF Bytes
<1>7. SameFrame(s, u) /\ DOMAIN u = StoreFields
  BY <1>3 DEF Shrinks, SameFrame
<1>8. /\ DOMAIN r = StoreFields /\ r.backend = u.backend /\ r.next = u.next /\ r.desc = u.desc
      /\ r.reserved = u.reserved /\ r.fresh = u.fresh /\ r.err = u.err /\ r.pool = u.pool
      /\ r.cells = Restrict(u.cells, DOMAIN u.cells \ F)
      /\ r.stats = [u.stats EXCEPT !.arena = @ - Bytes(u, F)]
      /\ r.arena = u.arena /\ r.arenaC = u.arenaC
  BY <1>4, <1>6, <1>7 DEF StoreFields
<1>9. ASSUME NEW v, v = [r EXCEPT !.arena = Tail(@)] \/ v = [r EXCEPT !.arenaC = Tail(@)]
      PROVE  /\ DOMAIN v = StoreFields /\ v.backend = u.backend /\ v.next = u.next /\ v.desc = u.desc
             /\ v.reserved = u.reserved /\ v.fresh = u.fresh /\ v.err = u.err /\ v.pool = u.pool
             /\ v.cells = Restrict(u.cells, DOMAIN u.cells \ F)
             /\ v.stats = [u.stats EXCEPT !.arena = @ - Bytes(u, F)]
             /\ v = [r EXCEPT !.arena = Tail(@)] => v.arena = Tail(s.arena) /\ v.arenaC = s.arenaC
             /\ v = [r EXCEPT !.arenaC = Tail(@)] => v.arenaC = Tail(s.arenaC) /\ v.arena = s.arena
  <2>1. CASE v = [r EXCEPT !.arena = Tail(@)]
    <3>1. v.arena = Tail(r.arena) /\ v.arenaC = r.arenaC
      BY <1>8, <2>1 DEF StoreFields
    <3>2. v = [r EXCEPT !.arenaC = Tail(@)] => v.arenaC = Tail(r.arenaC) /\ v.arena = r.arena
      BY <1>8 DEF StoreFields
    <3>3. QED
      BY <1>7, <1>8, <2>1, <3>1, <3>2 DEF StoreFields, SameFrame
  <2>2. CASE v = [r EXCEPT !.arenaC = Tail(@)]
    <3>1. v.arenaC = Tail(r.arenaC) /\ v.arena = r.arena
      BY <1>8, <2>2 DEF StoreFields
    <3>2. v = [r EXCEPT !.arena = Tail(@)] => v.arena = Tail(r.arena) /\ v.arenaC = r.arenaC
      BY <1>8 DEF StoreFields
    <3>3. QED
      BY <1>7, <1>8, <2>2, <3>1, <3>2 DEF StoreFields, SameFrame
  <2>3. QED
    BY <1>9, <2>1, <2>2
<1>10. \/ s.arena # <<>> /\ F = Head(s.arena) /\ t = [r EXCEPT !.arena = Tail(@)]
       \/ s.arenaC # <<>> /\ F = Head(s.arenaC) /\ t = [r EXCEPT !.arenaC = Tail(@)]
  BY DEF r, ScansH, ScansC
<1>11. Unframed(u, t, F)
  <2>1. s.arena = u.arena /\ s.arenaC = u.arenaC
    BY <1>7 DEF SameFrame
  <2>2. QED
    BY <1>9, <1>10, <2>1 DEF Unframed
<1>12. Good(t, e, <<>>, {}, R, nl, nb)
  BY <1>3, <1>11, CloseGood
<1>13. HalfClosed(s, t)
  <2>1. DOMAIN t.cells = DOMAIN u.cells \ F /\ \A a \in DOMAIN t.cells : t.cells[a] = u.cells[a]
    <3>1. t.cells = Restrict(u.cells, DOMAIN u.cells \ F)
      BY <1>9, <1>10
    <3>2. QED
      BY <3>1 DEF Restrict
  <2>2. QED
    BY <1>3, <1>7, <1>9, <1>10, <2>1 DEF HalfClosed, Shrinks, SameCells, SameFrame
<1>14. QED
  <2>1. ScansH(s, F, t) => t = [r EXCEPT !.arena = Tail(@)]
    BY DEF r, ScansH
  <2>2. ScansC(s, F, t) => t = [r EXCEPT !.arenaC = Tail(@)]
    BY DEF r, ScansC
  <2>3. QED
    BY <1>9, <1>10, <1>12, <1>13, <2>1, <2>2

\* A scope closed.
Closed(s, t) ==
  HalfClosed(s, t) /\ t.arena = Tail(s.arena) /\ t.arenaC = Tail(s.arenaC)

\* arenaClose: both halves, the innermost frame of each.
LEMMA ArenaCloseGood ==
  ASSUME NEW s, NEW e, NEW R, NEW nl, NEW nb, Good(s, e, <<>>, {}, R, nl, nb), s.err = "none",
         s.arena # <<>>, s.arenaC # <<>>,
         \A x \in Slots : e[x] \notin Head(s.arena) /\ e[x] \notin Head(s.arenaC)
  PROVE  Good(ArenaClose(s), e, <<>>, {}, R, nl, nb) /\ Closed(s, ArenaClose(s))
<1> DEFINE F  == Head(s.arena)
           G  == Head(s.arenaC)
           s1 == [ScanOut(F, s) EXCEPT !.arena = Tail(@)]
           t  == [ScanOut(G, s1) EXCEPT !.arenaC = Tail(@)]
<1>1. ArenaClose(s) = t
  BY DEF ArenaClose
<1>2. Good(s1, e, <<>>, {}, R, nl, nb) /\ HalfClosed(s, s1) /\ s1.arena = Tail(s.arena) /\ s1.arenaC = s.arenaC
  <2>1. ASSUME NEW v, v = s1 PROVE Good(v, e, <<>>, {}, R, nl, nb) /\ HalfClosed(s, v)
                                   /\ v.arena = Tail(s.arena) /\ v.arenaC = s.arenaC
    <3>1. ScansH(s, F, v) /\ \A x \in Slots : e[x] \notin F
      BY <2>1 DEF ScansH
    <3> HIDE DEF F, s1
    <3>2. QED
      BY <3>1, ScanOutGood
  <2>2. QED
    BY <2>1
<1> HIDE DEF s1
<1>3. s1.err = "none" /\ s1.arenaC # <<>> /\ G = Head(s1.arenaC) /\ \A x \in Slots : e[x] \notin G
  BY <1>2 DEF HalfClosed
<1>4. Good(t, e, <<>>, {}, R, nl, nb) /\ HalfClosed(s1, t) /\ t.arenaC = Tail(s1.arenaC) /\ t.arena = s1.arena
  <2>1. ASSUME NEW v, v = t PROVE Good(v, e, <<>>, {}, R, nl, nb) /\ HalfClosed(s1, v)
                                   /\ v.arenaC = Tail(s1.arenaC) /\ v.arena = s1.arena
    <3>1. ScansC(s1, G, v)
      BY <1>3, <2>1 DEF ScansC
    <3> HIDE DEF G, t
    <3>2. QED
      BY <1>2, <1>3, <3>1, ScanOutGood
  <2>2. QED
    BY <2>1
<1> HIDE DEF t
<1>5. Closed(s, t)
  BY <1>2, <1>4 DEF Closed, HalfClosed
<1>6. QED
  BY <1>1, <1>4, <1>5

-----------------------------------------------------------------------------
(* Array.set, in place and by copy.                                        *)

\* The positions of a two-element array.
LEMMA TwoFinite == IsFiniteSet(1..2)
<1>1. 1 \in Int /\ 2 \in Int
  OBVIOUS
<1>2. QED
  BY <1>1, FS_Interval

\* A two-element array with one element written.
LEMMA PairIs ==
  ASSUME NEW V, NEW fs \in Seq(V), Len(fs) = 2, NEW i \in 1..2, NEW v \in V
  PROVE  LET new == [fs EXCEPT ![i] = v]
         IN /\ 3 - i \in 1..2 /\ 3 - i # i /\ i \in DOMAIN fs /\ DOMAIN fs = 1..2 /\ fs = <<fs[1], fs[2]>>
            /\ fs[1] \in V /\ fs[2] \in V /\ fs[i] \in V /\ fs[3 - i] \in V
            /\ new \in Seq(V) /\ Len(new) = 2 /\ DOMAIN new = 1..2 /\ new[i] = v /\ new[3 - i] = fs[3 - i]
            /\ \A j \in 1..2 : j = i \/ j = 3 - i
<1>1. DOMAIN fs = 1..2 /\ fs[1] \in V /\ fs[2] \in V /\ fs[i] \in V /\ fs[3 - i] \in V
  OBVIOUS
<1>2. 3 - i \in 1..2 /\ 3 - i # i /\ i \in DOMAIN fs /\ \A j \in 1..2 : j = i \/ j = 3 - i
  BY <1>1
<1>3. fs = <<fs[1], fs[2]>>
  OBVIOUS
<1> DEFINE new == [fs EXCEPT ![i] = v]
<1>4. new \in Seq(V) /\ Len(new) = 2 /\ DOMAIN new = 1..2 /\ new[i] = v /\ new[3 - i] = fs[3 - i]
  <2>1. DOMAIN new = DOMAIN fs
    OBVIOUS
  <2>2. ASSUME NEW j \in DOMAIN fs PROVE new[j] = IF j = i THEN v ELSE fs[j]
    OBVIOUS
  <2>3. new = [j \in DOMAIN fs |-> new[j]]
    OBVIOUS
  <2> HIDE DEF new
  <2>4. new[i] = v /\ new[3 - i] = fs[3 - i] /\ \A j \in 1..2 : new[j] \in V
    BY <1>1, <1>2, <2>2
  <2>5. new \in Seq(V)
    BY <1>1, <2>3, <2>4
  <2>6. Len(new) = 2
    BY <1>1, <2>1, <2>5
  <2>7. QED
    BY <1>1, <2>1, <2>4, <2>5, <2>6
<1>5. QED
  BY <1>1, <1>2, <1>3, <1>4

\* What it holds then.
LEMMA PairOcc ==
  ASSUME NEW fs \in Seq(Storables), Len(fs) = 2, NEW i \in 1..2, NEW v \in Storables, NEW b,
         NEW new, DOMAIN new = 1..2, new[i] = v, new[3 - i] = fs[3 - i]
  PROVE  /\ Occ(new, b) = Occ(fs, b) - (IF fs[i] = b THEN 1 ELSE 0) + (IF v = b THEN 1 ELSE 0)
         /\ Occ(fs, b) = (IF fs[i] = b THEN 1 ELSE 0) + (IF fs[3 - i] = b THEN 1 ELSE 0)
         /\ Occ(fs, b) \in Nat /\ Occ(new, b) \in Nat
<1>1. /\ 3 - i \in 1..2 /\ 3 - i # i /\ i \in DOMAIN fs /\ DOMAIN fs = 1..2 /\ fs = <<fs[1], fs[2]>>
      /\ \A j \in 1..2 : j = i \/ j = 3 - i
  BY PairIs
<1>2. IsFiniteSet(1..2)
  BY TwoFinite
<1>3. IsFiniteSet(DOMAIN fs) /\ IsFiniteSet(DOMAIN new)
  BY <1>1, <1>2
<1>4. Occ(new, b) = Occ(fs, b) - (IF fs[i] = b THEN 1 ELSE 0) + (IF v = b THEN 1 ELSE 0)
  <2>1. i \in DOMAIN fs /\ DOMAIN new = DOMAIN fs /\ \A j \in DOMAIN fs : j # i => new[j] = fs[j]
    BY <1>1
  <2>2. new[i] = v
    BY <1>1
  <2>3. QED
    BY <1>3, <2>1, <2>2, OccOther
<1>5. Occ(<<fs[1], fs[2]>>, b) = Occ(<<fs[1]>>, b) + Occ(<<fs[2]>>, b)
  BY OccTwo
<1>6. Occ(<<fs[1]>>, b) = (IF fs[1] = b THEN 1 ELSE 0) /\ Occ(<<fs[2]>>, b) = (IF fs[2] = b THEN 1 ELSE 0)
  BY OccOne
<1>7. Occ(fs, b) = (IF fs[1] = b THEN 1 ELSE 0) + (IF fs[2] = b THEN 1 ELSE 0)
  BY <1>1, <1>5, <1>6
<1>8. (i = 1 /\ 3 - i = 2) \/ (i = 2 /\ 3 - i = 1)
  OBVIOUS
<1>9. Occ(fs, b) \in Nat /\ Occ(new, b) \in Nat
  BY <1>3, OccType
<1>10. Occ(fs, b) = (IF fs[i] = b THEN 1 ELSE 0) + (IF fs[3 - i] = b THEN 1 ELSE 0)
  <2>1. CASE i = 1
    BY <1>7, <2>1
  <2>2. CASE i = 2
    BY <1>7, <2>2
  <2>3. QED
    BY <1>8, <2>1, <2>2
<1>11. QED
  BY <1>4, <1>9, <1>10

\* One cell's node written in place.
Rewrites(s, t, a, n) ==
  /\ DOMAIN t = StoreFields /\ t.backend = s.backend /\ t.next = s.next /\ t.desc = s.desc
  /\ t.reserved = s.reserved /\ t.arena = s.arena /\ t.arenaC = s.arenaC /\ t.fresh = s.fresh
  /\ t.err = s.err /\ t.pool = s.pool /\ t.stats = s.stats
  /\ DOMAIN t.cells = DOMAIN s.cells
  /\ t.cells[a] = [rc |-> s.cells[a].rc, node |-> n, bytes |-> s.cells[a].bytes]
  /\ \A b \in DOMAIN s.cells : b # a => t.cells[b] = s.cells[b]

\* Writing one element of a cell.
LEMMA RewriteIs ==
  ASSUME NEW s, Shape(s), NEW a \in DOMAIN s.cells, NEW fs
  PROVE  Rewrites(s, [s EXCEPT !.cells[a].node.fs = fs], a, [con |-> s.cells[a].node.con, fs |-> fs])
<1> DEFINE t == [s EXCEPT !.cells[a].node.fs = fs]
           n == [con |-> s.cells[a].node.con, fs |-> fs]
           c == s.cells
           d == [c EXCEPT ![a].node.fs = fs]
<1>1. DOMAIN s = StoreFields /\ c[a] \in Cell
  BY ShapePlain DEF Shape
<1>2. c[a].node \in Nodes /\ c[a] = [rc |-> c[a].rc, node |-> c[a].node, bytes |-> c[a].bytes]
  BY <1>1 DEF Cell
<1>3. c[a].node = [con |-> c[a].node.con, fs |-> c[a].node.fs]
  BY <1>2 DEF Nodes
<1>4. [c[a].node EXCEPT !.fs = fs] = n
  BY <1>3
<1>5. [c[a] EXCEPT !.node.fs = fs] = [rc |-> c[a].rc, node |-> n, bytes |-> c[a].bytes]
  BY <1>2, <1>4
<1>6. t = [s EXCEPT !.cells = d]
  OBVIOUS
<1>7. DOMAIN d = DOMAIN c /\ d[a] = [c[a] EXCEPT !.node.fs = fs] /\ \A b \in DOMAIN c : b # a => d[b] = c[b]
  OBVIOUS
<1> HIDE DEF d, n
<1>8. /\ DOMAIN t = StoreFields /\ t.backend = s.backend /\ t.next = s.next /\ t.desc = s.desc
      /\ t.reserved = s.reserved /\ t.arena = s.arena /\ t.arenaC = s.arenaC /\ t.fresh = s.fresh
      /\ t.err = s.err /\ t.pool = s.pool /\ t.stats = s.stats /\ t.cells = d
  BY <1>1, <1>6 DEF StoreFields
<1> HIDE DEF t
<1>9. Rewrites(s, t, a, n)
  BY <1>5, <1>7, <1>8 DEF Rewrites
<1>10. QED
  BY <1>9 DEF t, n

\* In place, the old element is on its way out and the new one is in.
LEMMA RewriteGood ==
  ASSUME NEW s, NEW e, NEW R, NEW nl, NEW nb, NEW v \in Storables, Good(s, e, <<v>>, {}, R, nl, nb),
         ~IsArena(v, s), NEW a \in DOMAIN s.cells, s.cells[a].node.con = "Array",
         SlotKind(v) = SlotKind(s.cells[a].node.fs[1]), NEW i \in 1..2,
         NEW t, Rewrites(s, t, a, Array([s.cells[a].node.fs EXCEPT ![i] = v]))
  PROVE  Good(t, e, <<s.cells[a].node.fs[i]>>, {}, R, nl, nb) /\ ~IsArena(a, s)
<1> DEFINE fs  == s.cells[a].node.fs
           new == [fs EXCEPT ![i] = v]
<1>0. /\ Shape(s) /\ PoolOk(s, R) /\ FramesOk(s) /\ Holding(e, <<v>>, {}, s) /\ Exact(s, e, <<v>>, {})
      /\ Books(s, nl, nb)
  BY DEF Good
<1>1. CellOk(a, s) /\ fs \in Seq(Storables) /\ s.cells[a] \in Cell
  BY <1>0, ShapePlain DEF Shape
<1>2. Len(fs) = 2 /\ Encodable(fs) /\ SlotKind(fs[1]) = SlotKind(fs[2]) /\ \A j \in DOMAIN fs : ~IsArena(fs[j], s)
  BY <1>1 DEF CellOk
<1>3. /\ 3 - i \in 1..2 /\ 3 - i # i /\ i \in DOMAIN fs /\ DOMAIN fs = 1..2
      /\ fs[i] \in Storables /\ fs[3 - i] \in Storables
      /\ new \in Seq(Storables) /\ Len(new) = 2 /\ DOMAIN new = 1..2 /\ new[i] = v /\ new[3 - i] = fs[3 - i]
      /\ \A j \in 1..2 : j = i \/ j = 3 - i
  BY <1>1, <1>2, PairIs
<1>3a. new # <<>> /\ 1 \in DOMAIN fs /\ 2 \in DOMAIN fs /\ 1 \in 1..2 /\ 2 \in 1..2
  BY <1>3
<1>4. ~IsArena(a, s)
  BY <1>0, ArenaLives
<1>5. /\ DOMAIN t.cells = DOMAIN s.cells
      /\ t.cells[a].node.con = "Array" /\ t.cells[a].node.fs = new
      /\ t.cells[a].rc = s.cells[a].rc /\ t.cells[a].bytes = s.cells[a].bytes
      /\ \A b \in DOMAIN s.cells : b # a => t.cells[b] = s.cells[b]
      /\ t.cells[a] = [rc |-> s.cells[a].rc, node |-> [con |-> "Array", fs |-> new], bytes |-> s.cells[a].bytes]
  <2>1. t.cells[a] = [rc |-> s.cells[a].rc, node |-> [con |-> "Array", fs |-> new], bytes |-> s.cells[a].bytes]
    BY DEF Rewrites, Array
  <2> HIDE DEF new
  <2>2. QED
    BY <2>1 DEF Rewrites
<1>6. \A b : IsArena(b, t) <=> IsArena(b, s)
  BY DEF Rewrites, IsArena
<1>7. \A b : Minted(b, t) <=> Minted(b, s)
  BY DEF Rewrites, Minted
<1>8. t.cells[a] \in Cell
  <2>1. s.cells[a].rc \in Nat /\ s.cells[a].bytes \in Nat
    BY <1>1 DEF Cell
  <2> HIDE DEF new
  <2>2. [con |-> "Array", fs |-> new] \in Nodes
    BY <1>3 DEF Nodes
  <2>3. QED
    BY <1>5, <2>1, <2>2 DEF Cell
<1>9. CellOk(a, t)
  <2>1. SlotKind(fs[1]) # "none" /\ SlotKind(fs[2]) # "none"
    BY <1>2, <1>3 DEF Encodable
  <2>2. \A j \in 1..2 : SlotKind(fs[j]) = SlotKind(v)
    BY <1>2, <1>3
  <2> HIDE DEF fs, new
  <2>3. \A j \in 1..2 : SlotKind(new[j]) = SlotKind(v)
    BY <1>3, <2>2
  <2>4. Encodable(new) /\ SlotKind(new[1]) = SlotKind(new[2])
    BY <1>3, <1>3a, <2>1, <2>2, <2>3 DEF Encodable
  <2>5. \A j \in 1..2 : ~IsArena(new[j], t)
    BY <1>2, <1>3, <1>6
  <2>6. QED
    BY <1>3, <1>3a, <1>5, <1>8, <2>4, <2>5 DEF CellOk
<1>10. Shape(t)
  <2>1. ASSUME NEW b \in DOMAIN t.cells PROVE Minted(b, t) /\ CellOk(b, t)
    <3>1. CASE b = a
      BY <1>0, <1>5, <1>7, <1>9, <3>1 DEF Shape
    <3>2. CASE b # a
      <4>1. CellOk(b, s) /\ Minted(b, s) /\ t.cells[b] = s.cells[b] /\ t.desc = s.desc
        BY <1>0, <1>5, <2>1, <3>2 DEF Shape, Rewrites
      <4>2. QED
        BY <1>6, <1>7, <4>1 DEF CellOk
    <3>3. QED
      BY <3>1, <3>2
  <2>2. QED
    BY <1>0, <1>5, <2>1 DEF Shape, Rewrites
<1>11. PoolOk(t, R)
  BY <1>0, <1>5, <1>7 DEF PoolOk, Rewrites
<1>12. FramesOk(t)
  <2>1. ASSUME NEW fr, NEW w, HalfOk(fr, w, s) PROVE HalfOk(fr, w, t)
    <3>1. fr \in Seq(SUBSET DOMAIN s.cells)
      BY <2>1 DEF HalfOk
    <3>2. ASSUME NEW j \in DOMAIN fr, NEW b \in fr[j] PROVE b[1] = w /\ t.cells[b].node.con # "Array"
      <4>1. b[1] = w /\ s.cells[b].node.con # "Array"
        BY <2>1, <3>2 DEF HalfOk
      <4>2. b \in DOMAIN s.cells
        BY <3>1, <3>2
      <4>3. QED
        BY <1>5, <4>1, <4>2
    <3>3. QED
      BY <1>5, <2>1, <3>1, <3>2 DEF HalfOk
  <2>2. QED
    BY <1>0, <2>1 DEF FramesOk, Rewrites
<1>13. CountedIn(t) = CountedIn(s) /\ ArenaIn(t) = ArenaIn(s)
  BY <1>5, <1>6 DEF CountedIn, ArenaIn
<1>14. Holding(e, <<fs[i]>>, {}, t)
  <2>1. fs[i] \in Anything /\ e \in [Slots -> Anything]
    BY <1>0, <1>3 DEF Anything, Holding
  <2>2. <<fs[i]>> \in Seq(Anything)
    BY <2>1
  <2>3. QED
    BY <2>1, <2>2 DEF Holding
<1>15. Books(t, nl, nb)
  <2>1. \A b \in DOMAIN s.cells : t.cells[b].bytes = s.cells[b].bytes
    BY <1>5
  <2>2. ASSUME NEW D, D \subseteq DOMAIN s.cells PROVE Bytes(t, D) = Bytes(s, D)
    <3>1. [b \in D |-> t.cells[b].bytes] = [b \in D |-> s.cells[b].bytes]
      BY <2>1, <2>2
    <3>2. QED
      BY <3>1 DEF Bytes
  <2>3. CountedIn(s) \subseteq DOMAIN s.cells /\ ArenaIn(s) \subseteq DOMAIN s.cells
    BY DEF CountedIn, ArenaIn
  <2>4. Bytes(t, CountedIn(s)) = Bytes(s, CountedIn(s)) /\ Bytes(t, ArenaIn(s)) = Bytes(s, ArenaIn(s))
    BY <2>2, <2>3
  <2>5. QED
    BY <1>0, <1>13, <2>4 DEF Books, Rewrites
<1>16. Exact(t, e, <<fs[i]>>, {})
  <2>1. ASSUME NEW b \in Addresses, ~IsArena(b, t)
        PROVE  Total(t, e, <<fs[i]>>, {}, b) = IF b \in DOMAIN t.cells THEN t.cells[b].rc ELSE 0
    <3>1. Total(s, e, <<v>>, {}, b) = IF b \in DOMAIN s.cells THEN s.cells[b].rc ELSE 0
      BY <1>0, <1>6, <2>1 DEF Exact
    <3>2. Plain(s.cells) /\ Plain(t.cells)
      BY <1>0, <1>10, ShapePlain
    <3>3. Edges(s.cells, {}, b) = Edges(s.cells, {} \cup {a}, b) + Occ(fs, b)
      BY <3>2, EdgeSplit
    <3>4. Edges(t.cells, {}, b) = Edges(t.cells, {} \cup {a}, b) + Occ(new, b)
      <4>1. a \in DOMAIN t.cells /\ a \notin {} /\ t.cells[a].node.fs = new
        BY <1>5
      <4> HIDE DEF new
      <4>2. QED
        BY <3>2, <4>1, EdgeSplit
    <3>5. Edges(t.cells, {} \cup {a}, b) = Edges(s.cells, {} \cup {a}, b)
      <4> DEFINE X == {} \cup {a}
      <4>1. DOMAIN s.cells \ X = DOMAIN t.cells \ X /\ \A k \in DOMAIN s.cells \ X : t.cells[k].node = s.cells[k].node
        BY <1>5
      <4> HIDE DEF X
      <4>2. Edges(t.cells, X, b) = Edges(s.cells, X, b)
        BY <3>2, <4>1, EdgesSame
      <4>3. QED
        BY <4>2 DEF X
    <3>6. Occ(new, b) = Occ(fs, b) - (IF fs[i] = b THEN 1 ELSE 0) + (IF v = b THEN 1 ELSE 0)
      <4>1. /\ i \in DOMAIN fs /\ DOMAIN new = DOMAIN fs /\ new[i] = v
            /\ \A j \in DOMAIN fs : j # i => new[j] = fs[j]
        BY <1>3
      <4>2. IsFiniteSet(DOMAIN fs)
        BY <1>3, TwoFinite
      <4> HIDE DEF fs, new
      <4>3. QED
        BY <4>1, <4>2, OccOther
    <3>7. Occ(<<v>>, b) = (IF v = b THEN 1 ELSE 0) /\ Occ(<<fs[i]>>, b) = (IF fs[i] = b THEN 1 ELSE 0)
      BY OccOne
    <3>8. Occ(fs, b) \in Nat /\ Occ(new, b) \in Nat
      <4> HIDE DEF new
      <4>1. QED
        BY <1>1, <1>2, <1>3, PairOcc
    <3>9. Edges(t.cells, {} \cup {a}, b) \in Nat /\ Occ(e, b) \in Nat
      <4>1. e \in [Slots -> Anything] /\ <<v>> \in Seq(Anything)
        BY <1>0 DEF Holding
      <4>2. QED
        BY <1>10, <4>1, TotalType
    <3>10. t.cells[b].rc = s.cells[b].rc \/ b \notin DOMAIN s.cells
      BY <1>5
    <3> HIDE DEF fs, new
    <3>11. Total(t, e, <<fs[i]>>, {}, b) = Total(s, e, <<v>>, {}, b)
      BY <3>3, <3>4, <3>5, <3>6, <3>7, <3>8, <3>9 DEF Total
    <3>12. QED
      BY <1>5, <3>1, <3>10, <3>11
  <2>2. QED
    BY <2>1 DEF Exact
<1>17. QED
  BY <1>4, <1>10, <1>11, <1>12, <1>14, <1>15, <1>16 DEF Good

\* An allocation returns an address and a store.
LEMMA AllocRecord ==
  ASSUME NEW n, n.con = "Array", NEW s
  PROVE  "a" \in DOMAIN Alloc(n, s) /\ "s" \in DOMAIN Alloc(n, s)
<1>1. Alloc(n, s) = AllocNArray(n, s)
  BY DEF Alloc
<1>2. CASE s.backend = "abs"
  BY <1>1, <1>2 DEF AllocNArray, AllocPure
<1>3. CASE s.backend # "abs" /\ ~Encodable(n.fs)
  <2>1. Alloc(n, s) = [a |-> Empty, s |-> Fail("non-encodable element in NArray", s)]
    BY <1>1, <1>3, Zenon DEF AllocNArray
  <2>2. QED
    BY <2>1
<1>4. CASE s.backend # "abs" /\ Encodable(n.fs)
  <2>1. Alloc(n, s) = AllocC(n, s)
    BY <1>1, <1>4 DEF AllocNArray
  <2>2. DOMAIN AllocC(n, s) = DOMAIN WokAlloc(n, s)
    BY DEF AllocC
  <2>3. DOMAIN WokAlloc(n, s) = {"a", "s"}
    BY DEF WokAlloc
  <2>4. QED
    BY <2>1, <2>2, <2>3
<1>5. QED
  BY <1>2, <1>3, <1>4

\* Two environments that differ in one slot at most.
Elsewhere(e, e2, x) == e2 \in [Slots -> Anything] /\ \A y \in Slots : y # x => e2[y] = e[y]

\* What the slots hold after one changed.
LEMMA SlotOcc ==
  ASSUME NEW e \in [Slots -> Anything], NEW x \in Slots, NEW e2, Elsewhere(e, e2, x), NEW b
  PROVE  /\ Occ(e2, b) = Occ(e, b) - (IF e[x] = b THEN 1 ELSE 0) + (IF e2[x] = b THEN 1 ELSE 0)
         /\ Occ(e, b) \in Nat /\ Occ(e2, b) \in Nat
<1>1. DOMAIN e = Slots /\ DOMAIN e2 = Slots /\ \A y \in Slots : y # x => e2[y] = e[y]
  BY DEF Elsewhere
<1>2. IsFiniteSet(Slots)
  BY ParityAssumption
<1>3. QED
  BY <1>1, <1>2, OccOther, OccType

\* An array written, at the address r.a.
Written(s, r, e, x, n, R, nl, nb) ==
  /\ r.a \in Addresses /\ Gives(s, r.s, r.a, n) /\ SameArena(s, r.s) /\ ~IsArena(r.a, r.s)
  /\ \A y \in Slots : y # x => e[y] # r.a
  /\ \A k \in DOMAIN r.s.cells : \A j \in DOMAIN r.s.cells[k].node.fs : r.s.cells[k].node.fs[j] # r.a
  /\ \A e2 : Elsewhere(e, e2, x) /\ e2[x] = r.a => Good(r.s, e2, <<>>, {}, R, nl, nb)

(* The only reference to a cell is the slot's.                             *)
LEMMA OnlyOne ==
  ASSUME NEW s, NEW e, NEW R, NEW nl, NEW nb, NEW v \in Storables, Good(s, e, <<v>>, {}, R, nl, nb),
         NEW a \in DOMAIN s.cells, ~IsArena(a, s), a \in Addresses, s.cells[a].rc = 1,
         NEW x \in Slots, e[x] = a
  PROVE  /\ \A y \in Slots : y # x => e[y] # a
         /\ v # a
         /\ \A k \in DOMAIN s.cells : \A j \in DOMAIN s.cells[k].node.fs : s.cells[k].node.fs[j] # a
<1> DEFINE e0 == [y \in Slots |-> IF y = x THEN Empty ELSE e[y]]
<1>1. /\ Shape(s) /\ e \in [Slots -> Anything] /\ <<v>> \in Seq(Anything)
      /\ Total(s, e, <<v>>, {}, a) = 1
  <2>1. Shape(s) /\ Holding(e, <<v>>, {}, s) /\ Exact(s, e, <<v>>, {})
    BY DEF Good
  <2>2. Total(s, e, <<v>>, {}, a) = s.cells[a].rc
    BY <2>1 DEF Exact
  <2>3. QED
    BY <2>1, <2>2 DEF Holding
<1>2. Elsewhere(e, e0, x) /\ e0[x] = Empty /\ Empty # a /\ DOMAIN e0 = Slots
  BY <1>1, EmptyIsNo DEF Elsewhere, Anything
<1>2a. \A y \in Slots : y # x => e0[y] = e[y]
  OBVIOUS
<1> HIDE DEF e0
<1>3. Occ(e0, a) = Occ(e, a) - 1 /\ Occ(e0, a) \in Nat /\ Occ(e, a) \in Nat
  <2>1. Occ(e0, a) = Occ(e, a) - (IF e[x] = a THEN 1 ELSE 0) + (IF e0[x] = a THEN 1 ELSE 0)
        /\ Occ(e, a) \in Nat /\ Occ(e0, a) \in Nat
    BY <1>1, <1>2, SlotOcc
  <2>2. QED
    BY <1>2, <2>1
<1>4. Occ(<<v>>, a) \in Nat /\ Edges(s.cells, {}, a) \in Nat
  BY <1>1, TotalType
<1>5. Occ(e0, a) = 0 /\ Occ(<<v>>, a) = 0 /\ Edges(s.cells, {}, a) = 0
  BY <1>1, <1>3, <1>4 DEF Total
<1>6. \A y \in Slots : e0[y] # a
  <2>1. IsFiniteSet(DOMAIN e0)
    BY <1>2, ParityAssumption
  <2>2. QED
    BY <1>2, <1>5, <2>1, OccType
<1>7. v # a
  BY <1>5, OccOne
<1>8. Plain(s.cells)
  BY <1>1, ShapePlain
<1>9. \A k \in DOMAIN s.cells \ {} : \A j \in DOMAIN s.cells[k].node.fs : s.cells[k].node.fs[j] # a
  BY <1>5, <1>8, EdgesType
<1>10. QED
  BY <1>2a, <1>6, <1>7, <1>9

\* Array.set on a unique array (arraySetSlotInPlace).
LEMMA WriteHere ==
  ASSUME NEW s, NEW e, NEW R, NEW nl, NEW nb, NEW v \in Storables, Good(s, e, <<v>>, {}, R, nl, nb),
         s.err = "none", ~IsArena(v, s), NEW a \in DOMAIN s.cells, s.cells[a].node.con = "Array",
         SlotKind(v) = SlotKind(s.cells[a].node.fs[1]), NEW i \in 1..2,
         NEW x \in Slots, e[x] = a, s.cells[a].rc = 1,
         NEW fs, fs = s.cells[a].node.fs, NEW n, n = Array([fs EXCEPT ![i] = v]),
         NEW s1, Rewrites(s, s1, a, n)
  PROVE  Written(s, [a |-> a, s |-> DropAddr(fs[i], s1)], e, x, n, R, nl, nb)
<1> DEFINE t == DropAddr(fs[i], s1)
           r == [a |-> a, s |-> t]
<1>1. Good(s1, e, <<fs[i]>>, {}, R, nl, nb) /\ ~IsArena(a, s)
  BY RewriteGood
<1>2. s1.err = "none"
  BY DEF Rewrites
<1>3. Good(t, e, <<>>, {}, R, nl, nb) /\ Thins(s1, t) /\ t.reserved = s1.reserved
  BY <1>1, <1>2, DropAddrGood
<1>4. a \in Addresses /\ Shape(s) /\ Shape(t) /\ e \in [Slots -> Anything]
  BY <1>3 DEF Good, Shape, Minted, Addresses, Holding
<1>5. /\ \A y \in Slots : y # x => e[y] # a
      /\ v # a
      /\ \A k \in DOMAIN s.cells : \A j \in DOMAIN s.cells[k].node.fs : s.cells[k].node.fs[j] # a
  BY <1>1, <1>4, OnlyOne
<1> HIDE DEF t
<1>6. /\ t.arena = s.arena /\ t.arenaC = s.arenaC /\ t.err = s.err /\ t.backend = s.backend
      /\ t.reserved = s.reserved /\ DOMAIN t.cells \subseteq DOMAIN s.cells
      /\ s1.cells[a].node = n /\ \A b \in DOMAIN s.cells : b # a => s1.cells[b] = s.cells[b]
      /\ \A c \in Constructors : s.desc[c] # <<>> => t.desc[c] = s.desc[c]
      /\ \A u \in DOMAIN t.cells : t.cells[u].node = s1.cells[u].node
  BY <1>3 DEF Thins, Rewrites
<1>7. ~IsArena(a, t)
  BY <1>1, <1>6 DEF IsArena
<1>8. a \in DOMAIN t.cells
  BY <1>3, <1>4, <1>7, Referenced
<1>9. Gives(s, t, a, n) /\ SameArena(s, t)
  BY <1>6, <1>8 DEF Gives, SameArena
<1>10. ASSUME NEW k \in DOMAIN t.cells, NEW j \in DOMAIN t.cells[k].node.fs PROVE t.cells[k].node.fs[j] # a
  <2>1. CASE k # a
    <3>1. k \in DOMAIN s.cells /\ t.cells[k].node = s.cells[k].node
      BY <1>6, <2>1
    <3>2. QED
      BY <1>5, <3>1
  <2>2. CASE k = a
    <3>1. t.cells[k].node = n
      BY <1>6, <2>2
    <3>2. n.fs = [fs EXCEPT ![i] = v]
      BY DEF Array
    <3>3. j \in DOMAIN fs /\ (n.fs[j] = v \/ n.fs[j] = fs[j])
      BY <3>1, <3>2
    <3>4. fs[j] # a
      BY <1>5, <3>3
    <3>5. QED
      BY <1>5, <3>1, <3>3, <3>4
  <2>3. QED
    BY <2>1, <2>2
<1>11. ASSUME NEW e2, Elsewhere(e, e2, x), e2[x] = a PROVE Good(t, e2, <<>>, {}, R, nl, nb)
  <2>1. e2 \in [Slots -> Anything] /\ \A y \in Slots : e2[y] = e[y]
    BY <1>11 DEF Elsewhere
  <2>2. e2 = e
    BY <1>4, <2>1
  <2>3. QED
    BY <1>3, <2>2
<1>12. r.a = a /\ r.s = t
  OBVIOUS
<1> HIDE DEF r
<1>13. Written(s, r, e, x, n, R, nl, nb)
  BY <1>4, <1>5, <1>7, <1>9, <1>10, <1>11, <1>12 DEF Written
<1>14. QED
  BY <1>13 DEF r, t

\* The drop that ends the copying path.
LEMMA CopyDrop ==
  ASSUME NEW q, NEW e, NEW R, NEW nl, NEW nb, NEW b0 \in Addresses, Good(q, e, <<b0>>, {}, R, nl, nb),
         q.err = "none", ~IsArena(b0, q), NEW a \in Addresses, NEW x \in Slots, e[x] = a,
         NEW e2, Elsewhere(e, e2, x), e2[x] = b0
  PROVE  /\ Good(DropAddr(a, q), e2, <<>>, {}, R, nl, nb) /\ Thins(q, DropAddr(a, q))
         /\ DropAddr(a, q).reserved = q.reserved /\ b0 \in DOMAIN DropAddr(a, q).cells
<1> DEFINE w1 == <<b0>>
           w2 == <<a>>
           t  == DropAddr(a, q)
<1>1. e \in [Slots -> Anything] /\ e2 \in [Slots -> Anything] /\ a \in Anything
  BY DEF Good, Holding, Elsewhere, Anything, Storables
<1>2. w2 \in Seq(Anything)
  BY <1>1
<1>3. ASSUME NEW b \in Addresses PROVE Occ(e2, b) + Occ(w2, b) = Occ(e, b) + Occ(w1, b)
  <2>1. /\ Occ(e2, b) = Occ(e, b) - (IF e[x] = b THEN 1 ELSE 0) + (IF e2[x] = b THEN 1 ELSE 0)
        /\ Occ(e, b) \in Nat /\ Occ(e2, b) \in Nat
    BY <1>1, SlotOcc
  <2>2. Occ(w2, b) = (IF a = b THEN 1 ELSE 0) /\ Occ(w1, b) = (IF b0 = b THEN 1 ELSE 0)
    BY OccOne
  <2>3. QED
    BY <2>1, <2>2
<1>4. Good(q, e, w1, {}, R, nl, nb)
  OBVIOUS
<1> HIDE DEF w1, w2
<1>5. Good(q, e2, w2, {}, R, nl, nb)
  BY <1>1, <1>2, <1>3, <1>4, Rehold
<1>6. Good(t, e2, <<>>, {}, R, nl, nb) /\ Thins(q, t) /\ t.reserved = q.reserved
  BY <1>5, DropAddrGood DEF w2
<1> HIDE DEF t
<1>7. ~IsArena(b0, t)
  BY <1>6 DEF Thins, IsArena
<1>8. b0 \in DOMAIN t.cells
  BY <1>6, <1>7, Referenced
<1>9. QED
  BY <1>6, <1>8 DEF t

\* The copy survives it.
LEMMA CopyAfter ==
  ASSUME NEW s, NEW s1, Recounted(s, s1), NEW q, NEW t, NEW n, NEW b0, NEW e,
         SameArena(s1, q), Gives(s1, q, b0, n), Clear(q, e, b0),
         Thins(q, t), t.reserved = q.reserved, b0 \in DOMAIN t.cells
  PROVE  /\ Gives(s, t, b0, n) /\ SameArena(s, t)
         /\ \A k \in DOMAIN t.cells : \A j \in DOMAIN t.cells[k].node.fs : t.cells[k].node.fs[j] # b0
<1>1. SameArena(s, t)
  BY DEF SameArena, Thins, Recounted, SameFrame
<1>2. \A k \in DOMAIN t.cells : k \in DOMAIN q.cells /\ t.cells[k].node = q.cells[k].node
  BY DEF Thins
<1>3. \A k \in DOMAIN s.cells : k \in DOMAIN s1.cells /\ s1.cells[k].node = s.cells[k].node
  BY DEF Recounted, SameCells
<1>4. DOMAIN s1.cells = DOMAIN s.cells
  BY DEF Recounted
<1>5. Gives(s, t, b0, n)
  BY <1>2, <1>3, <1>4 DEF Gives
<1>6. ASSUME NEW k \in DOMAIN t.cells, NEW j \in DOMAIN t.cells[k].node.fs PROVE t.cells[k].node.fs[j] # b0
  BY <1>2 DEF Clear
<1>7. QED
  BY <1>1, <1>5, <1>6

\* Array.set on a shared array: its other element retained, a new array made,
\* the old one dropped.
Copies(s, a, i, v, fs, n, kept, r) ==
  /\ fs = s.cells[a].node.fs /\ n = Array([fs EXCEPT ![i] = v])
  /\ kept = Alloc(n, Incref(fs[3 - i], s)) /\ r.a = kept.a /\ r.s = DropAddr(a, kept.s)

\* The copying path.
LEMMA WriteCopy ==
  ASSUME NEW s, NEW e, NEW R, NEW nl, NEW nb, NEW v \in Storables, Good(s, e, <<v>>, {}, R, nl, nb),
         s.err = "none", ~IsArena(v, s), NEW a \in DOMAIN s.cells, s.cells[a].node.con = "Array",
         SlotKind(v) = SlotKind(s.cells[a].node.fs[1]), NEW i \in 1..2,
         NEW x \in Slots, e[x] = a,
         NEW fs, NEW n, NEW kept, NEW r, Copies(s, a, i, v, fs, n, kept, r)
  PROVE  Written(s, r, e, x, n, R, nl, nb) /\ kept.s.err = "none"
<1> DEFINE o  == fs[3 - i]
           s1 == Incref(o, s)
           new == [fs EXCEPT ![i] = v]
<1>0. /\ Shape(s) /\ FramesOk(s) /\ e \in [Slots -> Anything] /\ <<v>> \in Seq(Anything)
  BY DEF Good, Holding
<1>1a. fs = s.cells[a].node.fs
  BY DEF Copies
<1>1. CellOk(a, s) /\ fs \in Seq(Storables) /\ s.cells[a] \in Cell
  BY <1>0, <1>1a, ShapePlain DEF Shape
<1>2. /\ Len(fs) = 2 /\ Encodable(fs) /\ SlotKind(fs[1]) = SlotKind(fs[2]) /\ \A j \in DOMAIN fs : ~IsArena(fs[j], s)
      /\ SlotKind(v) = SlotKind(fs[1])
  BY <1>1, <1>1a DEF CellOk
<1>3. /\ 3 - i \in 1..2 /\ 3 - i # i /\ i \in DOMAIN fs /\ DOMAIN fs = 1..2
      /\ fs[i] \in Storables /\ fs[3 - i] \in Storables
      /\ new \in Seq(Storables) /\ Len(new) = 2 /\ DOMAIN new = 1..2 /\ new[i] = v /\ new[3 - i] = fs[3 - i]
      /\ \A j \in 1..2 : j = i \/ j = 3 - i
  BY <1>1, <1>2, PairIs
<1>3a. new # <<>> /\ 1 \in DOMAIN fs /\ 2 \in DOMAIN fs /\ 1 \in 1..2 /\ 2 \in 1..2
  BY <1>3
<1>3b. n = [con |-> "Array", fs |-> new] /\ n.con = "Array" /\ n.fs = new
  <2>1. n = Array([fs EXCEPT ![i] = v])
    BY DEF Copies
  <2>2. n = [con |-> "Array", fs |-> new]
    BY <2>1 DEF Array
  <2>3. QED
    BY <2>2
<1>4. o \in Anything /\ (o \in Addresses /\ ~IsArena(o, s) => o \in DOMAIN s.cells)
  <2>1. o \in Anything
    BY <1>3 DEF Anything
  <2>2. ASSUME o \in Addresses, ~IsArena(o, s) PROVE o \in DOMAIN s.cells
    <3>1. a \in DOMAIN s.cells \ {} /\ 3 - i \in DOMAIN s.cells[a].node.fs
      BY <1>1a, <1>3
    <3>2. o = s.cells[a].node.fs[3 - i]
      BY <1>1a
    <3> HIDE DEF o
    <3>3. QED
      BY <2>2, <3>1, <3>2, Referenced
  <2>3. QED
    BY <2>1, <2>2
<1> HIDE DEF new
<1>5. Good(s1, e, <<o>> \o <<v>>, {}, R, nl, nb) /\ Recounted(s, s1)
  <2> HIDE DEF o
  <2>1. QED
    BY <1>4, IncrefGood
<1>6. ASSUME NEW b PROVE Occ(<<o>> \o <<v>>, b) = Occ(new, b)
  <2>1. Occ(<<o>> \o <<v>>, b) = (IF o = b THEN 1 ELSE 0) + Occ(<<v>>, b)
    BY <1>0, <1>4, OccPush
  <2>2. Occ(<<v>>, b) = IF v = b THEN 1 ELSE 0
    BY OccOne
  <2>3. /\ Occ(new, b) = Occ(fs, b) - (IF fs[i] = b THEN 1 ELSE 0) + (IF v = b THEN 1 ELSE 0)
        /\ Occ(fs, b) = (IF fs[i] = b THEN 1 ELSE 0) + (IF fs[3 - i] = b THEN 1 ELSE 0)
        /\ Occ(fs, b) \in Nat /\ Occ(new, b) \in Nat
    BY <1>1, <1>2, <1>3, PairOcc
  <2>4. QED
    BY <2>1, <2>2, <2>3
<1>7. Good(s1, e, n.fs, {}, R, nl, nb)
  <2>1. n.fs \in Seq(Anything)
    BY <1>3, <1>3b DEF Anything
  <2>2. \A b \in Addresses : Occ(e, b) + Occ(n.fs, b) = Occ(e, b) + Occ(<<o>> \o <<v>>, b)
    BY <1>3b, <1>6
  <2> DEFINE w == <<o>> \o <<v>>
  <2>3. Good(s1, e, w, {}, R, nl, nb) /\ \A b \in Addresses : Occ(e, b) + Occ(n.fs, b) = Occ(e, b) + Occ(w, b)
    BY <1>5, <2>2
  <2> HIDE DEF w, s1
  <2>4. QED
    BY <1>0, <2>1, <2>3, Rehold
<1>8. \A b : IsArena(b, s1) <=> IsArena(b, s)
  BY <1>5 DEF Recounted, SameFrame, IsArena
<1>9. Fits(n, s1)
  <2>1. SlotKind(fs[1]) # "none" /\ SlotKind(fs[2]) # "none"
    BY <1>2, <1>3 DEF Encodable
  <2>2. \A j \in 1..2 : SlotKind(fs[j]) = SlotKind(v)
    BY <1>2, <1>3
  <2>3. \A j \in 1..2 : SlotKind(new[j]) = SlotKind(v)
    BY <1>3, <2>2
  <2>4. Encodable(new) /\ SlotKind(new[1]) = SlotKind(new[2])
    BY <1>3, <1>3a, <2>1, <2>2, <2>3 DEF Encodable
  <2>5. \A j \in 1..2 : ~IsArena(new[j], s1)
    BY <1>2, <1>3, <1>8
  <2>6. n \in Nodes
    BY <1>3, <1>3b DEF Nodes
  <2>7. QED
    BY <1>3, <1>3a, <1>3b, <2>4, <2>5, <2>6 DEF Fits
<1> HIDE DEF s1
<1>10. Made(s1, kept, e, n, R, nl, nb)
  <2>1. Made(s1, Alloc(n, s1), e, n, R, nl, nb)
    BY <1>7, <1>9, AllocMade
  <2>2. QED
    BY <2>1 DEF s1, Copies
<1> DEFINE b0 == kept.a
           t  == DropAddr(a, kept.s)
<1>11. /\ Good(kept.s, e, <<b0>>, {}, R, nl, nb) /\ b0 \in Addresses
       /\ Gives(s1, kept.s, b0, n) /\ Clear(kept.s, e, b0) /\ SameArena(s1, kept.s)
  BY <1>10 DEF Made
<1>12. /\ s1.err = s.err /\ s1.backend = s.backend /\ s1.arena = s.arena /\ s1.arenaC = s.arenaC
       /\ s1.reserved = s.reserved /\ s1.desc = s.desc /\ DOMAIN s1.cells = DOMAIN s.cells
       /\ \A u \in DOMAIN s.cells : s1.cells[u].node = s.cells[u].node
  BY <1>5 DEF Recounted, SameFrame, SameCells
<1>13. kept.s.err = "none" /\ ~IsArena(b0, kept.s)
  <2>1. kept.s.err = "none"
    BY <1>11, <1>12 DEF SameArena
  <2>2. FramesOk(kept.s) /\ kept.s.cells[b0].node.con = "Array"
    BY <1>3b, <1>11 DEF Good, Gives
  <2>3. QED
    BY <2>1, <2>2, ArenaLives
<1>14. a \in Addresses /\ a \in Anything /\ b0 \in Anything
  <2>1. a \in Addresses
    BY <1>0 DEF Shape, Minted, Addresses
  <2>2. QED
    BY <1>11, <2>1 DEF Anything, Storables
<1> HIDE DEF b0
<1>15. ASSUME NEW e2, Elsewhere(e, e2, x), e2[x] = b0
       PROVE  /\ Good(t, e2, <<>>, {}, R, nl, nb) /\ Thins(kept.s, t) /\ t.reserved = kept.s.reserved
              /\ b0 \in DOMAIN t.cells
  BY <1>11, <1>13, <1>14, <1>15, CopyDrop
<1>16. PICK e2 : Elsewhere(e, e2, x) /\ e2[x] = b0
  <2> DEFINE e3 == [y \in Slots |-> IF y = x THEN b0 ELSE e[y]]
  <2>1. e3 \in [Slots -> Anything]
    BY <1>0, <1>14
  <2>2. e3[x] = b0 /\ \A y \in Slots : y # x => e3[y] = e[y]
    OBVIOUS
  <2> HIDE DEF e3
  <2>3. QED
    BY <2>1, <2>2 DEF Elsewhere
<1>17. Thins(kept.s, t) /\ t.reserved = kept.s.reserved /\ b0 \in DOMAIN t.cells
  BY <1>15, <1>16
<1> HIDE DEF t
<1>18a. ~IsArena(b0, t)
  BY <1>13, <1>17 DEF Thins, IsArena
<1>18. /\ Gives(s, t, b0, n) /\ SameArena(s, t)
       /\ \A k \in DOMAIN t.cells : \A j \in DOMAIN t.cells[k].node.fs : t.cells[k].node.fs[j] # b0
  BY <1>5, <1>11, <1>17, CopyAfter
<1>20. \A y \in Slots : e[y] # b0
  BY <1>11 DEF Clear
<1>21. r.a = b0 /\ r.s = t
  BY DEF b0, t, Copies
<1>22. Written(s, r, e, x, n, R, nl, nb)
  BY <1>11, <1>15, <1>18, <1>18a, <1>20, <1>21 DEF Written
<1>23. QED
  BY <1>13, <1>22

(* Array.set.                                                              *)
LEMMA SetElementGood ==
  ASSUME NEW s, NEW e, NEW R, NEW nl, NEW nb, NEW v \in Storables, Good(s, e, <<v>>, {}, R, nl, nb),
         s.err = "none", ~IsArena(v, s), NEW a \in DOMAIN s.cells, s.cells[a].node.con = "Array",
         SlotKind(v) = SlotKind(s.cells[a].node.fs[1]), NEW i \in 1..2,
         NEW x \in Slots, e[x] = a
  PROVE  Written(s, SetElement(a, i, v, s), e, x, Array([s.cells[a].node.fs EXCEPT ![i] = v]), R, nl, nb)
<1> DEFINE fs  == s.cells[a].node.fs
           n   == Array([fs EXCEPT ![i] = v])
           s1  == [s EXCEPT !.cells[a].node.fs = [fs EXCEPT ![i] = v]]
           kept == Alloc(n, Incref(fs[3 - i], s))
           r   == SetElement(a, i, v, s)
<1>1. Shape(s) /\ FieldsOf(a, s) = fs /\ CellOk(a, s) /\ fs \in Seq(Storables)
  BY FieldsAre, ShapePlain DEF Good, Shape
<1>2. Encodable(<<v>>)
  <2>1. Len(fs) = 2 /\ Encodable(fs)
    BY <1>1 DEF CellOk
  <2>2. 1 \in DOMAIN fs
    BY <1>1, <2>1
  <2>3. SlotKind(fs[1]) # "none"
    BY <2>1, <2>2 DEF Encodable
  <2>4. DOMAIN <<v>> = {1} /\ <<v>>[1] = v
    OBVIOUS
  <2>5. QED
    BY <2>3, <2>4 DEF Encodable
<1>3. Rewrites(s, s1, a, n)
  <2> DEFINE new == [fs EXCEPT ![i] = v]
  <2>1. Rewrites(s, [s EXCEPT !.cells[a].node.fs = new], a, [con |-> s.cells[a].node.con, fs |-> new])
    <3> HIDE DEF new
    <3>1. QED
      BY <1>1, RewriteIs
  <2>2. n = [con |-> s.cells[a].node.con, fs |-> new]
    BY DEF Array
  <2>3. QED
    BY <2>1, <2>2
<1>4. r = IF s.cells[a].rc = 1 THEN [a |-> a, s |-> DropAddr(fs[i], s1)]
          ELSE [kept EXCEPT !.s = IF kept.s.err = "none" THEN DropAddr(a, @) ELSE @]
  BY <1>1, <1>2 DEF SetElement
<1>5. CASE s.cells[a].rc = 1
  <2>1. r = [a |-> a, s |-> DropAddr(fs[i], s1)]
    BY <1>4, <1>5
  <2> HIDE DEF s1, n, r, fs
  <2>2. Written(s, [a |-> a, s |-> DropAddr(fs[i], s1)], e, x, n, R, nl, nb)
    BY <1>3, <1>5, WriteHere DEF fs, n
  <2>3. QED
    BY <2>1, <2>2 DEF r, n, fs
<1>6. CASE s.cells[a].rc # 1
  <2> DEFINE q == [a |-> kept.a, s |-> DropAddr(a, kept.s)]
  <2>1. Written(s, q, e, x, n, R, nl, nb) /\ kept.s.err = "none"
    <3>1. ASSUME NEW k, k = kept, NEW p, p = [a |-> k.a, s |-> DropAddr(a, k.s)]
          PROVE  Written(s, p, e, x, n, R, nl, nb) /\ k.s.err = "none"
      <4>1. Copies(s, a, i, v, fs, n, k, p)
        BY <3>1 DEF Copies
      <4> HIDE DEF n, fs
      <4>2. QED
        BY <4>1, WriteCopy
    <3>2. QED
      BY <3>1
  <2>2. n.con = "Array"
    BY DEF Array
  <2>3. "a" \in DOMAIN kept /\ "s" \in DOMAIN kept
    <3> HIDE DEF n
    <3>1. QED
      BY <2>2, AllocRecord
  <2> HIDE DEF kept
  <2>4. r = [kept EXCEPT !.s = DropAddr(a, kept.s)]
    BY <1>4, <1>6, <2>1
  <2>5. r.a = q.a /\ r.s = q.s
    BY <2>3, <2>4
  <2> HIDE DEF r, q, n
  <2>6. Written(s, r, e, x, n, R, nl, nb)
    BY <2>1, <2>5 DEF Written
  <2>7. QED
    BY <2>6 DEF r, n
<1>7. QED
  BY <1>5, <1>6

-----------------------------------------------------------------------------
(* Slots and atoms moved into a new cell.                                  *)

\* A move of slots and atoms, for one backend.
ValuesOf(e, as)  == [j \in DOMAIN as |-> IF as[j] \in Slots THEN e[as[j]] ELSE Atom(as[j])]
Emptied(e, M)    == [y \in Slots |-> IF y \in M THEN Empty ELSE e[y]]

\* The values a move sends and the slots it leaves.
Moves(e, as, vs, e0) == vs = ValuesOf(e, as) /\ e0 = Emptied(e, Moved(as))

\* A move a program may make: each slot at most once, none of the arena.
Takes(s, e, n, lits, as) ==
  /\ n \in Nat \ {0} /\ lits \subseteq Atoms /\ as \in [1..n -> Slots \cup lits]
  /\ \A j, h \in 1..n : j # h /\ as[j] \in Slots => as[j] # as[h]
  /\ \A j \in 1..n : as[j] \in Slots =>
       /\ e[as[j]] # Empty /\ ~IsArena(e[as[j]], s)
       /\ e[as[j]][1] = "lit" => e[as[j]][2] \in lits

\* Values a move may take: none of the arena, and no other literals.
Loose(s, n, vs, lits) ==
  \A j \in 1..n : ~IsArena(vs[j], s) /\ (vs[j][1] = "lit" => vs[j][2] \in lits)

\* Literals and nullary constructors are stored and not counted.
LEMMA AtomIs ==
  ASSUME NEW w \in Atoms
  PROVE  /\ Atom(w) \in Storables /\ Atom(w) \notin Addresses
         /\ Atom(w)[1] = "lit" => Atom(w)[2] = w
<1>1. CASE w = "nullary"
  <2>1. Atom(w) = Inline /\ Inline[1] = "inline"
    BY <1>1 DEF Atom, Inline
  <2>2. QED
    BY <2>1, EmptyIsNo DEF Storables
<1>2. CASE w # "nullary"
  <2>1. Atom(w) = Lit(w) /\ w \in {"small", "char", "big"} /\ Lit(w)[2] = w
    BY <1>2 DEF Atom, Atoms, Lit
  <2>2. Lit(w) \in Literals
    BY <2>1 DEF Literals
  <2>3. QED
    BY <2>1, <2>2, EmptyIsNo DEF Storables
<1>3. QED
  BY <1>1, <1>2

\* A move keeps the number of references.
LEMMA MovedOcc ==
  ASSUME NEW e \in [Slots -> Anything], NEW s, NEW n, NEW lits, NEW as, Takes(s, e, n, lits, as),
         NEW a \in Addresses
  PROVE  Occ(Emptied(e, Moved(as)), a) + Occ(ValuesOf(e, as), a) = Occ(e, a)
<1> DEFINE M  == Moved(as)
           e0 == Emptied(e, M)
           vs == ValuesOf(e, as)
           S  == {j \in 1..n : vs[j] = a}
           T  == {y \in M : e[y] = a}
           U  == {y \in Slots : e0[y] = a}
           W  == {y \in Slots : e[y] = a}
           m  == [j \in S |-> as[j]]
<1>1. /\ n \in Nat /\ DOMAIN as = 1..n /\ \A j \in 1..n : as[j] \in Slots \cup lits
      /\ \A j, h \in 1..n : j # h /\ as[j] \in Slots => as[j] # as[h]
      /\ lits \subseteq Atoms
  BY DEF Takes
<1>2. \A y : y \in M <=> y \in Slots /\ \E j \in 1..n : as[j] = y
  BY <1>1 DEF Moved
<1>3. DOMAIN vs = 1..n /\ DOMAIN e0 = Slots /\ DOMAIN e = Slots
  BY <1>1 DEF ValuesOf, Emptied
<1>4. \A j \in 1..n : vs[j] = a => as[j] \in Slots /\ e[as[j]] = a
  <2>1. ASSUME NEW j \in 1..n, vs[j] = a PROVE as[j] \in Slots /\ e[as[j]] = a
    <3>1. CASE as[j] \in Slots
      BY <1>1, <2>1, <3>1 DEF ValuesOf
    <3>2. CASE as[j] \notin Slots
      <4>1. as[j] \in Atoms /\ vs[j] = Atom(as[j])
        BY <1>1, <3>2 DEF ValuesOf
      <4>2. Atom(as[j]) \notin Addresses
        BY <4>1, AtomIs
      <4>3. QED
        BY <2>1, <4>1, <4>2
    <3>3. QED
      BY <3>1, <3>2
  <2>2. QED
    BY <2>1
<1>5. \A j \in 1..n : as[j] \in Slots => vs[j] = e[as[j]]
  BY <1>1 DEF ValuesOf
<1>6. \A y \in Slots : e0[y] = a <=> y \notin M /\ e[y] = a
  BY EmptyIsNo DEF Emptied
<1> HIDE DEF M, e0, vs
<1>7. W = U \cup T /\ U \cap T = {}
  BY <1>2, <1>6
<1>8. IsFiniteSet(S) /\ IsFiniteSet(T) /\ IsFiniteSet(U)
  <2>1. IsFiniteSet(1..n)
    <3>1. 1 \in Int /\ n \in Int
      BY <1>1
    <3>2. QED
      BY <3>1, FS_Interval
  <2>2. S \in SUBSET (1..n) /\ T \in SUBSET Slots /\ U \in SUBSET Slots
    BY <1>2
  <2> HIDE DEF S, T, U
  <2>3. QED
    BY <2>1, <2>2, FS_Subset, ParityAssumption
<1>9. Cardinality(T) = Cardinality(S)
  <2>1. \A j \in S : m[j] = as[j] /\ as[j] \in Slots /\ as[j] \in T
    BY <1>2, <1>4
  <2>2. \A j, h \in S : m[j] = m[h] => j = h
    BY <1>1, <2>1
  <2>3. \A y \in T : \E j \in S : m[j] = y
    BY <1>2, <1>5
  <2>4. m = [j \in S |-> m[j]] /\ \A j \in S : m[j] \in T
    BY <2>1
  <2> HIDE DEF m, S, T
  <2>5. QED
    BY <1>8, <2>2, <2>3, <2>4, SameSize
<1>10. Occ(e0, a) = Cardinality(U) /\ Occ(vs, a) = Cardinality(S) /\ Occ(e, a) = Cardinality(W)
  BY <1>3 DEF Occ
<1> HIDE DEF S, T, U, W
<1>11. Cardinality(W) = Cardinality(U) + Cardinality(T)
  BY <1>7, <1>8, SetCount
<1>12. QED
  BY <1>9, <1>10, <1>11 DEF e0, vs, M

(* An arena address is an address.                                         *)
LEMMA ArenaAddress ==
  ASSUME NEW s, Shape(s), FramesOk(s), NEW a, IsArena(a, s)
  PROVE  a \in Addresses /\ a \in DOMAIN s.cells
<1>1. a \in DOMAIN s.cells
  BY ArenaLives
<1>2. QED
  BY <1>1 DEF Shape, Minted, Addresses

\* What is in a slot that is not empty may be stored.
LEMMA StorableIs ==
  ASSUME NEW v \in Anything, v # Empty
  PROVE  v \in Storables
  BY DEF Anything

(* The slots and atoms of a move become the values on their way.           *)
LEMMA Sourced ==
  ASSUME NEW s, NEW e, NEW R, NEW nl, NEW nb, Good(s, e, <<>>, {}, R, nl, nb),
         NEW n, NEW lits, NEW as, Takes(s, e, n, lits, as),
         NEW vs, NEW e0, Moves(e, as, vs, e0)
  PROVE  /\ Good(s, e0, vs, {}, R, nl, nb)
         /\ vs \in Seq(Storables) /\ Len(vs) = n /\ vs # <<>> /\ DOMAIN vs = 1..n
         /\ Loose(s, n, vs, lits)
<1>1. /\ n \in Nat \ {0} /\ DOMAIN as = 1..n /\ \A j \in 1..n : as[j] \in Slots \cup lits
      /\ lits \subseteq Atoms
      /\ \A j \in 1..n : as[j] \in Slots =>
           /\ e[as[j]] # Empty /\ ~IsArena(e[as[j]], s)
           /\ e[as[j]][1] = "lit" => e[as[j]][2] \in lits
  BY DEF Takes
<1>2. Shape(s) /\ FramesOk(s) /\ e \in [Slots -> Anything]
  BY DEF Good, Holding
<1>3. ASSUME NEW j \in 1..n
      PROVE  vs[j] \in Storables /\ ~IsArena(vs[j], s) /\ (vs[j][1] = "lit" => vs[j][2] \in lits)
  <2>1. CASE as[j] \in Slots
    <3>1. vs[j] = e[as[j]]
      BY <1>1, <2>1 DEF ValuesOf, Moves
    <3>2. e[as[j]] \in Anything /\ e[as[j]] # Empty
      BY <1>1, <1>2, <2>1
    <3>3. QED
      BY <1>1, <2>1, <3>1, <3>2, StorableIs
  <2>2. CASE as[j] \notin Slots
    <3>1. as[j] \in Atoms /\ as[j] \in lits /\ vs[j] = Atom(as[j])
      BY <1>1, <2>2 DEF ValuesOf, Moves
    <3>2. /\ Atom(as[j]) \in Storables /\ Atom(as[j]) \notin Addresses
          /\ Atom(as[j])[1] = "lit" => Atom(as[j])[2] = as[j]
      BY <3>1, AtomIs
    <3>3. ~IsArena(vs[j], s)
      BY <1>2, <3>1, <3>2, ArenaAddress
    <3>4. QED
      BY <3>1, <3>2, <3>3
  <2>3. QED
    BY <2>1, <2>2
<1>4. DOMAIN vs = 1..n /\ vs = [j \in 1..n |-> vs[j]]
  BY <1>1 DEF ValuesOf, Moves
<1>5. vs \in Seq(Storables) /\ Len(vs) = n /\ vs # <<>>
  BY <1>1, <1>3, <1>4
<1>6. vs \in Seq(Anything)
  BY <1>5 DEF Anything
<1>7. e0 \in [Slots -> Anything]
  BY <1>2 DEF Emptied, Anything, Moves
<1>8. ASSUME NEW a \in Addresses PROVE Occ(e0, a) + Occ(vs, a) = Occ(e, a) + Occ(<<>>, a)
  <2>1. Occ(e0, a) + Occ(vs, a) = Occ(e, a)
    BY <1>2, <1>8, MovedOcc DEF Moves
  <2>2. Occ(<<>>, a) = 0
    BY OccNone
  <2>3. Occ(e, a) \in Nat
    <3>1. <<>> \in Seq(Anything)
      OBVIOUS
    <3>2. QED
      BY <1>2, <3>1, TotalType
  <2>4. QED
    BY <2>1, <2>2, <2>3
<1>9. Good(s, e0, vs, {}, R, nl, nb)
  <2> DEFINE w == <<>>
  <2>1. Good(s, e, w, {}, R, nl, nb) /\ \A a \in Addresses : Occ(e0, a) + Occ(vs, a) = Occ(e, a) + Occ(w, a)
    BY <1>8
  <2> HIDE DEF w
  <2>2. QED
    BY <1>6, <1>7, <2>1, Rehold
<1>10. Loose(s, n, vs, lits)
  BY <1>3 DEF Loose
<1>11. QED
  BY <1>4, <1>5, <1>9, <1>10

(* A value on its way gets its slot.                                       *)
LEMMA Delivered ==
  ASSUME NEW s, NEW e, NEW v, NEW R, NEW nl, NEW nb, Good(s, e, <<v>>, {}, R, nl, nb),
         NEW x \in Slots, e[x] \notin Addresses, NEW e2, Elsewhere(e, e2, x), e2[x] = v
  PROVE  Good(s, e2, <<>>, {}, R, nl, nb)
<1> DEFINE w == <<v>>
           z == <<>>
<1>1. e \in [Slots -> Anything] /\ e2 \in [Slots -> Anything] /\ z \in Seq(Anything)
  BY DEF Good, Holding, Elsewhere
<1>2. ASSUME NEW b \in Addresses PROVE Occ(e2, b) + Occ(z, b) = Occ(e, b) + Occ(w, b)
  <2>1. /\ Occ(e2, b) = Occ(e, b) - (IF e[x] = b THEN 1 ELSE 0) + (IF e2[x] = b THEN 1 ELSE 0)
        /\ Occ(e, b) \in Nat /\ Occ(e2, b) \in Nat
    BY <1>1, SlotOcc
  <2>2. Occ(w, b) = (IF v = b THEN 1 ELSE 0) /\ Occ(z, b) = 0
    BY OccOne, OccNone
  <2>3. QED
    BY <1>2, <2>1, <2>2
<1>3. Good(s, e, w, {}, R, nl, nb)
  OBVIOUS
<1> HIDE DEF w, z
<1>4. Good(s, e2, z, {}, R, nl, nb)
  BY <1>1, <1>2, <1>3, Rehold
<1>5. QED
  BY <1>4 DEF z

(* And a slot gives its value away.                                        *)
LEMMA Given ==
  ASSUME NEW s, NEW e, NEW v, NEW R, NEW nl, NEW nb, Good(s, e, <<>>, {}, R, nl, nb),
         NEW x \in Slots, e[x] = v, NEW e2, Elsewhere(e, e2, x), e2[x] = Empty
  PROVE  Good(s, e2, <<v>>, {}, R, nl, nb) /\ v \in Anything
<1> DEFINE w == <<v>>
           z == <<>>
<1>1. e \in [Slots -> Anything] /\ e2 \in [Slots -> Anything] /\ z \in Seq(Anything) /\ v \in Anything
  BY DEF Good, Holding, Elsewhere
<1>1a. w \in Seq(Anything)
  BY <1>1
<1>2. ASSUME NEW b \in Addresses PROVE Occ(e2, b) + Occ(w, b) = Occ(e, b) + Occ(z, b)
  <2>1. /\ Occ(e2, b) = Occ(e, b) - (IF e[x] = b THEN 1 ELSE 0) + (IF e2[x] = b THEN 1 ELSE 0)
        /\ Occ(e, b) \in Nat /\ Occ(e2, b) \in Nat
    BY <1>1, SlotOcc
  <2>2. Occ(w, b) = (IF v = b THEN 1 ELSE 0) /\ Occ(z, b) = 0
    BY OccOne, OccNone
  <2>3. Empty # b
    BY <1>2, EmptyIsNo
  <2>4. QED
    BY <1>2, <2>1, <2>2, <2>3
<1>3. Good(s, e, z, {}, R, nl, nb)
  OBVIOUS
<1> HIDE DEF w, z
<1>4. Good(s, e2, w, {}, R, nl, nb)
  BY <1>1, <1>1a, <1>2, <1>3, Rehold
<1>5. QED
  BY <1>1, <1>4 DEF w

-----------------------------------------------------------------------------
(* Two stores, told apart by their addresses alone.                        *)

\* The two stores, told apart by their addresses alone: L pairs the addresses
\* that stand for the same cell.  Paired cells that are alive have the same
\* constructor, paired fields, and the same scope.
Level(s, j)   == s.arena[j] \cup s.arenaC[j]

\* Two values that differ in their addresses at most, and those are paired.
Like(L, u, v) == IF u \in Addresses THEN <<u, v>> \in L ELSE v = u

\* Two cells that do.
PairOk(L, s, t, u, v) ==
  /\ s.cells[u].node.con = t.cells[v].node.con
  /\ DOMAIN s.cells[u].node.fs = DOMAIN t.cells[v].node.fs
  /\ \A j \in DOMAIN s.cells[u].node.fs : Like(L, s.cells[u].node.fs[j], t.cells[v].node.fs[j])
  /\ \A j \in DOMAIN s.arena : u \in Level(s, j) <=> v \in Level(t, j)

\* The two arenas have the same scopes.
Aligned(s, t) ==
  DOMAIN s.arenaC = DOMAIN s.arena /\ DOMAIN t.arena = DOMAIN s.arena /\ DOMAIN t.arenaC = DOMAIN s.arena

\* Two stores that do.
Linked(L, s, t) ==
  /\ L \subseteq Addresses \X Addresses /\ Aligned(s, t)
  /\ \A u \in DOMAIN s.cells : \A v \in DOMAIN t.cells : <<u, v>> \in L => PairOk(L, s, t, u, v)

\* And the slots.
LikeSlots(L, e, f) == \A x \in Slots : Like(L, e[x], f[x])

\* A step that keeps what remains.
Keeps(s, t) ==
  /\ DOMAIN t.cells \subseteq DOMAIN s.cells
  /\ \A u \in DOMAIN t.cells : t.cells[u].node = s.cells[u].node
  /\ t.arena = s.arena /\ t.arenaC = s.arenaC

\* Losing cells keeps what remains,
LEMMA ThinsKeeps == ASSUME NEW s, NEW t, Thins(s, t) PROVE Keeps(s, t)
  BY DEF Thins, Keeps

\* and so does counting.
LEMMA RecountKeeps == ASSUME NEW s, NEW t, Recounted(s, t) PROVE Keeps(s, t)
  BY DEF Recounted, SameFrame, SameCells, Keeps

\* Stores that keep what remains stay linked.
LEMMA LinkedKeeps ==
  ASSUME NEW L, NEW s, NEW t, Linked(L, s, t), NEW s2, NEW t2, Keeps(s, s2), Keeps(t, t2)
  PROVE  Linked(L, s2, t2)
<1>1. \A j : Level(s2, j) = Level(s, j) /\ Level(t2, j) = Level(t, j)
  BY DEF Keeps, Level
<1>2. s2.arena = s.arena /\ Aligned(s2, t2) /\ L \subseteq Addresses \X Addresses
  BY DEF Keeps, Linked, Aligned
<1>3. ASSUME NEW u \in DOMAIN s2.cells, NEW v \in DOMAIN t2.cells, <<u, v>> \in L
      PROVE  PairOk(L, s2, t2, u, v)
  <2>1. u \in DOMAIN s.cells /\ v \in DOMAIN t.cells /\ s2.cells[u].node = s.cells[u].node
        /\ t2.cells[v].node = t.cells[v].node
    BY <1>3 DEF Keeps
  <2>2. PairOk(L, s, t, u, v)
    BY <1>3, <2>1 DEF Linked
  <2>3. QED
    BY <1>1, <1>2, <2>1, <2>2 DEF PairOk
<1>4. QED
  BY <1>2, <1>3 DEF Linked

\* A cell at a that nothing refers to.
Bears(s, t, a, n) ==
  /\ Gives(s, t, a, n) /\ a \in Addresses
  /\ \A k \in DOMAIN t.cells : \A j \in DOMAIN t.cells[k].node.fs : t.cells[k].node.fs[j] # a

\* No other cell changes scope.
SameLevels(s, t, a) ==
  /\ DOMAIN t.arena = DOMAIN s.arena /\ DOMAIN t.arenaC = DOMAIN s.arenaC
  /\ \A u : u # a => \A j \in DOMAIN s.arena : u \in Level(t, j) <=> u \in Level(s, j)

\* Two nodes alike.
LikeNodes(L, m, n) ==
  m.con = n.con /\ DOMAIN m.fs = DOMAIN n.fs /\ \A j \in DOMAIN m.fs : Like(L, m.fs[j], n.fs[j])

\* The pairing when a and c are handed out, perhaps not for the first time.
Relink(L, a, c) == {p \in L : p[1] # a /\ p[2] # c} \cup {<<a, c>>}

\* What it keeps.
LEMMA RelinkIs ==
  ASSUME NEW L, NEW a, NEW c, NEW u, NEW v
  PROVE  /\ Like(L, u, v) /\ u # a /\ v # c => Like(Relink(L, a, c), u, v)
         /\ <<u, v>> \in Relink(L, a, c) <=> \/ <<u, v>> \in L /\ u # a /\ v # c
                                             \/ u = a /\ v = c
<1>1. <<u, v>> \in Relink(L, a, c) <=> \/ <<u, v>> \in L /\ u # a /\ v # c
                                       \/ u = a /\ v = c
  BY DEF Relink
<1>2. QED
  BY <1>1 DEF Like

\* Two cells born alike are paired.
LEMMA LinkedBorn ==
  ASSUME NEW L, NEW s, NEW t, Linked(L, s, t), NEW s2, NEW t2, NEW a, NEW c, NEW m, NEW n,
         Bears(s, s2, a, m), Bears(t, t2, c, n), LikeNodes(L, m, n),
         SameLevels(s, s2, a), SameLevels(t, t2, c),
         \A j \in DOMAIN s.arena : a \in Level(s2, j) <=> c \in Level(t2, j)
  PROVE  Linked(Relink(L, a, c), s2, t2)
<1> DEFINE K == Relink(L, a, c)
<1>1. \A u, v : <<u, v>> \in K <=> \/ <<u, v>> \in L /\ u # a /\ v # c
                                   \/ u = a /\ v = c
  BY RelinkIs
<1>2. K \subseteq Addresses \X Addresses /\ Aligned(s2, t2) /\ DOMAIN s2.arena = DOMAIN s.arena
  <2>1. L \subseteq Addresses \X Addresses /\ a \in Addresses /\ c \in Addresses
    BY DEF Linked, Bears
  <2>2. K \subseteq Addresses \X Addresses
    BY <2>1 DEF Relink
  <2>3. QED
    BY <2>2 DEF SameLevels, Linked, Aligned
<1>3. \A u, v : Like(L, u, v) /\ u # a /\ v # c => Like(K, u, v)
  BY RelinkIs
<1> HIDE DEF K
<1>4. ASSUME NEW u \in DOMAIN s2.cells, NEW v \in DOMAIN t2.cells, <<u, v>> \in K
      PROVE  PairOk(K, s2, t2, u, v)
  <2>1. /\ \A j \in DOMAIN s2.cells[u].node.fs : s2.cells[u].node.fs[j] # a
        /\ \A j \in DOMAIN t2.cells[v].node.fs : t2.cells[v].node.fs[j] # c
    BY DEF Bears
  <2>2. CASE <<u, v>> \in L /\ u # a /\ v # c
    <3>1. u \in DOMAIN s.cells /\ s2.cells[u].node = s.cells[u].node
      BY <2>2 DEF Bears, Gives
    <3>2. v \in DOMAIN t.cells /\ t2.cells[v].node = t.cells[v].node
      BY <2>2 DEF Bears, Gives
    <3>3. PairOk(L, s, t, u, v)
      BY <2>2, <3>1, <3>2 DEF Linked
    <3>4. \A j \in DOMAIN s.arena : u \in Level(s2, j) <=> v \in Level(t2, j)
      BY <2>2, <3>3 DEF PairOk, SameLevels, Linked, Aligned
    <3>5. QED
      BY <1>2, <1>3, <2>1, <3>1, <3>2, <3>3, <3>4 DEF PairOk
  <2>3. CASE u = a /\ v = c
    <3>1. s2.cells[u].node = m /\ t2.cells[v].node = n
      BY <2>3 DEF Bears, Gives
    <3>2. QED
      BY <1>2, <1>3, <2>1, <2>3, <3>1 DEF PairOk, LikeNodes
  <2>4. QED
    BY <1>1, <1>4, <2>2, <2>3
<1>5. QED
  BY <1>2, <1>4 DEF Linked, K

(* A cell born outside the arena.                                          *)
LEMMA CountedLevels ==
  ASSUME NEW s, NEW t, NEW a, t.arena = s.arena, t.arenaC = s.arenaC
  PROVE  SameLevels(s, t, a)
  BY DEF SameLevels, Level

\* A counted cell is in no scope.
LEMMA NoLevel ==
  ASSUME NEW s, NEW a, ~IsArena(a, s), NEW j \in DOMAIN s.arena, DOMAIN s.arenaC = DOMAIN s.arena
  PROVE  a \notin Level(s, j)
  BY DEF IsArena, InFrames, Level

\* Two counted cells born alike.
LEMMA LinkedMade ==
  ASSUME NEW L, NEW s, NEW t, Linked(L, s, t), NEW s2, NEW t2, NEW a, NEW c, NEW m, NEW n,
         Bears(s, s2, a, m), Bears(t, t2, c, n), LikeNodes(L, m, n),
         SameArena(s, s2), SameArena(t, t2), ~IsArena(a, s2), ~IsArena(c, t2)
  PROVE  Linked(Relink(L, a, c), s2, t2)
<1>1. SameLevels(s, s2, a) /\ SameLevels(t, t2, c)
  BY CountedLevels DEF SameArena
<1>2. /\ s2.arena = s.arena /\ s2.arenaC = s.arenaC /\ t2.arena = t.arena /\ t2.arenaC = t.arenaC
      /\ DOMAIN s.arenaC = DOMAIN s.arena /\ DOMAIN t.arena = DOMAIN s.arena /\ DOMAIN t.arenaC = DOMAIN s.arena
  BY DEF SameArena, Linked, Aligned
<1>3. \A j \in DOMAIN s.arena : a \notin Level(s2, j) /\ c \notin Level(t2, j)
  BY <1>2, NoLevel
<1>4. QED
  BY <1>1, <1>3, LinkedBorn

\* The slots they go to.
LEMMA SlotsBorn ==
  ASSUME NEW L, NEW e, NEW f, LikeSlots(L, e, f), NEW a \in Addresses, NEW c \in Addresses, NEW x \in Slots,
         \A y \in Slots : y # x => e[y] # a, \A y \in Slots : y # x => f[y] # c,
         NEW e2, Elsewhere(e, e2, x), e2[x] = a, NEW f2, Elsewhere(f, f2, x), f2[x] = c
  PROVE  LikeSlots(Relink(L, a, c), e2, f2)
<1>1. ASSUME NEW y \in Slots PROVE Like(Relink(L, a, c), e2[y], f2[y])
  <2>1. CASE y = x
    <3>1. <<a, c>> \in Relink(L, a, c)
      BY RelinkIs
    <3>2. QED
      BY <2>1, <3>1 DEF Like
  <2>2. CASE y # x
    <3>1. e2[y] = e[y] /\ f2[y] = f[y] /\ e[y] # a /\ f[y] # c /\ Like(L, e[y], f[y])
      BY <2>2 DEF Elsewhere, LikeSlots
    <3>2. QED
      BY <3>1, RelinkIs
  <2>3. QED
    BY <2>1, <2>2
<1>2. QED
  BY <1>1 DEF LikeSlots

\* A list's length is told from its positions.
LEMMA SameLen ==
  ASSUME NEW n \in Nat, NEW m \in Nat, 1..n = 1..m
  PROVE  n = m
<1>1. n > 0 => n \in 1..n
  OBVIOUS
<1>2. m > 0 => m \in 1..m
  OBVIOUS
<1>3. \A k : k \in 1..n <=> k \in 1..m
  OBVIOUS
<1>4. n > 0 => n <= m
  BY <1>1, <1>3
<1>5. m > 0 => m <= n
  BY <1>2, <1>3
<1>6. QED
  BY <1>4, <1>5

\* Frames with a scope more and with a scope less.
Pushed(fr, g) ==
  /\ Len(fr) \in Nat /\ DOMAIN fr = 1..Len(fr) /\ DOMAIN g = 1..(Len(fr) + 1) /\ g[1] = {}
  /\ \A j \in DOMAIN g : j # 1 => j - 1 \in DOMAIN fr /\ g[j] = fr[j - 1]
Popped(fr, g) ==
  /\ Len(fr) \in Nat /\ DOMAIN fr = 1..Len(fr) /\ DOMAIN g = 1..(Len(fr) - 1)
  /\ \A j \in DOMAIN g : j + 1 \in DOMAIN fr /\ g[j] = fr[j + 1]

\* arenaOpen pushes a frame on either half.
LEMMA PushedIs ==
  ASSUME NEW s, NEW fr, NEW w, HalfOk(fr, w, s)
  PROVE  Pushed(fr, <<{}>> \o fr)
<1> DEFINE V == SUBSET DOMAIN s.cells
           g == <<{}>> \o fr
<1>1. fr \in Seq(V) /\ {} \in V
  BY DEF HalfOk
<1> HIDE DEF V
<1>2. Len(fr) \in Nat /\ DOMAIN fr = 1..Len(fr)
  BY <1>1
<1>3. DOMAIN g = 1..(Len(fr) + 1) /\ g[1] = {}
      /\ \A j \in DOMAIN g : j # 1 => j - 1 \in 1..Len(fr) /\ g[j] = fr[j - 1]
  BY <1>1, OpenFrame
<1> HIDE DEF g
<1>4. Pushed(fr, g)
  BY <1>2, <1>3 DEF Pushed
<1>5. QED
  BY <1>4 DEF g

\* arenaClose pops one.
LEMMA PoppedIs ==
  ASSUME NEW s, NEW fr, NEW w, HalfOk(fr, w, s), fr # <<>>
  PROVE  Popped(fr, Tail(fr)) /\ 1 \in DOMAIN fr /\ Head(fr) = fr[1]
<1> DEFINE V == SUBSET DOMAIN s.cells
           g == Tail(fr)
<1>1. fr \in Seq(V)
  BY DEF HalfOk
<1> HIDE DEF V
<1>2. Len(fr) \in Nat /\ DOMAIN fr = 1..Len(fr)
  BY <1>1
<1>3. /\ g \in Seq(V) /\ Len(g) = Len(fr) - 1 /\ 1 \in DOMAIN fr /\ Head(fr) = fr[1]
      /\ \A j \in DOMAIN g : j + 1 \in DOMAIN fr /\ g[j] = fr[j + 1]
  BY <1>1, TailIs
<1> HIDE DEF g
<1>4. DOMAIN g = 1..(Len(fr) - 1)
  <2>1. DOMAIN g = 1..Len(g)
    BY <1>3
  <2>2. QED
    BY <1>3, <2>1
<1>5. Popped(fr, g)
  BY <1>2, <1>3, <1>4 DEF Popped
<1>6. QED
  BY <1>3, <1>5 DEF g

\* Two scopes opened.
LEMMA LinkedOpen ==
  ASSUME NEW L, NEW s, NEW t, Linked(L, s, t), NEW s2, NEW t2, s2.cells = s.cells, t2.cells = t.cells,
         Pushed(s.arena, s2.arena), Pushed(s.arenaC, s2.arenaC),
         Pushed(t.arena, t2.arena), Pushed(t.arenaC, t2.arenaC)
  PROVE  Linked(L, s2, t2)
<1>1. Aligned(s, t) /\ L \subseteq Addresses \X Addresses
  BY DEF Linked
<1>2. Aligned(s2, t2)
  <2>1. Len(s.arenaC) = Len(s.arena) /\ Len(t.arena) = Len(s.arena) /\ Len(t.arenaC) = Len(s.arena)
    BY <1>1, SameLen DEF Aligned, Pushed
  <2>2. QED
    BY <2>1 DEF Aligned, Pushed
<1>3. \A j \in DOMAIN s2.arena : j # 1 => /\ j - 1 \in DOMAIN s.arena
                                          /\ Level(s2, j) = Level(s, j - 1) /\ Level(t2, j) = Level(t, j - 1)
  BY <1>1, <1>2 DEF Aligned, Pushed, Level
<1>4. Level(s2, 1) = {} /\ Level(t2, 1) = {}
  BY DEF Pushed, Level
<1>5. ASSUME NEW u \in DOMAIN s2.cells, NEW v \in DOMAIN t2.cells, <<u, v>> \in L
      PROVE  PairOk(L, s2, t2, u, v)
  <2>1. PairOk(L, s, t, u, v)
    BY <1>5 DEF Linked
  <2>2. ASSUME NEW j \in DOMAIN s2.arena PROVE u \in Level(s2, j) <=> v \in Level(t2, j)
    <3>1. CASE j = 1
      BY <1>4, <3>1
    <3>2. CASE j # 1
      BY <1>3, <2>1, <3>2 DEF PairOk
    <3>3. QED
      BY <3>1, <3>2
  <2>3. QED
    BY <2>1, <2>2 DEF PairOk
<1>6. QED
  BY <1>1, <1>2, <1>5 DEF Linked

\* Two scopes closed.
LEMMA LinkedClose ==
  ASSUME NEW L, NEW s, NEW t, Linked(L, s, t), NEW s2, NEW t2,
         HalfClosed(s, s2), HalfClosed(t, t2),
         Popped(s.arena, s2.arena), Popped(s.arenaC, s2.arenaC),
         Popped(t.arena, t2.arena), Popped(t.arenaC, t2.arenaC)
  PROVE  Linked(L, s2, t2)
<1>1. Aligned(s, t) /\ L \subseteq Addresses \X Addresses
  BY DEF Linked
<1>2. Aligned(s2, t2)
  <2>1. Len(s.arenaC) = Len(s.arena) /\ Len(t.arena) = Len(s.arena) /\ Len(t.arenaC) = Len(s.arena)
    BY <1>1, SameLen DEF Aligned, Popped
  <2>2. QED
    BY <2>1 DEF Aligned, Popped
<1>3. \A j \in DOMAIN s2.arena : /\ j + 1 \in DOMAIN s.arena
                                 /\ Level(s2, j) = Level(s, j + 1) /\ Level(t2, j) = Level(t, j + 1)
  BY <1>1, <1>2 DEF Aligned, Popped, Level
<1>5. ASSUME NEW u \in DOMAIN s2.cells, NEW v \in DOMAIN t2.cells, <<u, v>> \in L
      PROVE  PairOk(L, s2, t2, u, v)
  <2>0. u \in DOMAIN s.cells /\ v \in DOMAIN t.cells /\ s2.cells[u].node = s.cells[u].node
        /\ t2.cells[v].node = t.cells[v].node
    BY <1>5 DEF HalfClosed
  <2>1. PairOk(L, s, t, u, v)
    BY <1>5, <2>0 DEF Linked
  <2>2. ASSUME NEW j \in DOMAIN s2.arena PROVE u \in Level(s2, j) <=> v \in Level(t2, j)
    BY <1>3, <2>1 DEF PairOk
  <2>3. QED
    BY <2>0, <2>1, <2>2 DEF PairOk
<1>6. QED
  BY <1>1, <1>2, <1>5 DEF Linked

(* A cell born in the innermost scope is in that one alone.                *)
LEMMA InnerLevels ==
  ASSUME NEW s, NEW t, NEW a, InnerBorn(s, t, a), FramesOk(t), 1 \in DOMAIN s.arena,
         DOMAIN s.arenaC = DOMAIN s.arena
  PROVE  SameLevels(s, t, a) /\ \A j \in DOMAIN s.arena : a \in Level(t, j) <=> j = 1
<1>1. HalfOk(t.arena, "H", t) /\ HalfOk(t.arenaC, "C", t)
  BY DEF FramesOk
<1>2. CASE t.arena = [s.arena EXCEPT ![1] = @ \cup {a}] /\ t.arenaC = s.arenaC
  <2>1. /\ DOMAIN t.arena = DOMAIN s.arena /\ t.arena[1] = s.arena[1] \cup {a} /\ t.arenaC = s.arenaC
        /\ \A j \in DOMAIN s.arena : j # 1 => t.arena[j] = s.arena[j]
    BY <1>2
  <2>2. a \in t.arena[1] /\ a[1] = "H"
    BY <1>1, <2>1 DEF HalfOk
  <2>3. \A j \in DOMAIN s.arena : a \notin t.arenaC[j]
    BY <1>1, <2>1, <2>2 DEF HalfOk
  <2>4. \A j \in DOMAIN s.arena : j # 1 => a \notin t.arena[j]
    BY <1>1, <2>1, <2>2 DEF HalfOk
  <2>5. SameLevels(s, t, a)
    BY <2>1 DEF SameLevels, Level
  <2>6. QED
    BY <2>2, <2>3, <2>4, <2>5 DEF Level
<1>3. CASE t.arenaC = [s.arenaC EXCEPT ![1] = @ \cup {a}] /\ t.arena = s.arena
  <2>1. /\ DOMAIN t.arenaC = DOMAIN s.arena /\ t.arenaC[1] = s.arenaC[1] \cup {a} /\ t.arena = s.arena
        /\ \A j \in DOMAIN s.arena : j # 1 => t.arenaC[j] = s.arenaC[j]
    BY <1>3
  <2>2. a \in t.arenaC[1] /\ a[1] = "C"
    BY <1>1, <2>1 DEF HalfOk
  <2>3. \A j \in DOMAIN s.arena : a \notin t.arena[j]
    BY <1>1, <2>1, <2>2 DEF HalfOk
  <2>4. \A j \in DOMAIN s.arena : j # 1 => a \notin t.arenaC[j]
    BY <1>1, <2>1, <2>2 DEF HalfOk
  <2>5. SameLevels(s, t, a)
    BY <2>1 DEF SameLevels, Level
  <2>6. QED
    BY <2>2, <2>3, <2>4, <2>5 DEF Level
<1>4. QED
  BY <1>2, <1>3 DEF InnerBorn

\* Two arena cells born alike.
LEMMA LinkedArenaMade ==
  ASSUME NEW L, NEW s, NEW t, Linked(L, s, t), NEW s2, NEW t2, NEW a, NEW c, NEW m, NEW n,
         Bears(s, s2, a, m), Bears(t, t2, c, n), LikeNodes(L, m, n),
         InnerBorn(s, s2, a), InnerBorn(t, t2, c), FramesOk(s2), FramesOk(t2), 1 \in DOMAIN s.arena
  PROVE  Linked(Relink(L, a, c), s2, t2)
<1>1. DOMAIN s.arenaC = DOMAIN s.arena /\ DOMAIN t.arena = DOMAIN s.arena /\ DOMAIN t.arenaC = DOMAIN s.arena
  BY DEF Linked, Aligned
<1>2. SameLevels(s, s2, a) /\ \A j \in DOMAIN s.arena : a \in Level(s2, j) <=> j = 1
  BY <1>1, InnerLevels
<1>3. SameLevels(t, t2, c) /\ \A j \in DOMAIN t.arena : c \in Level(t2, j) <=> j = 1
  BY <1>1, InnerLevels
<1>4. QED
  BY <1>1, <1>2, <1>3, LinkedBorn

-----------------------------------------------------------------------------
(* One backend between two steps, and a value with its twin.               *)

\* One backend between two steps.
Shells(t)    == {t.a} \ {Empty}
ShellCount(t) == IF t = NullToken THEN 0 ELSE 1

\* No error, the token's shell reserved, and a token only with its pair's shape.
Ready(b, s, t, sh) ==
  /\ s.reserved = Shells(t) /\ s.err = "none" /\ s.backend = b
  /\ Len(s.arena) = Len(s.arenaC)
  /\ b = "abs" => \A j \in DOMAIN s.arenaC : s.arenaC[j] = {}
  /\ sh = NoShape => t = NullToken
  /\ sh # NoShape => /\ sh[1] \in Constructors /\ Len(sh[2]) \in Nat \ {0}
                     /\ TokenOk(t, s, sh[1], sh[2])

\* The invariant of one backend.
StoreOk(b, s, e, t, sh) ==
  Good(s, e, <<>>, {}, Shells(t), ShellCount(t), t.bytes) /\ Ready(b, s, t, sh)

\* A value and its twin on the other backend.
Twin(L, s, t, u, v) ==
  /\ Like(L, u, v) /\ (u \in Addresses <=> v \in Addresses) /\ (u \notin Addresses => v = u)
  /\ u \in Addresses => u \in DOMAIN s.cells /\ v \in DOMAIN t.cells /\ PairOk(L, s, t, u, v)
  /\ IsArena(u, s) <=> IsArena(v, t)

\* An arena cell is one of some scope.
LEMMA LevelArena ==
  ASSUME NEW s, DOMAIN s.arenaC = DOMAIN s.arena, NEW a
  PROVE  IsArena(a, s) <=> \E j \in DOMAIN s.arena : a \in Level(s, j)
  BY DEF IsArena, InFrames, Level

\* Paired addresses that live are twins.
LEMMA Twins ==
  ASSUME NEW L, NEW s, NEW t, Linked(L, s, t), Shape(s), Shape(t), FramesOk(s), FramesOk(t),
         NEW u, NEW v, Like(L, u, v),
         u \in Addresses => u \in DOMAIN s.cells, v \in Addresses => v \in DOMAIN t.cells
  PROVE  Twin(L, s, t, u, v)
<1>1. u \in Addresses => <<u, v>> \in L /\ v \in Addresses
  BY DEF Like, Linked
<1>2. u \notin Addresses => v = u
  BY DEF Like
<1>3. u \in Addresses => PairOk(L, s, t, u, v)
  BY <1>1 DEF Linked
<1>4. IsArena(u, s) <=> IsArena(v, t)
  <2>1. DOMAIN s.arenaC = DOMAIN s.arena /\ DOMAIN t.arena = DOMAIN s.arena /\ DOMAIN t.arenaC = DOMAIN t.arena
    BY DEF Linked, Aligned
  <2>2. CASE u \in Addresses
    <3>1. \A j \in DOMAIN s.arena : u \in Level(s, j) <=> v \in Level(t, j)
      BY <1>3, <2>2 DEF PairOk
    <3>2. IsArena(u, s) <=> \E j \in DOMAIN s.arena : u \in Level(s, j)
      BY <2>1, LevelArena
    <3>3. IsArena(v, t) <=> \E j \in DOMAIN t.arena : v \in Level(t, j)
      BY <2>1, LevelArena
    <3>4. QED
      BY <2>1, <3>1, <3>2, <3>3
  <2>3. CASE u \notin Addresses
    <3>1. ~IsArena(u, s) /\ ~IsArena(u, t)
      BY <2>3, ArenaAddress
    <3>2. QED
      BY <3>1, <1>2, <2>3
  <2>4. QED
    BY <2>2, <2>3
<1>5. QED
  BY <1>1, <1>2, <1>3, <1>4 DEF Twin

(* The slots hold living cells.                                            *)
LEMMA SlotLives ==
  ASSUME NEW s, NEW e, NEW w, NEW X, NEW R, NEW nl, NEW nb, Good(s, e, w, X, R, nl, nb),
         NEW x \in Slots, e[x] \in Addresses
  PROVE  e[x] \in DOMAIN s.cells
<1>1. Shape(s) /\ FramesOk(s)
  BY DEF Good
<1>2. CASE IsArena(e[x], s)
  BY <1>1, <1>2, ArenaAddress
<1>3. CASE ~IsArena(e[x], s)
  BY <1>3, Referenced
<1>4. QED
  BY <1>2, <1>3

\* What a slot holds on one backend has its twin in that slot on the other,
LEMMA SlotTwins ==
  ASSUME NEW L, NEW s, NEW t, Linked(L, s, t), NEW e, NEW f, LikeSlots(L, e, f),
         NEW R, NEW nl, NEW nb, Good(s, e, <<>>, {}, R, nl, nb),
         NEW R2, NEW nl2, NEW nb2, Good(t, f, <<>>, {}, R2, nl2, nb2), NEW x \in Slots
  PROVE  Twin(L, s, t, e[x], f[x])
<1>1. Shape(s) /\ Shape(t) /\ FramesOk(s) /\ FramesOk(t)
  BY DEF Good
<1>2. e[x] \in Addresses => e[x] \in DOMAIN s.cells
  BY SlotLives
<1>3. f[x] \in Addresses => f[x] \in DOMAIN t.cells
  BY SlotLives
<1>4. Like(L, e[x], f[x])
  BY DEF LikeSlots
<1>5. QED
  BY <1>1, <1>2, <1>3, <1>4, Twins

(* So do the fields of living cells.                                       *)
LEMMA FieldLives ==
  ASSUME NEW s, NEW e, NEW w, NEW R, NEW nl, NEW nb, Good(s, e, w, {}, R, nl, nb),
         NEW a \in DOMAIN s.cells, NEW j \in DOMAIN s.cells[a].node.fs
  PROVE  /\ s.cells[a].node.fs[j] \in Storables /\ ~IsArena(s.cells[a].node.fs[j], s)
         /\ s.cells[a].node.fs[j] \in Addresses => s.cells[a].node.fs[j] \in DOMAIN s.cells
<1>1. Shape(s)
  BY DEF Good
<1>2. s.cells[a].node.fs \in Seq(Storables)
  BY <1>1, ShapePlain
<1>3. s.cells[a].node.fs[j] \in Storables
  BY <1>2
<1>4. ~IsArena(s.cells[a].node.fs[j], s)
  BY <1>1 DEF Shape, CellOk
<1>5. ASSUME s.cells[a].node.fs[j] \in Addresses PROVE s.cells[a].node.fs[j] \in DOMAIN s.cells
  BY <1>4, <1>5, Referenced
<1>6. QED
  BY <1>3, <1>4, <1>5

\* and what a field of a cell holds in that field of the cell's twin.
LEMMA FieldTwins ==
  ASSUME NEW L, NEW s, NEW t, Linked(L, s, t), NEW e, NEW f,
         NEW R, NEW nl, NEW nb, Good(s, e, <<>>, {}, R, nl, nb),
         NEW R2, NEW nl2, NEW nb2, Good(t, f, <<>>, {}, R2, nl2, nb2),
         NEW u \in Addresses, NEW v, Twin(L, s, t, u, v), NEW j \in DOMAIN s.cells[u].node.fs
  PROVE  /\ j \in DOMAIN t.cells[v].node.fs
         /\ Twin(L, s, t, s.cells[u].node.fs[j], t.cells[v].node.fs[j])
<1>1. Shape(s) /\ Shape(t) /\ FramesOk(s) /\ FramesOk(t)
  BY DEF Good
<1>2. u \in DOMAIN s.cells /\ v \in DOMAIN t.cells /\ PairOk(L, s, t, u, v)
  BY DEF Twin
<1>3. j \in DOMAIN t.cells[v].node.fs /\ Like(L, s.cells[u].node.fs[j], t.cells[v].node.fs[j])
  BY <1>2 DEF PairOk
<1>4. s.cells[u].node.fs[j] \in Addresses => s.cells[u].node.fs[j] \in DOMAIN s.cells
  BY <1>2, FieldLives
<1>5. t.cells[v].node.fs[j] \in Addresses => t.cells[v].node.fs[j] \in DOMAIN t.cells
  BY <1>2, <1>3, FieldLives
<1>6. QED
  BY <1>1, <1>3, <1>4, <1>5, Twins

\* Twins have one static class.
LEMMA TwinClass ==
  ASSUME NEW L, NEW s, NEW t, NEW u, NEW v, Twin(L, s, t, u, v)
  PROVE  /\ StaticClass(u) = StaticClass(v)
         /\ u = Empty <=> v = Empty
         /\ u[1] = "lit" <=> v[1] = "lit"
         /\ u[1] = "lit" => v = u
<1>1. CASE u \in Addresses
  <2>1. v \in Addresses
    BY <1>1 DEF Twin
  <2>2. u[1] # "lit" /\ v[1] # "lit" /\ u # Empty /\ v # Empty
    BY <1>1, <2>1, EmptyIsNo DEF Addresses, HAddr, CAddr
  <2>3. QED
    BY <2>2 DEF StaticClass
<1>2. CASE u \notin Addresses
  BY <1>2 DEF Twin
<1>3. QED
  BY <1>1, <1>2

\* Two slots environments on two stores, told apart by addresses alone.
Coupled(L, s, t, e, f) == Linked(L, s, t) /\ LikeSlots(L, e, f)

\* A store with nothing on its way.
Settled(s, e) == \E R, nl, nb : Good(s, e, <<>>, {}, R, nl, nb)

\* Slot by slot, coupled stores hold twins.
LEMMA SettledTwins ==
  ASSUME NEW L, NEW s, NEW t, NEW e, NEW f, Coupled(L, s, t, e, f), Settled(s, e), Settled(t, f)
  PROVE  \A x \in Slots : Twin(L, s, t, e[x], f[x])
<1>1. PICK R, nl, nb : Good(s, e, <<>>, {}, R, nl, nb)
  BY DEF Settled
<1>2. PICK R2, nl2, nb2 : Good(t, f, <<>>, {}, R2, nl2, nb2)
  BY DEF Settled
<1>3. Linked(L, s, t) /\ LikeSlots(L, e, f)
  BY DEF Coupled
<1>4. ASSUME NEW x \in Slots PROVE Twin(L, s, t, e[x], f[x])
  BY <1>1, <1>2, <1>3, SlotTwins
<1>5. QED
  BY <1>4

\* What one backend may move, the other may.
LEMMA TakesTwin ==
  ASSUME NEW L, NEW s, NEW t, NEW e, NEW f, Coupled(L, s, t, e, f), Settled(s, e), Settled(t, f),
         NEW n, NEW lits, NEW as, Takes(s, e, n, lits, as)
  PROVE  Takes(t, f, n, lits, as)
<1>1. ASSUME NEW j \in 1..n, as[j] \in Slots
      PROVE  /\ f[as[j]] # Empty /\ ~IsArena(f[as[j]], t)
             /\ f[as[j]][1] = "lit" => f[as[j]][2] \in lits
  <2>1. Twin(L, s, t, e[as[j]], f[as[j]])
    BY <1>1, SettledTwins
  <2>2. e[as[j]] # Empty /\ ~IsArena(e[as[j]], s)
        /\ (e[as[j]][1] = "lit" => e[as[j]][2] \in lits)
    BY <1>1 DEF Takes
  <2>3. IsArena(e[as[j]], s) <=> IsArena(f[as[j]], t)
    BY <2>1 DEF Twin
  <2>4. /\ e[as[j]] = Empty <=> f[as[j]] = Empty
        /\ e[as[j]][1] = "lit" <=> f[as[j]][1] = "lit"
        /\ e[as[j]][1] = "lit" => f[as[j]] = e[as[j]]
    <3>1. \A u, v : Twin(L, s, t, u, v) => (u = Empty <=> v = Empty) /\ (u[1] = "lit" <=> v[1] = "lit")
                                           /\ (u[1] = "lit" => v = u)
      BY TwinClass
    <3>2. QED
      BY <2>1, <3>1
  <2>5. QED
    BY <2>2, <2>3, <2>4
<1>2. /\ n \in Nat \ {0} /\ lits \subseteq Atoms /\ as \in [1..n -> Slots \cup lits]
      /\ \A j, h \in 1..n : j # h /\ as[j] \in Slots => as[j] # as[h]
  BY DEF Takes
<1>3. QED
  BY <1>1, <1>2 DEF Takes

\* Values on their way, in twos.
Matched(L, n, us, vs) ==
  /\ DOMAIN us = 1..n /\ DOMAIN vs = 1..n
  /\ \A j \in 1..n : Like(L, us[j], vs[j]) /\ StaticClass(us[j]) = StaticClass(vs[j])
  /\ StaticClasses(us) = StaticClasses(vs)

\* And the values they send are twins.
LEMMA MovesTwin ==
  ASSUME NEW L, NEW s, NEW t, NEW e, NEW f, Coupled(L, s, t, e, f), Settled(s, e), Settled(t, f),
         NEW n, NEW lits, NEW as, Takes(s, e, n, lits, as),
         NEW us, NEW e0, Moves(e, as, us, e0), NEW vs, NEW f0, Moves(f, as, vs, f0)
  PROVE  LikeSlots(L, e0, f0) /\ Matched(L, n, us, vs)
<1>1. us = ValuesOf(e, as) /\ e0 = Emptied(e, Moved(as)) /\ vs = ValuesOf(f, as) /\ f0 = Emptied(f, Moved(as))
  BY DEF Moves
<1>2. as \in [1..n -> Slots \cup lits] /\ lits \subseteq Atoms
  BY DEF Takes
<1>3. DOMAIN us = 1..n /\ DOMAIN vs = 1..n
  BY <1>1, <1>2 DEF ValuesOf
<1>4. ASSUME NEW j \in 1..n
      PROVE  Like(L, us[j], vs[j]) /\ StaticClass(us[j]) = StaticClass(vs[j])
  <2>1. CASE as[j] \in Slots
    <3>1. us[j] = e[as[j]] /\ vs[j] = f[as[j]]
      BY <1>1, <1>2, <2>1 DEF ValuesOf
    <3>2. Twin(L, s, t, e[as[j]], f[as[j]])
      BY <2>1, SettledTwins
    <3>3. StaticClass(e[as[j]]) = StaticClass(f[as[j]])
      <4>1. \A u, v : Twin(L, s, t, u, v) => StaticClass(u) = StaticClass(v)
        BY TwinClass
      <4>2. QED
        BY <3>2, <4>1
    <3>4. Like(L, e[as[j]], f[as[j]])
      BY <3>2 DEF Twin
    <3>5. QED
      BY <3>1, <3>3, <3>4
  <2>2. CASE as[j] \notin Slots
    <3>1. us[j] = Atom(as[j]) /\ vs[j] = Atom(as[j]) /\ as[j] \in Atoms
      BY <1>1, <1>2, <2>2 DEF ValuesOf
    <3>2. Atom(as[j]) \notin Addresses
      BY <3>1, AtomIs
    <3>3. QED
      BY <3>1, <3>2 DEF Like
  <2>3. QED
    BY <2>1, <2>2
<1>5. StaticClasses(us) = StaticClasses(vs)
  BY <1>3, <1>4 DEF StaticClasses
<1>6. ASSUME NEW x \in Slots PROVE Like(L, e0[x], f0[x])
  <2>1. CASE x \in Moved(as)
    <3>1. e0[x] = Empty /\ f0[x] = Empty
      BY <1>1, <2>1 DEF Emptied
    <3>2. QED
      BY <3>1, EmptyIsNo DEF Like
  <2>2. CASE x \notin Moved(as)
    <3>1. e0[x] = e[x] /\ f0[x] = f[x]
      BY <1>1, <2>2 DEF Emptied
    <3>2. QED
      BY <3>1 DEF Coupled, LikeSlots
  <2>3. QED
    BY <2>1, <2>2
<1>7. LikeSlots(L, e0, f0)
  BY <1>6 DEF LikeSlots
<1>8. QED
  BY <1>3, <1>4, <1>5, <1>7 DEF Matched

(* A cell made for a free slot is written there.                           *)
LEMMA MadeWritten ==
  ASSUME NEW s, NEW r, NEW e, NEW n, NEW R, NEW nl, NEW nb, Made(s, r, e, n, R, nl, nb),
         NEW x \in Slots, e[x] \notin Addresses
  PROVE  Written(s, r, e, x, n, R, nl, nb)
<1>1. /\ Good(r.s, e, <<r.a>>, {}, R, nl, nb) /\ r.a \in Addresses
      /\ Gives(s, r.s, r.a, n) /\ Clear(r.s, e, r.a) /\ SameArena(s, r.s) /\ ~IsArena(r.a, r.s)
  BY DEF Made
<1>2. ASSUME NEW e2, Elsewhere(e, e2, x), e2[x] = r.a PROVE Good(r.s, e2, <<>>, {}, R, nl, nb)
  BY <1>1, <1>2, Delivered
<1>3. QED
  BY <1>1, <1>2 DEF Written, Clear

\* Two results that land in one slot.
LEMMA LinkedWritten ==
  ASSUME NEW L, NEW s, NEW t, NEW e, NEW f, Coupled(L, s, t, e, f), NEW x \in Slots,
         NEW r, NEW m, NEW R, NEW nl, NEW nb, Written(s, r, e, x, m, R, nl, nb),
         NEW q, NEW n, NEW R2, NEW nl2, NEW nb2, Written(t, q, f, x, n, R2, nl2, nb2),
         LikeNodes(L, m, n),
         NEW e2, Elsewhere(e, e2, x), e2[x] = r.a, NEW f2, Elsewhere(f, f2, x), f2[x] = q.a
  PROVE  Coupled(Relink(L, r.a, q.a), r.s, q.s, e2, f2)
<1>1. /\ r.a \in Addresses /\ Gives(s, r.s, r.a, m) /\ SameArena(s, r.s) /\ ~IsArena(r.a, r.s)
      /\ \A y \in Slots : y # x => e[y] # r.a
      /\ \A k \in DOMAIN r.s.cells : \A j \in DOMAIN r.s.cells[k].node.fs : r.s.cells[k].node.fs[j] # r.a
  BY DEF Written
<1>2. /\ q.a \in Addresses /\ Gives(t, q.s, q.a, n) /\ SameArena(t, q.s) /\ ~IsArena(q.a, q.s)
      /\ \A y \in Slots : y # x => f[y] # q.a
      /\ \A k \in DOMAIN q.s.cells : \A j \in DOMAIN q.s.cells[k].node.fs : q.s.cells[k].node.fs[j] # q.a
  BY DEF Written
<1>3. Bears(s, r.s, r.a, m) /\ Bears(t, q.s, q.a, n)
  BY <1>1, <1>2 DEF Bears
<1>4. Linked(Relink(L, r.a, q.a), r.s, q.s)
  BY <1>1, <1>2, <1>3, LinkedMade DEF Coupled
<1>5. LikeSlots(Relink(L, r.a, q.a), e2, f2)
  BY <1>1, <1>2, SlotsBorn DEF Coupled
<1>6. QED
  BY <1>4, <1>5 DEF Coupled

-----------------------------------------------------------------------------
(* The operations on one backend, from a program's slots.                  *)

\* An operation that touches neither shells nor scopes.
LEMMA ReadyOn ==
  ASSUME NEW b, NEW s, NEW k, NEW sh, Ready(b, s, k, sh), NEW t,
         t.arena = s.arena, t.arenaC = s.arenaC, t.err = s.err, t.backend = s.backend,
         t.reserved = s.reserved,
         \A c \in Constructors : s.desc[c] # <<>> => t.desc[c] = s.desc[c]
  PROVE  Ready(b, t, k, sh)
<1>1. ASSUME sh # NoShape PROVE TokenOk(k, t, sh[1], sh[2])
  <2>1. sh[1] \in Constructors /\ TokenOk(k, s, sh[1], sh[2])
    BY <1>1 DEF Ready
  <2>2. QED
    BY <2>1 DEF TokenOk
<1>2. QED
  BY <1>1 DEF Ready

\* A result written is such.
LEMMA WrittenReady ==
  ASSUME NEW b, NEW s, NEW k, NEW sh, Ready(b, s, k, sh), NEW e, NEW x, NEW r, NEW n,
         NEW R, NEW nl, NEW nb, Written(s, r, e, x, n, R, nl, nb)
  PROVE  Ready(b, r.s, k, sh)
<1>1. SameArena(s, r.s)
  BY DEF Written
<1>2. QED
  BY <1>1, ReadyOn DEF SameArena

\* The backend after a result landed.
LEMMA StoreWritten ==
  ASSUME NEW b, NEW s, NEW k, NEW sh, Ready(b, s, k, sh), NEW e, NEW x, NEW r, NEW n,
         Written(s, r, e, x, n, Shells(k), ShellCount(k), k.bytes),
         NEW e2, Elsewhere(e, e2, x), e2[x] = r.a
  PROVE  StoreOk(b, r.s, e2, k, sh)
<1>1. Ready(b, r.s, k, sh)
  BY WrittenReady
<1>2. Good(r.s, e2, <<>>, {}, Shells(k), ShellCount(k), k.bytes)
  BY DEF Written
<1>3. QED
  BY <1>1, <1>2 DEF StoreOk

\* A constructor of storable values fits.
LEMMA ConFits ==
  ASSUME NEW c \in Constructors, NEW vs \in Seq(Storables), vs # <<>>, NEW s,
         \A j \in DOMAIN vs : ~IsArena(vs[j], s)
  PROVE  /\ Fits(Con(c, vs), s) /\ Con(c, vs).con = c /\ Con(c, vs).fs = vs
<1>1. c # "Array"
  BY StoreAssumption
<1>2. Con(c, vs) \in Nodes /\ Con(c, vs).con = c /\ Con(c, vs).fs = vs
  BY DEF Con, Nodes
<1>3. QED
  BY <1>1, <1>2 DEF Fits

\* The values of a move, with their number and their literals.
Carried(s, n, vs, lits) ==
  vs \in Seq(Storables) /\ vs # <<>> /\ DOMAIN vs = 1..n /\ Loose(s, n, vs, lits)

\* The values of a move are such values.
LEMMA SourcedCarried ==
  ASSUME NEW s, NEW e, NEW R, NEW nl, NEW nb, Good(s, e, <<>>, {}, R, nl, nb),
         NEW n, NEW lits, NEW as, Takes(s, e, n, lits, as),
         NEW vs, NEW e0, Moves(e, as, vs, e0)
  PROVE  Carried(s, n, vs, lits)
<1>1. vs \in Seq(Storables)
  BY Sourced
<1>2. DOMAIN vs = 1..n
  BY DEF Moves, Takes, ValuesOf
<1>3. vs # <<>>
  BY <1>1, <1>2 DEF Takes
<1>4. Loose(s, n, vs, lits)
  BY Sourced
<1>5. QED
  BY <1>1, <1>2, <1>3, <1>4 DEF Carried

(* let x = c as.                                                           *)
LEMMA MakeConWritten ==
  ASSUME NEW s, NEW e, NEW R, NEW nl, NEW nb, Good(s, e, <<>>, {}, R, nl, nb),
         NEW n, NEW lits, NEW as, Takes(s, e, n, lits, as),
         NEW vs, NEW e0, Moves(e, as, vs, e0), NEW c \in Constructors,
         NEW x \in Slots, e0[x] \notin Addresses
  PROVE  Written(s, Alloc(Con(c, vs), s), e0, x, Con(c, vs), R, nl, nb)
<1>1. /\ Good(s, e0, vs, {}, R, nl, nb)
      /\ vs \in Seq(Storables) /\ vs # <<>> /\ DOMAIN vs = 1..n
      /\ \A j \in 1..n : ~IsArena(vs[j], s)
  <2>1. Good(s, e0, vs, {}, R, nl, nb)
    BY Sourced
  <2>2. Carried(s, n, vs, lits)
    BY SourcedCarried
  <2>3. QED
    BY <2>1, <2>2 DEF Carried, Loose
<1>2. Fits(Con(c, vs), s) /\ Con(c, vs).fs = vs
  BY <1>1, ConFits
<1> DEFINE m == Con(c, vs)
<1>3. Good(s, e0, m.fs, {}, R, nl, nb) /\ Fits(m, s)
  BY <1>1, <1>2
<1> HIDE DEF m
<1>4. Made(s, Alloc(m, s), e0, m, R, nl, nb)
  BY <1>3, AllocMade
<1>5. Written(s, Alloc(m, s), e0, x, m, R, nl, nb)
  BY <1>4, MadeWritten
<1>6. QED
  BY <1>5 DEF m

(* The paired allocation.                                                  *)
LEMMA ReuseWritten ==
  ASSUME NEW s, NEW e, NEW k, k # NullToken,
         Good(s, e, <<>>, {}, Shells(k), ShellCount(k), k.bytes),
         NEW n, NEW lits, NEW as, Takes(s, e, n, lits, as),
         NEW vs, NEW e0, Moves(e, as, vs, e0), NEW c \in Constructors,
         TokenOk(k, s, c, StaticClasses(vs)),
         NEW x \in Slots, e0[x] \notin Addresses
  PROVE  Written([s EXCEPT !.reserved = @ \ {k.a}], AllocAt(k, Con(c, vs), s), e0, x, Con(c, vs), {}, 0, 0)
<1>1. /\ Good(s, e0, vs, {}, Shells(k), ShellCount(k), k.bytes)
      /\ vs \in Seq(Storables) /\ vs # <<>> /\ DOMAIN vs = 1..n
      /\ \A j \in 1..n : ~IsArena(vs[j], s)
  <2>1. Good(s, e0, vs, {}, Shells(k), ShellCount(k), k.bytes)
    BY Sourced
  <2>2. Carried(s, n, vs, lits)
    BY SourcedCarried
  <2>3. QED
    BY <2>1, <2>2 DEF Carried, Loose
<1>2. Fits(Con(c, vs), s) /\ Con(c, vs).fs = vs /\ Con(c, vs).con = c
  BY <1>1, ConFits
<1>3. Shells(k) = {k.a} /\ ShellCount(k) = 1
  <2>1. k.a # Empty
    BY EmptyIsNo DEF TokenOk
  <2>2. QED
    BY <2>1 DEF Shells, ShellCount
<1> DEFINE m == Con(c, vs)
           s1 == [s EXCEPT !.reserved = @ \ {k.a}]
<1>4. Good(s, e0, m.fs, {}, {k.a}, 1, k.bytes) /\ Fits(m, s) /\ m.con \in Constructors
        /\ TokenOk(k, s, m.con, StaticClasses(m.fs))
  BY <1>1, <1>2, <1>3
<1> HIDE DEF m
<1>5. Made(s1, AllocAt(k, m, s), e0, m, {}, 0, 0)
  BY <1>4, AllocAtMade
<1> HIDE DEF s1
<1>6. Written(s1, AllocAt(k, m, s), e0, x, m, {}, 0, 0)
  BY <1>5, MadeWritten
<1>7. QED
  BY <1>6 DEF m, s1

(* Array.new.                                                              *)
LEMMA ArrayNewWritten ==
  ASSUME NEW s, NEW e, NEW R, NEW nl, NEW nb, Good(s, e, <<>>, {}, R, nl, nb),
         NEW lits, "big" \notin lits, NEW as, Takes(s, e, 1, lits, as),
         NEW vs, NEW e0, Moves(e, as, vs, e0),
         NEW v, v = vs[1], NEW x \in Slots, e0[x] \notin Addresses
  PROVE  /\ Recounted(s, Incref(v, s))
         /\ Written(Incref(v, s), Alloc(Array(<<v, v>>), Incref(v, s)), e0, x, Array(<<v, v>>), R, nl, nb)
<1>1. Good(s, e0, vs, {}, R, nl, nb)
  BY Sourced
<1>2. Carried(s, 1, vs, lits)
  BY SourcedCarried
<1>3. /\ vs \in Seq(Storables) /\ DOMAIN vs = 1..1 /\ ~IsArena(v, s) /\ v \in Storables
      /\ v[1] = "lit" => v[2] # "big"
  BY <1>2 DEF Carried, Loose
<1>4. v \in Anything /\ vs \in Seq(Anything)
  BY <1>3 DEF Anything
<1>5. v \in Addresses => v \in DOMAIN s.cells
  BY <1>1, <1>3, Referenced
<1>6. Good(Incref(v, s), e0, <<v>> \o vs, {}, R, nl, nb) /\ Recounted(s, Incref(v, s))
  <2>1. Good(Incref(v, s), e0, <<v>> \o vs, {}, R, nl, nb)
    BY <1>1, <1>4, <1>5, IncrefGood
  <2>2. Recounted(s, Incref(v, s))
    BY <1>1, <1>4, <1>5, IncrefGood
  <2>3. QED
    BY <2>1, <2>2
<1> DEFINE s1 == Incref(v, s)
           w  == <<v>> \o vs
           w2 == <<v, v>>
           m  == Array(w2)
<1>7. w2 \in Seq(Anything) /\ w2 \in Seq(Storables) /\ w2 # <<>> /\ Len(w2) = 2 /\ DOMAIN w2 = 1..2
        /\ w2[1] = v /\ w2[2] = v
  BY <1>3, <1>4
<1>8. e0 \in [Slots -> Anything]
  BY <1>1 DEF Good, Holding
<1>9. \A a \in Addresses : Occ(e0, a) + Occ(w2, a) = Occ(e0, a) + Occ(w, a)
  <2>1. vs = <<v>>
    BY <1>3
  <2>2. ASSUME NEW a \in Addresses PROVE Occ(w2, a) = Occ(w, a)
    <3>1. Occ(w2, a) = Occ(<<v>>, a) + Occ(<<v>>, a)
      BY OccTwo
    <3>2. Occ(w, a) = (IF v = a THEN 1 ELSE 0) + Occ(vs, a)
      BY <1>4, OccPush
    <3>3. Occ(<<v>>, a) = IF v = a THEN 1 ELSE 0
      BY OccOne
    <3>4. QED
      BY <2>1, <3>1, <3>2, <3>3
  <2>3. QED
    BY <2>2
<1>10. Good(s1, e0, w, {}, R, nl, nb)
  BY <1>6
<1>11. m.fs = w2 /\ m.con = "Array" /\ m \in Nodes
  BY <1>7 DEF Array, Nodes
<1>12. ~IsArena(v, s1)
  BY <1>3, <1>6, ArenaSame DEF Recounted, SameFrame
<1>13. SlotKind(v) # "none"
  BY <1>3 DEF SlotKind, Storables, Literals, Addresses, HAddr, CAddr, Lit, Inline
<1>14. Fits(m, s1)
  <2>1. Encodable(w2) /\ SlotKind(w2[1]) = SlotKind(w2[2])
    BY <1>7, <1>13 DEF Encodable
  <2>2. \A j \in DOMAIN w2 : ~IsArena(w2[j], s1)
    BY <1>7, <1>12
  <2> HIDE DEF w2, s1, m
  <2>3. QED
    BY <1>7, <1>11, <2>1, <2>2 DEF Fits
<1> HIDE DEF s1, w, w2
<1>15. Good(s1, e0, w2, {}, R, nl, nb)
  BY <1>7, <1>8, <1>9, <1>10, Rehold
<1> HIDE DEF m
<1>16. Good(s1, e0, m.fs, {}, R, nl, nb)
  BY <1>11, <1>15
<1>17. Made(s1, Alloc(m, s1), e0, m, R, nl, nb)
  BY <1>14, <1>16, AllocMade
<1>18. Written(s1, Alloc(m, s1), e0, x, m, R, nl, nb)
  BY <1>17, MadeWritten
<1>19. QED
  BY <1>6, <1>18 DEF m, w2, s1

(* Array.set.                                                              *)
LEMMA ArraySetWritten ==
  ASSUME NEW s, NEW e, NEW R, NEW nl, NEW nb, Good(s, e, <<>>, {}, R, nl, nb), s.err = "none",
         NEW lits, "big" \notin lits, NEW as, Takes(s, e, 1, lits, as),
         NEW vs, NEW e0, Moves(e, as, vs, e0),
         NEW x \in Slots, as[1] # x, NEW a \in DOMAIN s.cells, e[x] = a,
         s.cells[a].node.con = "Array", NEW i \in 1..2,
         StaticClass(vs[1]) = StaticClass(s.cells[a].node.fs[1])
  PROVE  Written(s, SetElement(a, i, vs[1], s), e0, x, Array([s.cells[a].node.fs EXCEPT ![i] = vs[1]]), R, nl, nb)
<1>1. Good(s, e0, vs, {}, R, nl, nb)
  BY Sourced
<1>2. Carried(s, 1, vs, lits)
  BY SourcedCarried
<1>3. PICK v : v = vs[1]
  OBVIOUS
<1>4. /\ vs \in Seq(Storables) /\ DOMAIN vs = 1..1 /\ ~IsArena(v, s) /\ v \in Storables
      /\ v[1] = "lit" => v[2] # "big"
  BY <1>2, <1>3 DEF Carried, Loose
<1>5. Good(s, e0, <<v>>, {}, R, nl, nb)
  <2>1. vs = <<v>>
    BY <1>3, <1>4
  <2>2. QED
    BY <1>1, <2>1
<1>6. e0[x] = a
  <2>1. DOMAIN as = 1..1
    BY DEF Takes
  <2>2. x \notin Moved(as)
    <3>1. \A j \in 1..1 : j = 1
      OBVIOUS
    <3>2. \A j \in DOMAIN as : as[j] # x
      BY <2>1, <3>1
    <3>3. QED
      BY <3>2 DEF Moved
  <2>3. QED
    BY <2>2 DEF Moves, Emptied
<1>7. SlotKind(v) = SlotKind(s.cells[a].node.fs[1])
  <2>1. v # Lit("big")
    BY <1>4 DEF Lit
  <2>2. SlotKind(v) = ClassKind(StaticClass(v))
    BY <1>4, <2>1, KindIs
  <2>3. PICK u : u = s.cells[a].node.fs[1]
    OBVIOUS
  <2>4. u \in Storables /\ SlotKind(u) # "none"
    <3>1. Shape(s)
      BY DEF Good
    <3>2. CellOk(a, s) /\ s.cells[a].node.fs \in Seq(Storables)
      BY <3>1, ShapePlain DEF Shape
    <3>3. Len(s.cells[a].node.fs) = 2 /\ Encodable(s.cells[a].node.fs)
      BY <3>2 DEF CellOk
    <3>4. QED
      BY <2>3, <3>2, <3>3 DEF Encodable
  <2>5. SlotKind(u) = ClassKind(StaticClass(u))
    BY <2>4, KindIs
  <2>6. QED
    BY <1>3, <2>2, <2>3, <2>5
<1>8. Written(s, SetElement(a, i, v, s), e0, x, Array([s.cells[a].node.fs EXCEPT ![i] = v]), R, nl, nb)
  BY <1>4, <1>5, <1>6, <1>7, SetElementGood
<1>9. QED
  BY <1>3, <1>8

(* An arena constructor.                                                   *)
LEMMA MakeArenaMade ==
  ASSUME NEW s, NEW e, NEW R, NEW nl, NEW nb, Good(s, e, <<>>, {}, R, nl, nb),
         NEW n, NEW lits, NEW as, Takes(s, e, n, lits, as),
         NEW vs, NEW e0, Moves(e, as, vs, e0), NEW c \in Constructors,
         s.arena # <<>>, Len(s.arena) = Len(s.arenaC)
  PROVE  ArenaMade(s, ArenaAlloc(Con(c, vs), s), e0, Con(c, vs), R, nl, nb)
<1>1. Good(s, e0, vs, {}, R, nl, nb)
  BY Sourced
<1>2. Carried(s, n, vs, lits)
  BY SourcedCarried
<1>3. Fits(Con(c, vs), s) /\ Con(c, vs).fs = vs /\ Con(c, vs).con = c
  BY <1>2, ConFits DEF Carried, Loose
<1> DEFINE m == Con(c, vs)
<1>4. Good(s, e0, m.fs, {}, R, nl, nb) /\ Fits(m, s) /\ m.con \in Constructors
  BY <1>1, <1>3
<1> HIDE DEF m
<1>5. ArenaMade(s, ArenaAlloc(m, s), e0, m, R, nl, nb)
  BY <1>4, ArenaAllocMade
<1>6. QED
  BY <1>5 DEF m

\* The backend after an arena cell landed in a slot.
LEMMA ArenaLands ==
  ASSUME NEW b, NEW s, NEW k, NEW sh, Ready(b, s, k, sh), FramesOk(s), NEW e, NEW r, NEW n,
         ArenaMade(s, r, e, n, Shells(k), ShellCount(k), k.bytes),
         NEW x \in Slots, e[x] \notin Addresses, NEW e2, Elsewhere(e, e2, x), e2[x] = r.a
  PROVE  StoreOk(b, r.s, e2, k, sh)
<1>1. Good(r.s, e, <<r.a>>, {}, Shells(k), ShellCount(k), k.bytes)
  BY DEF ArenaMade
<1>2. Good(r.s, e2, <<>>, {}, Shells(k), ShellCount(k), k.bytes)
  BY <1>1, Delivered
<1>3. /\ r.s.err = s.err /\ r.s.backend = s.backend /\ r.s.reserved = s.reserved
      /\ \A c \in Constructors : s.desc[c] # <<>> => r.s.desc[c] = s.desc[c]
      /\ InnerBorn(s, r.s, r.a)
  BY DEF ArenaMade
<1>4. s.arena \in Seq(SUBSET DOMAIN s.cells) /\ s.arenaC \in Seq(SUBSET DOMAIN s.cells)
  BY DEF FramesOk, HalfOk
<1>5. Len(r.s.arena) = Len(s.arena) /\ Len(r.s.arenaC) = Len(s.arenaC)
  BY <1>3, <1>4 DEF InnerBorn
<1>6. s.backend = "abs" => r.s.arenaC = s.arenaC
  BY <1>3 DEF InnerBorn
<1>7. ASSUME sh # NoShape PROVE TokenOk(k, r.s, sh[1], sh[2])
  <2>1. sh[1] \in Constructors /\ TokenOk(k, s, sh[1], sh[2])
    BY <1>7 DEF Ready
  <2>2. QED
    BY <1>3, <2>1 DEF TokenOk
<1>8. Ready(b, r.s, k, sh)
  BY <1>3, <1>5, <1>6, <1>7 DEF Ready
<1>9. QED
  BY <1>2, <1>8 DEF StoreOk

\* Two that land in one slot.
LEMMA LinkedArenaLands ==
  ASSUME NEW L, NEW s, NEW t, NEW e, NEW f, Coupled(L, s, t, e, f), NEW x \in Slots,
         NEW r, NEW m, NEW R, NEW nl, NEW nb, ArenaMade(s, r, e, m, R, nl, nb),
         NEW q, NEW n, NEW R2, NEW nl2, NEW nb2, ArenaMade(t, q, f, n, R2, nl2, nb2),
         LikeNodes(L, m, n), 1 \in DOMAIN s.arena,
         NEW e2, Elsewhere(e, e2, x), e2[x] = r.a, NEW f2, Elsewhere(f, f2, x), f2[x] = q.a
  PROVE  Coupled(Relink(L, r.a, q.a), r.s, q.s, e2, f2)
<1>1. /\ r.a \in Addresses /\ Gives(s, r.s, r.a, m) /\ Clear(r.s, e, r.a) /\ InnerBorn(s, r.s, r.a)
      /\ FramesOk(r.s)
  BY DEF ArenaMade, Good
<1>2. /\ q.a \in Addresses /\ Gives(t, q.s, q.a, n) /\ Clear(q.s, f, q.a) /\ InnerBorn(t, q.s, q.a)
      /\ FramesOk(q.s)
  BY DEF ArenaMade, Good
<1>3. Bears(s, r.s, r.a, m) /\ Bears(t, q.s, q.a, n)
  BY <1>1, <1>2 DEF Bears, Clear
<1>4. Linked(Relink(L, r.a, q.a), r.s, q.s)
  BY <1>1, <1>2, <1>3, LinkedArenaMade DEF Coupled
<1>5. LikeSlots(Relink(L, r.a, q.a), e2, f2)
  BY <1>1, <1>2, SlotsBorn DEF Coupled, Clear
<1>6. QED
  BY <1>4, <1>5 DEF Coupled

(* A scope opened.                                                         *)
LEMMA OpenOk ==
  ASSUME NEW b, NEW s, NEW e, NEW k, NEW sh, StoreOk(b, s, e, k, sh)
  PROVE  StoreOk(b, ArenaOpen(s), e, k, sh) /\ Opened(s, ArenaOpen(s))
<1> DEFINE t == ArenaOpen(s)
<1>1. Good(s, e, <<>>, {}, Shells(k), ShellCount(k), k.bytes) /\ Ready(b, s, k, sh)
  BY DEF StoreOk
<1>2. Good(t, e, <<>>, {}, Shells(k), ShellCount(k), k.bytes) /\ Opened(s, t)
  BY <1>1, ArenaOpenGood
<1> HIDE DEF t
<1>3. s.arena \in Seq(SUBSET DOMAIN s.cells) /\ s.arenaC \in Seq(SUBSET DOMAIN s.cells)
  BY <1>1 DEF Good, FramesOk, HalfOk
<1>4. HalfOk(s.arenaC, "C", s)
  BY <1>1 DEF Good, FramesOk
<1>5. Len(t.arena) = Len(t.arenaC)
  <2>1. t.arena = <<{}>> \o s.arena /\ t.arenaC = <<{}>> \o s.arenaC
    BY <1>2 DEF Opened
  <2>2. Len(s.arena) = Len(s.arenaC)
    BY <1>1 DEF Ready
  <2>3. QED
    BY <1>3, <2>1, <2>2
<1>6. b = "abs" => \A j \in DOMAIN t.arenaC : t.arenaC[j] = {}
  <2>1. Pushed(s.arenaC, t.arenaC)
    BY <1>2, <1>4, PushedIs DEF Opened
  <2>2. QED
    BY <1>1, <2>1 DEF Pushed, Ready
<1>7. t.reserved = s.reserved /\ t.err = s.err /\ t.backend = s.backend /\ t.desc = s.desc
  BY <1>2 DEF Opened
<1>8. Ready(b, t, k, sh)
  BY <1>1, <1>5, <1>6, <1>7 DEF Ready, TokenOk
<1>9. QED
  BY <1>2, <1>8 DEF StoreOk, t

\* Both backends open it.
LEMMA OpenCoupled ==
  ASSUME NEW L, NEW s, NEW t, NEW e, NEW f, Coupled(L, s, t, e, f), FramesOk(s), FramesOk(t),
         NEW s2, Opened(s, s2), NEW t2, Opened(t, t2)
  PROVE  Coupled(L, s2, t2, e, f)
<1>1. /\ Pushed(s.arena, s2.arena) /\ Pushed(s.arenaC, s2.arenaC)
      /\ Pushed(t.arena, t2.arena) /\ Pushed(t.arenaC, t2.arenaC)
  BY PushedIs DEF Opened, FramesOk
<1>2. s2.cells = s.cells /\ t2.cells = t.cells
  BY DEF Opened
<1>3. Linked(L, s2, t2)
  BY <1>1, <1>2, LinkedOpen DEF Coupled
<1>4. QED
  BY <1>3 DEF Coupled

\* The names of a scope's cells go out of scope with it.
Leaves(s, e, e2) ==
  /\ e2 \in [Slots -> Anything]
  /\ \A x \in Slots : e2[x] = e[x] \/ (e2[x] = Empty /\ IsArena(e[x], s))
  /\ \A x \in Slots : e2[x] \notin Head(s.arena) /\ e2[x] \notin Head(s.arenaC)

(* A scope closed.                                                         *)
LEMMA CloseOk ==
  ASSUME NEW b, NEW s, NEW e, NEW k, NEW sh, StoreOk(b, s, e, k, sh), s.arena # <<>>,
         NEW e2, Leaves(s, e, e2)
  PROVE  StoreOk(b, ArenaClose(s), e2, k, sh) /\ Closed(s, ArenaClose(s)) /\ s.arenaC # <<>>
<1> DEFINE t == ArenaClose(s)
<1>1. Good(s, e, <<>>, {}, Shells(k), ShellCount(k), k.bytes) /\ Ready(b, s, k, sh)
  BY DEF StoreOk
<1>2. s.arena \in Seq(SUBSET DOMAIN s.cells) /\ s.arenaC \in Seq(SUBSET DOMAIN s.cells)
  BY <1>1 DEF Good, FramesOk, HalfOk
<1>3. s.arenaC # <<>>
  <2>1. Len(s.arena) = Len(s.arenaC) /\ Len(s.arena) # 0
    BY <1>1, <1>2 DEF Ready
  <2>2. QED
    BY <1>2, <2>1
<1>4. Good(s, e2, <<>>, {}, Shells(k), ShellCount(k), k.bytes)
  <2>1. \A x \in Slots : e2[x] = e[x]
          \/ ((e[x] \in Addresses => IsArena(e[x], s)) /\ (e2[x] \in Addresses => IsArena(e2[x], s)))
    BY EmptyIsNo DEF Leaves
  <2>2. e2 \in [Slots -> Anything]
    BY DEF Leaves
  <2>3. QED
    BY <1>1, <2>1, <2>2, Forget
<1>5. \A x \in Slots : e2[x] \notin Head(s.arena) /\ e2[x] \notin Head(s.arenaC)
  BY DEF Leaves
<1>6. Good(t, e2, <<>>, {}, Shells(k), ShellCount(k), k.bytes) /\ Closed(s, t)
  <2>1. s.err = "none"
    BY <1>1 DEF Ready
  <2>2. QED
    BY <1>3, <1>4, <1>5, <2>1, ArenaCloseGood
<1> HIDE DEF t
<1>7. /\ t.arena = Tail(s.arena) /\ t.arenaC = Tail(s.arenaC)
      /\ t.err = s.err /\ t.backend = s.backend /\ t.reserved = s.reserved /\ t.desc = s.desc
  BY <1>6 DEF Closed, HalfClosed
<1>8. Len(t.arena) = Len(t.arenaC)
  <2>1. Len(s.arena) = Len(s.arenaC)
    BY <1>1 DEF Ready
  <2>2. QED
    BY <1>2, <1>3, <1>7, <2>1
<1>9. b = "abs" => \A j \in DOMAIN t.arenaC : t.arenaC[j] = {}
  <2>1. \A j \in DOMAIN Tail(s.arenaC) : j + 1 \in DOMAIN s.arenaC /\ Tail(s.arenaC)[j] = s.arenaC[j + 1]
    BY <1>2, <1>3
  <2>2. QED
    BY <1>1, <1>7, <2>1 DEF Ready
<1>10. Ready(b, t, k, sh)
  BY <1>1, <1>7, <1>8, <1>9 DEF Ready, TokenOk
<1>11. QED
  BY <1>3, <1>6, <1>10 DEF StoreOk, t

\* Both backends close it.
LEMMA CloseCoupled ==
  ASSUME NEW L, NEW s, NEW t, NEW e, NEW f, Coupled(L, s, t, e, f), FramesOk(s), FramesOk(t),
         s.arena # <<>>, s.arenaC # <<>>, t.arena # <<>>, t.arenaC # <<>>,
         NEW s2, Closed(s, s2), NEW t2, Closed(t, t2), NEW e2, NEW f2, LikeSlots(L, e2, f2)
  PROVE  Coupled(L, s2, t2, e2, f2)
<1>1. /\ Popped(s.arena, s2.arena) /\ Popped(s.arenaC, s2.arenaC)
      /\ Popped(t.arena, t2.arena) /\ Popped(t.arenaC, t2.arenaC)
  BY PoppedIs DEF Closed, FramesOk
<1>2. HalfClosed(s, s2) /\ HalfClosed(t, t2)
  BY DEF Closed
<1>3. Linked(L, s2, t2)
  BY <1>1, <1>2, LinkedClose DEF Coupled
<1>4. QED
  BY <1>3 DEF Coupled

(* The names that go are the same on both backends.                        *)
Closing(s, e, f, f2) == f2 = [x \in Slots |-> IF e[x] \in Head(s.arena) THEN Empty ELSE f[x]]

\* So no slot of either refers to the scope any more.
LEMMA ClosingLeaves ==
  ASSUME NEW L, NEW s, NEW t, NEW e, NEW f, Coupled(L, s, t, e, f),
         NEW k, NEW q, NEW sh, StoreOk("abs", s, e, k, sh), StoreOk("c", t, f, q, sh), s.arena # <<>>,
         NEW e2, Closing(s, e, e, e2), NEW f2, Closing(s, e, f, f2)
  PROVE  /\ Leaves(s, e, e2) /\ Leaves(t, f, f2) /\ LikeSlots(L, e2, f2)
         /\ t.arena # <<>>
<1>1. /\ Good(s, e, <<>>, {}, Shells(k), ShellCount(k), k.bytes) /\ Ready("abs", s, k, sh)
      /\ Good(t, f, <<>>, {}, Shells(q), ShellCount(q), q.bytes) /\ Ready("c", t, q, sh)
  BY DEF StoreOk
<1>2. \A x \in Slots : Twin(L, s, t, e[x], f[x])
  BY <1>1, SettledTwins DEF Settled
<1>3. /\ s.arena \in Seq(SUBSET DOMAIN s.cells) /\ s.arenaC \in Seq(SUBSET DOMAIN s.cells)
      /\ t.arena \in Seq(SUBSET DOMAIN t.cells) /\ t.arenaC \in Seq(SUBSET DOMAIN t.cells)
      /\ e \in [Slots -> Anything] /\ f \in [Slots -> Anything] /\ Shape(s) /\ FramesOk(s)
      /\ Shape(t) /\ FramesOk(t)
  BY <1>1 DEF Good, FramesOk, HalfOk, Holding
<1>4. DOMAIN s.arenaC = DOMAIN s.arena /\ DOMAIN t.arena = DOMAIN s.arena /\ DOMAIN t.arenaC = DOMAIN s.arena
  BY DEF Coupled, Linked, Aligned
<1>5. /\ 1 \in DOMAIN s.arena /\ Head(s.arena) = s.arena[1] /\ t.arena # <<>> /\ t.arenaC # <<>>
      /\ Head(t.arena) = t.arena[1] /\ Head(t.arenaC) = t.arenaC[1] /\ s.arenaC # <<>>
      /\ Head(s.arenaC) = s.arenaC[1]
  <2>1. 1 \in DOMAIN s.arena /\ Head(s.arena) = s.arena[1]
    BY <1>3
  <2>2. t.arena # <<>> /\ t.arenaC # <<>> /\ s.arenaC # <<>>
    BY <1>4, <2>1
  <2>3. QED
    BY <1>3, <2>1, <2>2
<1>6. Head(s.arenaC) = {}
  BY <1>1, <1>4, <1>5 DEF Ready
<1>7. /\ \A a : a \in Head(s.arena) => IsArena(a, s)
      /\ \A a : a \in Head(t.arena) \cup Head(t.arenaC) => IsArena(a, t)
  BY <1>4, <1>5 DEF IsArena, InFrames
<1>8. ASSUME NEW x \in Slots
      PROVE  /\ e[x] \in Head(s.arena) <=> f[x] \in Head(t.arena) \cup Head(t.arenaC)
             /\ e[x] \in Head(s.arena) => IsArena(e[x], s) /\ IsArena(f[x], t)
  <2>1. Twin(L, s, t, e[x], f[x])
    BY <1>2
  <2>2. CASE e[x] \in Addresses
    <3>1. PairOk(L, s, t, e[x], f[x])
      BY <2>1, <2>2 DEF Twin
    <3>2. e[x] \in Level(s, 1) <=> f[x] \in Level(t, 1)
      BY <1>5, <3>1 DEF PairOk
    <3>3. e[x] \in Level(s, 1) <=> e[x] \in Head(s.arena)
      BY <1>5, <1>6 DEF Level
    <3>4. f[x] \in Level(t, 1) <=> f[x] \in Head(t.arena) \cup Head(t.arenaC)
      BY <1>5 DEF Level
    <3>5. QED
      BY <1>7, <3>2, <3>3, <3>4
  <2>3. CASE e[x] \notin Addresses
    <3>1. f[x] \notin Addresses
      BY <2>1, <2>3 DEF Twin
    <3>2. ~IsArena(e[x], s) /\ ~IsArena(f[x], t)
      BY <1>3, <2>3, <3>1, ArenaAddress
    <3>3. QED
      BY <1>7, <3>2
  <2>4. QED
    BY <2>2, <2>3
<1>9. ~(Empty \in Head(s.arena)) /\ ~(Empty \in Head(t.arena)) /\ ~(Empty \in Head(t.arenaC))
  <2>1. ~IsArena(Empty, s) /\ ~IsArena(Empty, t)
    BY <1>3, ArenaAddress, EmptyIsNo
  <2>2. QED
    BY <1>7, <2>1
<1>10. Empty \in Anything
  BY DEF Anything
<1>11. Leaves(s, e, e2)
  <2>1. e2 = [x \in Slots |-> IF e[x] \in Head(s.arena) THEN Empty ELSE e[x]]
    BY DEF Closing
  <2>2. e2 \in [Slots -> Anything]
    BY <1>3, <1>10, <2>1
  <2>3. ASSUME NEW x \in Slots
        PROVE  /\ e2[x] = e[x] \/ (e2[x] = Empty /\ IsArena(e[x], s))
               /\ e2[x] \notin Head(s.arena) /\ e2[x] \notin Head(s.arenaC)
    <3>1. CASE e[x] \in Head(s.arena)
      <4>1. e2[x] = Empty /\ IsArena(e[x], s)
        BY <1>8, <2>1, <3>1
      <4>2. QED
        BY <1>6, <1>9, <4>1
    <3>2. CASE e[x] \notin Head(s.arena)
      <4>1. e2[x] = e[x]
        BY <2>1, <3>2
      <4>2. e[x] \notin Head(s.arena) /\ e[x] \notin Head(s.arenaC)
        BY <1>6, <3>2
      <4>3. e2[x] \notin Head(s.arena) /\ e2[x] \notin Head(s.arenaC)
        BY <4>1, <4>2
      <4>4. QED
        BY <4>1, <4>3
    <3>3. QED
      BY <3>1, <3>2
  <2>4. QED
    BY <2>2, <2>3 DEF Leaves
<1>12. Leaves(t, f, f2)
  <2>1. f2 = [x \in Slots |-> IF e[x] \in Head(s.arena) THEN Empty ELSE f[x]]
    BY DEF Closing
  <2>2. f2 \in [Slots -> Anything]
    BY <1>3, <1>10, <2>1
  <2>3. ASSUME NEW x \in Slots
        PROVE  /\ f2[x] = f[x] \/ (f2[x] = Empty /\ IsArena(f[x], t))
               /\ f2[x] \notin Head(t.arena) /\ f2[x] \notin Head(t.arenaC)
    <3>1. CASE e[x] \in Head(s.arena)
      <4>1. f2[x] = Empty /\ IsArena(f[x], t)
        BY <1>8, <2>1, <3>1
      <4>2. QED
        BY <1>6, <1>9, <4>1
    <3>2. CASE e[x] \notin Head(s.arena)
      <4>1. f2[x] = f[x]
        BY <2>1, <3>2
      <4>2. f[x] \notin Head(t.arena) /\ f[x] \notin Head(t.arenaC)
        BY <1>8, <3>2
      <4>3. f2[x] \notin Head(t.arena) /\ f2[x] \notin Head(t.arenaC)
        BY <4>1, <4>2
      <4>4. QED
        BY <4>1, <4>3
    <3>3. QED
      BY <3>1, <3>2
  <2>4. QED
    BY <2>2, <2>3 DEF Leaves
<1>13. LikeSlots(L, e2, f2)
  <2>1. ASSUME NEW x \in Slots PROVE Like(L, e2[x], f2[x])
    <3>1. CASE e[x] \in Head(s.arena)
      <4>1. e2[x] = Empty /\ f2[x] = Empty
        BY <3>1 DEF Closing
      <4>2. QED
        BY <4>1, EmptyIsNo DEF Like
    <3>2. CASE e[x] \notin Head(s.arena)
      <4>1. e2[x] = e[x] /\ f2[x] = f[x]
        BY <3>2 DEF Closing
      <4>2. QED
        BY <4>1 DEF Coupled, LikeSlots
    <3>3. QED
      BY <3>1, <3>2
  <2>2. QED
    BY <2>1 DEF LikeSlots
<1>14. QED
  BY <1>5, <1>11, <1>12, <1>13

\* A slot gets a value alike, and nothing else changes.
LEMMA CoupledKeeps ==
  ASSUME NEW L, NEW s, NEW t, NEW e, NEW f, Coupled(L, s, t, e, f),
         NEW s2, Keeps(s, s2), NEW t2, Keeps(t, t2), NEW x \in Slots,
         NEW e2, Elsewhere(e, e2, x), NEW f2, Elsewhere(f, f2, x), Like(L, e2[x], f2[x])
  PROVE  Coupled(L, s2, t2, e2, f2)
<1>1. Linked(L, s2, t2)
  BY LinkedKeeps DEF Coupled
<1>2. \A y \in Slots : Like(L, e2[y], f2[y])
  BY DEF Coupled, LikeSlots, Elsewhere
<1>3. QED
  BY <1>1, <1>2 DEF Coupled, LikeSlots

(* A second reference, into a free slot.                                   *)
LEMMA SharedOk ==
  ASSUME NEW b, NEW s, NEW e, NEW k, NEW sh, StoreOk(b, s, e, k, sh),
         NEW v \in Anything, v \in Addresses => v \in DOMAIN s.cells,
         NEW y \in Slots, e[y] = Empty, NEW e2, Elsewhere(e, e2, y), e2[y] = v
  PROVE  StoreOk(b, Incref(v, s), e2, k, sh) /\ Keeps(s, Incref(v, s))
<1> DEFINE t == Incref(v, s)
           w == <<>>
<1>1. Good(s, e, w, {}, Shells(k), ShellCount(k), k.bytes) /\ Ready(b, s, k, sh)
  BY DEF StoreOk
<1>2. <<v>> \o w = <<v>>
  OBVIOUS
<1> HIDE DEF w
<1>3. Good(t, e, <<v>> \o w, {}, Shells(k), ShellCount(k), k.bytes)
  BY <1>1, IncrefGood
<1>4. Recounted(s, t)
  BY <1>1, IncrefGood
<1> HIDE DEF t
<1>5. Good(t, e, <<v>>, {}, Shells(k), ShellCount(k), k.bytes)
  BY <1>2, <1>3
<1>6. e[y] \notin Addresses
  BY EmptyIsNo
<1>7. Good(t, e2, <<>>, {}, Shells(k), ShellCount(k), k.bytes)
  BY <1>5, <1>6, Delivered
<1>8. /\ t.arena = s.arena /\ t.arenaC = s.arenaC /\ t.err = s.err /\ t.backend = s.backend
      /\ t.reserved = s.reserved /\ t.desc = s.desc
  BY <1>4 DEF Recounted, SameFrame
<1>9. Ready(b, t, k, sh)
  BY <1>1, <1>8, ReadyOn
<1>10. Keeps(s, t)
  BY <1>4, RecountKeeps
<1>11. QED
  BY <1>7, <1>9, <1>10 DEF StoreOk, t

(* A slot dropped.                                                         *)
LEMMA DroppedOk ==
  ASSUME NEW b, NEW s, NEW e, NEW k, NEW sh, StoreOk(b, s, e, k, sh),
         NEW x \in Slots, NEW a, e[x] = a, NEW e2, Elsewhere(e, e2, x), e2[x] = Empty
  PROVE  StoreOk(b, DropAddr(a, s), e2, k, sh) /\ Keeps(s, DropAddr(a, s))
<1> DEFINE t == DropAddr(a, s)
<1>1. Good(s, e, <<>>, {}, Shells(k), ShellCount(k), k.bytes) /\ Ready(b, s, k, sh)
  BY DEF StoreOk
<1>2. Good(s, e2, <<a>>, {}, Shells(k), ShellCount(k), k.bytes)
  BY <1>1, Given
<1>3. s.err = "none"
  BY <1>1 DEF Ready
<1>4. Good(t, e2, <<>>, {}, Shells(k), ShellCount(k), k.bytes)
  BY <1>2, <1>3, DropAddrGood
<1>5. Thins(s, t) /\ t.reserved = s.reserved
  BY <1>2, <1>3, DropAddrGood
<1> HIDE DEF t
<1>6. Ready(b, t, k, sh)
  BY <1>1, <1>5, ReadyOn DEF Thins
<1>7. Keeps(s, t)
  BY <1>5, ThinsKeeps
<1>8. QED
  BY <1>4, <1>6, <1>7 DEF StoreOk, t

(* A slot donated.                                                         *)
Shows(s, a, sh) ==
  /\ sh # NoShape /\ sh[1] = s.cells[a].node.con
  /\ sh[2] = StaticClasses(s.cells[a].node.fs)

LEMMA DonatedOk ==
  ASSUME NEW b, NEW s, NEW e, NEW k, NEW sh, StoreOk(b, s, e, k, sh), sh = NoShape,
         NEW x \in Slots, NEW a \in DOMAIN s.cells, e[x] = a, s.cells[a].node.con \in Constructors,
         NEW e2, Elsewhere(e, e2, x), e2[x] = Empty, NEW sh2, Shows(s, a, sh2)
  PROVE  /\ StoreOk(b, DropReuse(a, s).s, e2, DropReuse(a, s).tok, sh2)
         /\ Keeps(s, DropReuse(a, s).s)
<1> DEFINE r == DropReuse(a, s)
<1>1. Good(s, e, <<>>, {}, Shells(k), ShellCount(k), k.bytes) /\ Ready(b, s, k, sh)
  BY DEF StoreOk
<1>2. k = NullToken
  BY <1>1 DEF Ready
<1>3. Shells(k) = {} /\ ShellCount(k) = 0 /\ k.bytes = 0
  BY <1>2 DEF Shells, ShellCount, NullToken
<1>4. Good(s, e, <<>>, {}, {}, 0, 0)
  BY <1>1, <1>3
<1>5. Good(s, e2, <<a>>, {}, {}, 0, 0) /\ a \in Anything
  BY <1>4, Given
<1>6. s.err = "none"
  BY <1>1 DEF Ready
<1>7. Donated(s, e2, a, r)
  BY <1>5, <1>6, DropReuseGood
<1> HIDE DEF r
<1>8. Good(r.s, e2, <<>>, {}, Shells(r.tok), ShellCount(r.tok), r.tok.bytes)
  <2>1. CASE r.tok = NullToken
    <3>1. Good(r.s, e2, <<>>, {}, {r.tok.a} \ {Empty}, 0, r.tok.bytes)
      BY <1>7, <2>1 DEF Donated
    <3>2. QED
      BY <2>1, <3>1 DEF Shells, ShellCount
  <2>2. CASE r.tok # NullToken
    <3>1. Good(r.s, e2, <<>>, {}, {r.tok.a} \ {Empty}, 1, r.tok.bytes)
      BY <1>7, <2>2 DEF Donated
    <3>2. QED
      BY <2>2, <3>1 DEF Shells, ShellCount
  <2>3. QED
    BY <2>1, <2>2
<1>9. Thins(s, r.s) /\ r.s.reserved = Shells(r.tok)
  BY <1>1, <1>3, <1>7 DEF Donated, Ready, Shells
<1>10. Len(sh2[2]) \in Nat \ {0} /\ sh2[1] \in Constructors
  <2>1. Shape(s)
    BY <1>1 DEF Good
  <2>2. s.cells[a].node.fs \in Seq(Storables) /\ s.cells[a].node.fs # <<>>
    BY <2>1, ShapePlain DEF Shape, CellOk
  <2>3. sh2[2] = [j \in DOMAIN s.cells[a].node.fs |-> StaticClass(s.cells[a].node.fs[j])]
    BY DEF Shows, StaticClasses
  <2>4. Len(sh2[2]) = Len(s.cells[a].node.fs)
    BY <2>2, <2>3
  <2>5. QED
    BY <2>2, <2>4 DEF Shows
<1>11. TokenOk(r.tok, r.s, sh2[1], sh2[2])
  BY <1>7 DEF Donated, Shows, TokenOk
<1>12. Ready(b, r.s, r.tok, sh2)
  BY <1>1, <1>9, <1>10, <1>11 DEF Ready, Thins, Shows
<1>13. Keeps(s, r.s)
  BY <1>9, ThinsKeeps
<1>14. QED
  BY <1>8, <1>12, <1>13 DEF StoreOk, r

-----------------------------------------------------------------------------
(* The operations on both backends at once.                                *)

\* Both backends between two steps.
Both(s, t, e, f, k, q, sh) ==
  /\ StoreOk("abs", s, e, k, sh) /\ StoreOk("c", t, f, q, sh)
  /\ \E L : Coupled(L, s, t, e, f)

\* A result lands in a slot.
Landed(e, x, r, e2) == Elsewhere(e, e2, x) /\ e2[x] = r.a

\* Two results alike, in one slot.
LEMMA WrittenBoth ==
  ASSUME NEW L, NEW s, NEW t, NEW e, NEW f, Coupled(L, s, t, e, f), NEW x \in Slots,
         NEW k, NEW q, NEW sh, Ready("abs", s, k, sh), Ready("c", t, q, sh),
         NEW r, NEW m, Written(s, r, e, x, m, Shells(k), ShellCount(k), k.bytes),
         NEW p, NEW n, Written(t, p, f, x, n, Shells(q), ShellCount(q), q.bytes),
         LikeNodes(L, m, n),
         NEW e2, Landed(e, x, r, e2), NEW f2, Landed(f, x, p, f2)
  PROVE  Both(r.s, p.s, e2, f2, k, q, sh)
<1>1. StoreOk("abs", r.s, e2, k, sh)
  BY StoreWritten DEF Landed
<1>2. StoreOk("c", p.s, f2, q, sh)
  BY StoreWritten DEF Landed
<1>3. Coupled(Relink(L, r.a, p.a), r.s, p.s, e2, f2)
  BY LinkedWritten DEF Landed
<1>4. QED
  BY <1>1, <1>2, <1>3 DEF Both

\* What a step delivers.
Delivers(e, as, x, r, e2) ==
  e2 = [y \in Slots |-> IF y = x THEN r.a ELSE IF y \in Moved(as) THEN Empty ELSE e[y]]

\* It is the result in its slot and the moved slots empty.
LEMMA DeliversIs ==
  ASSUME NEW e \in [Slots -> Anything], NEW as, NEW vs, NEW e0, Moves(e, as, vs, e0),
         NEW x \in Slots, NEW r, r.a \in Addresses, NEW e2, Delivers(e, as, x, r, e2)
  PROVE  Landed(e0, x, r, e2)
<1>1. e2 = [y \in Slots |-> IF y = x THEN r.a ELSE IF y \in Moved(as) THEN Empty ELSE e[y]]
  BY DEF Delivers
<1>2. Empty \in Anything /\ Addresses \subseteq Anything
  BY DEF Anything, Storables
<1>3. e2 \in [Slots -> Anything]
  BY <1>1, <1>2
<1>4. \A y \in Slots : y # x => e2[y] = e0[y]
  BY <1>1 DEF Moves, Emptied
<1>5. QED
  BY <1>1, <1>3, <1>4 DEF Elsewhere, Landed

(* The slots that are moved from are free.                                 *)
LEMMA TargetFree ==
  ASSUME NEW L, NEW s, NEW t, NEW e, NEW f, Coupled(L, s, t, e, f), Settled(s, e), Settled(t, f),
         NEW as, NEW us, NEW e0, Moves(e, as, us, e0), NEW vs, NEW f0, Moves(f, as, vs, f0),
         NEW x \in Slots, e[x] = Empty \/ x \in Moved(as)
  PROVE  e0[x] \notin Addresses /\ f0[x] \notin Addresses
<1>1. Twin(L, s, t, e[x], f[x])
  BY SettledTwins
<1>2. e[x] = Empty => f[x] = Empty
  <2>1. \A u, v : Twin(L, s, t, u, v) => (u = Empty <=> v = Empty)
    BY TwinClass
  <2>2. QED
    BY <1>1, <2>1
<1>3. e0[x] = Empty /\ f0[x] = Empty
  BY <1>2 DEF Moves, Emptied
<1>4. QED
  BY <1>3, EmptyIsNo

\* One constructor of matched values.
LEMMA LikeCons ==
  ASSUME NEW L, NEW c, NEW us, NEW vs, NEW n, Matched(L, n, us, vs)
  PROVE  LikeNodes(L, Con(c, us), Con(c, vs))
  BY DEF LikeNodes, Con, Matched

\* A move on both backends.
MovedBoth(L, s, t, e, f, n, lits, as, us, e0, vs, f0) ==
  /\ Coupled(L, s, t, e, f) /\ Takes(s, e, n, lits, as)
  /\ Moves(e, as, us, e0) /\ Moves(f, as, vs, f0)

\* What the premises of a move say of both stores.
LEMMA MovedIs ==
  ASSUME NEW L, NEW s, NEW t, NEW e, NEW f, NEW k, NEW q, NEW sh,
         StoreOk("abs", s, e, k, sh), StoreOk("c", t, f, q, sh),
         NEW n, NEW lits, NEW as, NEW us, NEW e0, NEW vs, NEW f0,
         MovedBoth(L, s, t, e, f, n, lits, as, us, e0, vs, f0)
  PROVE  /\ Settled(s, e) /\ Settled(t, f)
         /\ Good(s, e, <<>>, {}, Shells(k), ShellCount(k), k.bytes) /\ Ready("abs", s, k, sh)
         /\ Good(t, f, <<>>, {}, Shells(q), ShellCount(q), q.bytes) /\ Ready("c", t, q, sh)
         /\ Takes(t, f, n, lits, as) /\ Coupled(L, s, t, e0, f0)
         /\ Matched(L, n, us, vs)
<1>1. /\ Coupled(L, s, t, e, f) /\ Takes(s, e, n, lits, as)
      /\ Moves(e, as, us, e0) /\ Moves(f, as, vs, f0)
  BY DEF MovedBoth
<1>2. /\ Good(s, e, <<>>, {}, Shells(k), ShellCount(k), k.bytes) /\ Ready("abs", s, k, sh)
      /\ Good(t, f, <<>>, {}, Shells(q), ShellCount(q), q.bytes) /\ Ready("c", t, q, sh)
  BY DEF StoreOk
<1>3. Settled(s, e) /\ Settled(t, f)
  BY <1>2 DEF Settled
<1>4. Takes(t, f, n, lits, as)
  BY <1>1, <1>3, TakesTwin
<1>5. LikeSlots(L, e0, f0)
  BY <1>1, <1>3, MovesTwin
<1>6. Matched(L, n, us, vs)
  BY <1>1, <1>3, MovesTwin
<1>7. Coupled(L, s, t, e0, f0)
  BY <1>1, <1>5 DEF Coupled
<1>8. QED
  BY <1>2, <1>3, <1>4, <1>6, <1>7

\* The premises of a step that moves values into slot x.
Moving(L, s, t, e, f, k, q, sh, x, n, lits, as, us, e0, vs, f0) ==
  /\ StoreOk("abs", s, e, k, sh) /\ StoreOk("c", t, f, q, sh) /\ x \in Slots
  /\ MovedBoth(L, s, t, e, f, n, lits, as, us, e0, vs, f0)

\* MakeCon on both backends.
LEMMA MakeConBoth ==
  ASSUME NEW L, NEW s, NEW t, NEW e, NEW f, NEW k, NEW q, NEW sh, NEW x, NEW n, NEW lits, NEW as,
         NEW us, NEW e0, NEW vs, NEW f0,
         Moving(L, s, t, e, f, k, q, sh, x, n, lits, as, us, e0, vs, f0),
         e[x] = Empty \/ x \in Moved(as), NEW c \in Constructors,
         NEW e2, Delivers(e, as, x, Alloc(Con(c, us), s), e2),
         NEW f2, Delivers(f, as, x, Alloc(Con(c, vs), t), f2)
  PROVE  Both(Alloc(Con(c, us), s).s, Alloc(Con(c, vs), t).s, e2, f2, k, q, sh)
<1>1. /\ StoreOk("abs", s, e, k, sh) /\ StoreOk("c", t, f, q, sh) /\ x \in Slots
      /\ MovedBoth(L, s, t, e, f, n, lits, as, us, e0, vs, f0)
  BY DEF Moving
<1>2. /\ Coupled(L, s, t, e, f) /\ Takes(s, e, n, lits, as)
      /\ Moves(e, as, us, e0) /\ Moves(f, as, vs, f0)
  BY <1>1 DEF MovedBoth
<1>3. /\ Settled(s, e) /\ Settled(t, f)
      /\ Good(s, e, <<>>, {}, Shells(k), ShellCount(k), k.bytes) /\ Ready("abs", s, k, sh)
      /\ Good(t, f, <<>>, {}, Shells(q), ShellCount(q), q.bytes) /\ Ready("c", t, q, sh)
      /\ Takes(t, f, n, lits, as) /\ Coupled(L, s, t, e0, f0)
      /\ Matched(L, n, us, vs)
  BY <1>1, MovedIs
<1>4. e0[x] \notin Addresses /\ f0[x] \notin Addresses
  BY <1>1, <1>2, <1>3, TargetFree
<1> DEFINE r == Alloc(Con(c, us), s)
           p == Alloc(Con(c, vs), t)
<1>5. Written(s, r, e0, x, Con(c, us), Shells(k), ShellCount(k), k.bytes)
  BY <1>1, <1>2, <1>3, <1>4, MakeConWritten
<1>6. Written(t, p, f0, x, Con(c, vs), Shells(q), ShellCount(q), q.bytes)
  BY <1>1, <1>2, <1>3, <1>4, MakeConWritten
<1>7. Delivers(e, as, x, r, e2) /\ Delivers(f, as, x, p, f2)
  OBVIOUS
<1> HIDE DEF r, p
<1>8. e \in [Slots -> Anything] /\ f \in [Slots -> Anything] /\ r.a \in Addresses /\ p.a \in Addresses
  BY <1>3, <1>5, <1>6 DEF Good, Holding, Written
<1>9. Landed(e0, x, r, e2)
  BY <1>1, <1>2, <1>7, <1>8, DeliversIs
<1>10. Landed(f0, x, p, f2)
  BY <1>1, <1>2, <1>7, <1>8, DeliversIs
<1>11. LikeNodes(L, Con(c, us), Con(c, vs))
  BY <1>3, LikeCons
<1>12. Both(r.s, p.s, e2, f2, k, q, sh)
  BY <1>1, <1>3, <1>5, <1>6, <1>9, <1>10, <1>11, WrittenBoth
<1>13. QED
  BY <1>12 DEF r, p

\* What they say, in full.
LEMMA MovingIs ==
  ASSUME NEW L, NEW s, NEW t, NEW e, NEW f, NEW k, NEW q, NEW sh, NEW x, NEW n, NEW lits, NEW as,
         NEW us, NEW e0, NEW vs, NEW f0,
         Moving(L, s, t, e, f, k, q, sh, x, n, lits, as, us, e0, vs, f0)
  PROVE  /\ StoreOk("abs", s, e, k, sh) /\ StoreOk("c", t, f, q, sh) /\ x \in Slots
         /\ Coupled(L, s, t, e, f) /\ Takes(s, e, n, lits, as)
         /\ Moves(e, as, us, e0) /\ Moves(f, as, vs, f0)
         /\ Settled(s, e) /\ Settled(t, f)
         /\ Good(s, e, <<>>, {}, Shells(k), ShellCount(k), k.bytes) /\ Ready("abs", s, k, sh)
         /\ Good(t, f, <<>>, {}, Shells(q), ShellCount(q), q.bytes) /\ Ready("c", t, q, sh)
         /\ Takes(t, f, n, lits, as) /\ Coupled(L, s, t, e0, f0)
         /\ Matched(L, n, us, vs)
         /\ e \in [Slots -> Anything] /\ f \in [Slots -> Anything]
<1>1. /\ StoreOk("abs", s, e, k, sh) /\ StoreOk("c", t, f, q, sh) /\ x \in Slots
      /\ MovedBoth(L, s, t, e, f, n, lits, as, us, e0, vs, f0)
  BY DEF Moving
<1>2. /\ Coupled(L, s, t, e, f) /\ Takes(s, e, n, lits, as)
      /\ Moves(e, as, us, e0) /\ Moves(f, as, vs, f0)
  BY <1>1 DEF MovedBoth
<1>3. /\ Settled(s, e) /\ Settled(t, f)
      /\ Good(s, e, <<>>, {}, Shells(k), ShellCount(k), k.bytes) /\ Ready("abs", s, k, sh)
      /\ Good(t, f, <<>>, {}, Shells(q), ShellCount(q), q.bytes) /\ Ready("c", t, q, sh)
      /\ Takes(t, f, n, lits, as) /\ Coupled(L, s, t, e0, f0)
      /\ Matched(L, n, us, vs)
  BY <1>1, MovedIs
<1>4. e \in [Slots -> Anything] /\ f \in [Slots -> Anything]
  BY <1>3 DEF Good, Holding
<1>5. QED
  BY <1>1, <1>2, <1>3, <1>4

(* A token spent, null or not.                                             *)
Spends(b, s, k, e0, x, m, r) ==
  \E s1 : /\ Keeps(s, s1) /\ Ready(b, s1, NullToken, NoShape)
          /\ Written(s1, r, e0, x, m, {}, 0, 0)

\* The paired allocation spends the token, or allocates when it is null.
LEMMA ReuseSpends ==
  ASSUME NEW b, NEW s, NEW k, NEW sh, Ready(b, s, k, sh), sh # NoShape, NEW e,
         Good(s, e, <<>>, {}, Shells(k), ShellCount(k), k.bytes),
         NEW n, NEW lits, NEW as, Takes(s, e, n, lits, as),
         NEW vs, NEW e0, Moves(e, as, vs, e0), StaticClasses(vs) = sh[2],
         NEW x \in Slots, e0[x] \notin Addresses
  PROVE  Spends(b, s, k, e0, x, Con(sh[1], vs), AllocAt(k, Con(sh[1], vs), s))
<1>1. sh[1] \in Constructors /\ TokenOk(k, s, sh[1], StaticClasses(vs))
  BY DEF Ready
<1>2. PICK c : c = sh[1]
  OBVIOUS
<1>3. CASE k = NullToken
  <2>1. Shells(k) = {} /\ ShellCount(k) = 0 /\ k.bytes = 0
    BY <1>3 DEF Shells, ShellCount, NullToken
  <2>2. Good(s, e, <<>>, {}, {}, 0, 0)
    BY <2>1
  <2>3. Written(s, Alloc(Con(c, vs), s), e0, x, Con(c, vs), {}, 0, 0)
    BY <1>1, <1>2, <2>2, MakeConWritten
  <2>4. AllocAt(k, Con(c, vs), s) = Alloc(Con(c, vs), s)
    BY <1>3 DEF AllocAt
  <2>5. Ready(b, s, NullToken, NoShape)
    BY <1>3 DEF Ready
  <2>6. Keeps(s, s)
    BY DEF Keeps
  <2>7. QED
    BY <1>2, <2>3, <2>4, <2>5, <2>6 DEF Spends
<1>4. CASE k # NullToken
  <2> DEFINE s1 == [s EXCEPT !.reserved = @ \ {k.a}]
  <2>1. Written(s1, AllocAt(k, Con(c, vs), s), e0, x, Con(c, vs), {}, 0, 0)
    BY <1>1, <1>2, <1>4, ReuseWritten
  <2>2. DOMAIN s = StoreFields
    BY DEF Good, Shape
  <2>3. /\ s1.cells = s.cells /\ s1.arena = s.arena /\ s1.arenaC = s.arenaC /\ s1.err = s.err
        /\ s1.backend = s.backend /\ s1.reserved = s.reserved \ {k.a}
    BY <2>2 DEF StoreFields
  <2> HIDE DEF s1
  <2>4. Keeps(s, s1)
    BY <2>3 DEF Keeps
  <2>5. s1.reserved = Shells(NullToken)
    BY <2>3 DEF Ready, Shells, NullToken
  <2>6. Ready(b, s1, NullToken, NoShape)
    BY <2>3, <2>5 DEF Ready
  <2>7. QED
    BY <1>2, <2>1, <2>4, <2>6 DEF Spends
<1>5. QED
  BY <1>3, <1>4

\* Reuse on both backends, whose tokens may differ: the one may spend a shell
\* where the other gives it back.
LEMMA ReuseBoth ==
  ASSUME NEW L, NEW s, NEW t, NEW e, NEW f, NEW k, NEW q, NEW sh, NEW x, NEW n, NEW lits, NEW as,
         NEW us, NEW e0, NEW vs, NEW f0,
         Moving(L, s, t, e, f, k, q, sh, x, n, lits, as, us, e0, vs, f0),
         e[x] = Empty \/ x \in Moved(as), sh # NoShape, StaticClasses(us) = sh[2],
         NEW r, NEW p, r = AllocAt(k, Con(sh[1], us), s), p = AllocAt(q, Con(sh[1], vs), t),
         NEW e2, Delivers(e, as, x, r, e2), NEW f2, Delivers(f, as, x, p, f2)
  PROVE  Both(r.s, p.s, e2, f2, NullToken, NullToken, NoShape)
<1>1. /\ x \in Slots /\ Coupled(L, s, t, e, f) /\ Takes(s, e, n, lits, as)
      /\ Moves(e, as, us, e0) /\ Moves(f, as, vs, f0)
      /\ Settled(s, e) /\ Settled(t, f)
      /\ Good(s, e, <<>>, {}, Shells(k), ShellCount(k), k.bytes) /\ Ready("abs", s, k, sh)
      /\ Good(t, f, <<>>, {}, Shells(q), ShellCount(q), q.bytes) /\ Ready("c", t, q, sh)
      /\ Takes(t, f, n, lits, as) /\ Coupled(L, s, t, e0, f0)
      /\ Matched(L, n, us, vs)
      /\ e \in [Slots -> Anything] /\ f \in [Slots -> Anything]
  BY MovingIs
<1>2. e0[x] \notin Addresses /\ f0[x] \notin Addresses
  BY <1>1, TargetFree
<1>3. StaticClasses(vs) = sh[2]
  BY <1>1 DEF Matched
<1>4. Spends("abs", s, k, e0, x, Con(sh[1], us), r)
  BY <1>1, <1>2, ReuseSpends
<1>5. Spends("c", t, q, f0, x, Con(sh[1], vs), p)
  BY <1>1, <1>2, <1>3, ReuseSpends
<1>6. PICK s1 : /\ Keeps(s, s1) /\ Ready("abs", s1, NullToken, NoShape)
                /\ Written(s1, r, e0, x, Con(sh[1], us), {}, 0, 0)
  BY <1>4 DEF Spends
<1>7. PICK t1 : /\ Keeps(t, t1) /\ Ready("c", t1, NullToken, NoShape)
                /\ Written(t1, p, f0, x, Con(sh[1], vs), {}, 0, 0)
  BY <1>5 DEF Spends
<1>8. r.a \in Addresses /\ p.a \in Addresses
  BY <1>6, <1>7 DEF Written
<1>9. Landed(e0, x, r, e2)
  BY <1>1, <1>8, DeliversIs
<1>10. Landed(f0, x, p, f2)
  BY <1>1, <1>8, DeliversIs
<1>11. LikeNodes(L, Con(sh[1], us), Con(sh[1], vs))
  BY <1>1, LikeCons
<1>12. Coupled(L, s1, t1, e0, f0)
  BY <1>1, <1>6, <1>7, LinkedKeeps DEF Coupled
<1>13. Shells(NullToken) = {} /\ ShellCount(NullToken) = 0 /\ NullToken.bytes = 0
  BY DEF Shells, ShellCount, NullToken
<1>14. /\ Written(s1, r, e0, x, Con(sh[1], us), Shells(NullToken), ShellCount(NullToken), NullToken.bytes)
       /\ Written(t1, p, f0, x, Con(sh[1], vs), Shells(NullToken), ShellCount(NullToken), NullToken.bytes)
  BY <1>6, <1>7, <1>13
<1>15. QED
  BY <1>1, <1>6, <1>7, <1>9, <1>10, <1>11, <1>12, <1>14, WrittenBoth

\* ArrayNew on both backends.
LEMMA ArrayNewBoth ==
  ASSUME NEW L, NEW s, NEW t, NEW e, NEW f, NEW k, NEW q, NEW sh, NEW x, NEW lits, NEW as,
         NEW us, NEW e0, NEW vs, NEW f0,
         Moving(L, s, t, e, f, k, q, sh, x, 1, lits, as, us, e0, vs, f0), "big" \notin lits,
         e[x] = Empty \/ x \in Moved(as),
         NEW u, NEW v, u = us[1], v = vs[1],
         NEW r, NEW p, r = Alloc(Array(<<u, u>>), Incref(u, s)), p = Alloc(Array(<<v, v>>), Incref(v, t)),
         NEW e2, Delivers(e, as, x, r, e2), NEW f2, Delivers(f, as, x, p, f2)
  PROVE  Both(r.s, p.s, e2, f2, k, q, sh)
<1>1. /\ x \in Slots /\ Coupled(L, s, t, e, f) /\ Takes(s, e, 1, lits, as)
      /\ Moves(e, as, us, e0) /\ Moves(f, as, vs, f0)
      /\ Settled(s, e) /\ Settled(t, f)
      /\ Good(s, e, <<>>, {}, Shells(k), ShellCount(k), k.bytes) /\ Ready("abs", s, k, sh)
      /\ Good(t, f, <<>>, {}, Shells(q), ShellCount(q), q.bytes) /\ Ready("c", t, q, sh)
      /\ Takes(t, f, 1, lits, as) /\ Coupled(L, s, t, e0, f0)
      /\ Matched(L, 1, us, vs)
      /\ e \in [Slots -> Anything] /\ f \in [Slots -> Anything]
  BY MovingIs
<1>2. e0[x] \notin Addresses /\ f0[x] \notin Addresses
  BY <1>1, TargetFree
<1> DEFINE s1 == Incref(u, s)
           t1 == Incref(v, t)
           m  == Array(<<u, u>>)
           n  == Array(<<v, v>>)
<1>3. Recounted(s, s1)
  BY <1>1, <1>2, ArrayNewWritten
<1>4. Written(s1, r, e0, x, m, Shells(k), ShellCount(k), k.bytes)
  BY <1>1, <1>2, ArrayNewWritten
<1>5. Recounted(t, t1)
  BY <1>1, <1>2, ArrayNewWritten
<1>6. Written(t1, p, f0, x, n, Shells(q), ShellCount(q), q.bytes)
  BY <1>1, <1>2, ArrayNewWritten
<1>7. LikeNodes(L, m, n)
  <2>1. Like(L, u, v)
    BY <1>1 DEF Matched
  <2>2. \A j \in 1..2 : <<u, u>>[j] = u /\ <<v, v>>[j] = v
    OBVIOUS
  <2>3. DOMAIN <<u, u>> = 1..2 /\ DOMAIN <<v, v>> = 1..2
    OBVIOUS
  <2>4. QED
    BY <2>1, <2>2, <2>3 DEF LikeNodes, Array
<1> HIDE DEF s1, t1, m, n
<1>8. Keeps(s, s1) /\ Keeps(t, t1)
  BY <1>3, <1>5, RecountKeeps
<1>9. Coupled(L, s1, t1, e0, f0)
  BY <1>1, <1>8, LinkedKeeps DEF Coupled
<1>10. Ready("abs", s1, k, sh) /\ Ready("c", t1, q, sh)
  BY <1>1, <1>3, <1>5, ReadyOn DEF Recounted, SameFrame
<1>11. r.a \in Addresses /\ p.a \in Addresses
  BY <1>4, <1>6 DEF Written
<1>12. Landed(e0, x, r, e2)
  BY <1>1, <1>11, DeliversIs
<1>13. Landed(f0, x, p, f2)
  BY <1>1, <1>11, DeliversIs
<1>14. QED
  BY <1>1, <1>4, <1>6, <1>7, <1>9, <1>10, <1>12, <1>13, WrittenBoth

\* ArraySet on both backends: the counts of twins need not be told alike, for
\* in place and by copy the result is the same.
LEMMA ArraySetBoth ==
  ASSUME NEW L, NEW s, NEW t, NEW e, NEW f, NEW k, NEW q, NEW sh, NEW x, NEW lits, NEW as,
         NEW us, NEW e0, NEW vs, NEW f0,
         Moving(L, s, t, e, f, k, q, sh, x, 1, lits, as, us, e0, vs, f0), "big" \notin lits,
         as[1] # x, e[x] \in Addresses, s.cells[e[x]].node.con = "Array", NEW i \in 1..2,
         StaticClass(us[1]) = StaticClass(s.cells[e[x]].node.fs[1]),
         NEW r, NEW p, r = SetElement(e[x], i, us[1], s), p = SetElement(f[x], i, vs[1], t),
         NEW e2, Delivers(e, as, x, r, e2), NEW f2, Delivers(f, as, x, p, f2)
  PROVE  Both(r.s, p.s, e2, f2, k, q, sh)
<1>1. /\ x \in Slots /\ Coupled(L, s, t, e, f) /\ Takes(s, e, 1, lits, as)
      /\ Moves(e, as, us, e0) /\ Moves(f, as, vs, f0)
      /\ Settled(s, e) /\ Settled(t, f)
      /\ Good(s, e, <<>>, {}, Shells(k), ShellCount(k), k.bytes) /\ Ready("abs", s, k, sh)
      /\ Good(t, f, <<>>, {}, Shells(q), ShellCount(q), q.bytes) /\ Ready("c", t, q, sh)
      /\ Takes(t, f, 1, lits, as) /\ Coupled(L, s, t, e0, f0)
      /\ Matched(L, 1, us, vs)
      /\ e \in [Slots -> Anything] /\ f \in [Slots -> Anything]
  BY MovingIs
<1>2. Twin(L, s, t, e[x], f[x])
  BY <1>1, SettledTwins
<1>3. PICK a, c : a = e[x] /\ c = f[x]
  OBVIOUS
<1>4. a \in DOMAIN s.cells /\ c \in DOMAIN t.cells /\ PairOk(L, s, t, a, c) /\ Linked(L, s, t)
  BY <1>1, <1>2, <1>3 DEF Twin, Coupled
<1>5. s.cells[a].node.con = "Array" /\ t.cells[c].node.con = "Array"
  BY <1>3, <1>4 DEF PairOk
<1> DEFINE fs == s.cells[a].node.fs
           gs == t.cells[c].node.fs
<1>6. fs \in Seq(Storables) /\ gs \in Seq(Storables) /\ Len(fs) = 2 /\ Len(gs) = 2
  <2>1. Shape(s) /\ Shape(t)
    BY <1>1 DEF Good
  <2>2. fs \in Seq(Storables) /\ gs \in Seq(Storables)
    BY <1>4, <2>1, ShapePlain
  <2>3. CellOk(a, s) /\ CellOk(c, t)
    BY <1>4, <2>1 DEF Shape
  <2>4. QED
    BY <1>5, <2>2, <2>3 DEF CellOk
<1>7. \A j \in 1..2 : Like(L, fs[j], gs[j])
  BY <1>4, <1>6 DEF PairOk
<1>8. StaticClass(us[1]) = StaticClass(fs[1]) /\ StaticClass(vs[1]) = StaticClass(gs[1])
  <2>1. StaticClass(us[1]) = StaticClass(fs[1])
    BY <1>3
  <2>2. StaticClass(us[1]) = StaticClass(vs[1])
    BY <1>1 DEF Matched
  <2>3. Twin(L, s, t, fs[1], gs[1])
    <3>1. a \in Addresses /\ Twin(L, s, t, a, c) /\ 1 \in DOMAIN fs
      BY <1>2, <1>3, <1>6
    <3>2. QED
      BY <1>1, <1>4, <3>1, FieldTwins
  <2>4. StaticClass(fs[1]) = StaticClass(gs[1])
    <3>1. \A y, z : Twin(L, s, t, y, z) => StaticClass(y) = StaticClass(z)
      BY TwinClass
    <3>2. QED
      BY <2>3, <3>1
  <2>5. QED
    BY <2>1, <2>2, <2>4
<1>9. PICK u, v : u = us[1] /\ v = vs[1]
  OBVIOUS
<1> DEFINE m == Array([fs EXCEPT ![i] = u])
           n == Array([gs EXCEPT ![i] = v])
<1>10. s.err = "none" /\ t.err = "none"
  BY <1>1 DEF Ready
<1>11. Written(s, SetElement(a, i, us[1], s), e0, x, Array([s.cells[a].node.fs EXCEPT ![i] = us[1]]),
               Shells(k), ShellCount(k), k.bytes)
  BY <1>1, <1>3, <1>4, <1>5, <1>8, <1>10, ArraySetWritten
<1>12. Written(t, SetElement(c, i, vs[1], t), f0, x, Array([t.cells[c].node.fs EXCEPT ![i] = vs[1]]),
               Shells(q), ShellCount(q), q.bytes)
  BY <1>1, <1>3, <1>4, <1>5, <1>8, <1>10, ArraySetWritten
<1>13. /\ Written(s, r, e0, x, m, Shells(k), ShellCount(k), k.bytes)
       /\ Written(t, p, f0, x, n, Shells(q), ShellCount(q), q.bytes)
  BY <1>3, <1>9, <1>11, <1>12
<1>14. LikeNodes(L, m, n)
  <2>1. Like(L, u, v)
    BY <1>1, <1>9 DEF Matched
  <2> DEFINE g == [fs EXCEPT ![i] = u]
             h == [gs EXCEPT ![i] = v]
  <2>2. DOMAIN fs = 1..2 /\ DOMAIN gs = 1..2
    BY <1>6
  <2>3. DOMAIN g = 1..2 /\ DOMAIN h = 1..2
    BY <2>2
  <2>4. \A j \in 1..2 : Like(L, g[j], h[j])
    BY <1>7, <2>1, <2>2
  <2>5. m = Array(g) /\ n = Array(h)
    OBVIOUS
  <2> HIDE DEF g, h, m, n
  <2>6. LikeNodes(L, Array(g), Array(h))
    BY <2>3, <2>4 DEF LikeNodes, Array
  <2>7. QED
    BY <2>5, <2>6
<1> HIDE DEF m, n
<1>15. r.a \in Addresses /\ p.a \in Addresses
  BY <1>13 DEF Written
<1>16. Landed(e0, x, r, e2)
  BY <1>1, <1>15, DeliversIs
<1>17. Landed(f0, x, p, f2)
  BY <1>1, <1>15, DeliversIs
<1>18. QED
  BY <1>1, <1>13, <1>14, <1>16, <1>17, WrittenBoth

\* MakeArena on both backends, the C arena or the IntMap on the one side.
LEMMA MakeArenaBoth ==
  ASSUME NEW L, NEW s, NEW t, NEW e, NEW f, NEW k, NEW q, NEW sh, NEW x, NEW n, NEW lits, NEW as,
         NEW us, NEW e0, NEW vs, NEW f0,
         Moving(L, s, t, e, f, k, q, sh, x, n, lits, as, us, e0, vs, f0),
         e[x] = Empty \/ x \in Moved(as), NEW c \in Constructors, s.arena # <<>>,
         NEW r, NEW p, r = ArenaAlloc(Con(c, us), s), p = ArenaAlloc(Con(c, vs), t),
         NEW e2, Delivers(e, as, x, r, e2), NEW f2, Delivers(f, as, x, p, f2)
  PROVE  Both(r.s, p.s, e2, f2, k, q, sh)
<1>1. /\ x \in Slots /\ Coupled(L, s, t, e, f) /\ Takes(s, e, n, lits, as)
      /\ Moves(e, as, us, e0) /\ Moves(f, as, vs, f0)
      /\ Settled(s, e) /\ Settled(t, f)
      /\ Good(s, e, <<>>, {}, Shells(k), ShellCount(k), k.bytes) /\ Ready("abs", s, k, sh)
      /\ Good(t, f, <<>>, {}, Shells(q), ShellCount(q), q.bytes) /\ Ready("c", t, q, sh)
      /\ Takes(t, f, n, lits, as) /\ Coupled(L, s, t, e0, f0)
      /\ Matched(L, n, us, vs)
      /\ e \in [Slots -> Anything] /\ f \in [Slots -> Anything]
  BY MovingIs
<1>2. e0[x] \notin Addresses /\ f0[x] \notin Addresses
  BY <1>1, TargetFree
<1>3. Len(s.arena) = Len(s.arenaC) /\ Len(t.arena) = Len(t.arenaC)
  BY <1>1 DEF Ready
<1>4. FramesOk(s) /\ FramesOk(t)
  BY <1>1 DEF Good
<1>5. 1 \in DOMAIN s.arena /\ t.arena # <<>>
  <2>1. s.arena \in Seq(SUBSET DOMAIN s.cells)
    BY <1>4 DEF FramesOk, HalfOk
  <2>2. 1 \in DOMAIN s.arena
    BY <2>1
  <2>3. DOMAIN t.arena = DOMAIN s.arena
    BY <1>1 DEF Coupled, Linked, Aligned
  <2>4. QED
    BY <2>2, <2>3
<1> DEFINE m == Con(c, us)
           h == Con(c, vs)
<1>6. ArenaMade(s, r, e0, m, Shells(k), ShellCount(k), k.bytes)
  BY <1>1, <1>3, MakeArenaMade
<1>7. ArenaMade(t, p, f0, h, Shells(q), ShellCount(q), q.bytes)
  BY <1>1, <1>3, <1>5, MakeArenaMade
<1>8. LikeNodes(L, m, h)
  BY <1>1, LikeCons
<1> HIDE DEF m, h
<1>9. r.a \in Addresses /\ p.a \in Addresses
  BY <1>6, <1>7 DEF ArenaMade
<1>10. Landed(e0, x, r, e2)
  BY <1>1, <1>9, DeliversIs
<1>11. Landed(f0, x, p, f2)
  BY <1>1, <1>9, DeliversIs
<1>12. StoreOk("abs", r.s, e2, k, sh)
  BY <1>1, <1>2, <1>4, <1>6, <1>10, ArenaLands DEF Landed
<1>13. StoreOk("c", p.s, f2, q, sh)
  BY <1>1, <1>2, <1>4, <1>7, <1>11, ArenaLands DEF Landed
<1>14. Coupled(Relink(L, r.a, p.a), r.s, p.s, e2, f2)
  BY <1>1, <1>5, <1>6, <1>7, <1>8, <1>10, <1>11, LinkedArenaLands DEF Landed
<1>15. QED
  BY <1>12, <1>13, <1>14 DEF Both

-----------------------------------------------------------------------------
(* The inductive invariant, step by step.                                  *)

\* The inductive invariant: either store is in order by itself, and some pairing
\* of their addresses makes them alike.
RcInv ==
  /\ Both(st["abs"], st["c"], env["abs"], env["c"], tok["abs"], tok["c"], shape)
  /\ prog \in Programs

\* The atoms of the program's class.
LEMMA ProgAtoms ==
  ASSUME RcInv
  PROVE  /\ prog.lits \subseteq Atoms /\ prog.news \subseteq Atoms
         /\ prog.sets \subseteq Atoms /\ prog.arenas \subseteq Atoms
  BY ParityAssumption DEF RcInv

\* The fields of a new cell are a move.
LEMMA SourcesTake ==
  ASSUME NEW n \in Nat \ {0}, NEW lits, lits \subseteq Atoms, NEW as \in Sources(n, lits)
  PROVE  Takes(st["abs"], env["abs"], n, lits, as)
<1>1. /\ as \in [1..n -> {x \in Slots : Storable(x, lits)} \cup lits]
      /\ \A i, j \in 1..n : (i # j /\ as[i] \in Slots) => as[i] # as[j]
  BY DEF Sources
<1>2. as \in [1..n -> Slots \cup lits]
  BY <1>1
<1>3. Slots \cap lits = {}
  BY ParityAssumption
<1>4. ASSUME NEW j \in 1..n, as[j] \in Slots
      PROVE  /\ env["abs"][as[j]] # Empty /\ ~IsArena(env["abs"][as[j]], st["abs"])
             /\ env["abs"][as[j]][1] = "lit" => env["abs"][as[j]][2] \in lits
  <2>1. as[j] \in {x \in Slots : Storable(x, lits)}
    BY <1>1, <1>3, <1>4
  <2>2. Storable(as[j], lits)
    BY <2>1
  <2>3. QED
    BY <2>2 DEF Storable, Escapes, Held
<1>5. QED
  BY <1>1, <1>2, <1>4 DEF Takes

\* It is one on both backends.
LEMMA MovingFrom ==
  ASSUME RcInv, NEW x \in Slots, NEW n \in Nat \ {0}, NEW lits, lits \subseteq Atoms,
         NEW as \in Sources(n, lits)
  PROVE  \E L : Moving(L, st["abs"], st["c"], env["abs"], env["c"], tok["abs"], tok["c"], shape,
                       x, n, lits, as, Values("abs", as), Emptied(env["abs"], Moved(as)),
                       Values("c", as), Emptied(env["c"], Moved(as)))
<1>1. Values("abs", as) = ValuesOf(env["abs"], as) /\ Values("c", as) = ValuesOf(env["c"], as)
  BY DEF Values, ValuesOf, Value
<1>2. /\ Moves(env["abs"], as, Values("abs", as), Emptied(env["abs"], Moved(as)))
      /\ Moves(env["c"], as, Values("c", as), Emptied(env["c"], Moved(as)))
  BY <1>1 DEF Moves
<1>3. Takes(st["abs"], env["abs"], n, lits, as)
  BY SourcesTake
<1>4. PICK L : Coupled(L, st["abs"], st["c"], env["abs"], env["c"])
  BY DEF RcInv, Both
<1>5. /\ StoreOk("abs", st["abs"], env["abs"], tok["abs"], shape)
      /\ StoreOk("c", st["c"], env["c"], tok["c"], shape)
  BY DEF RcInv, Both
<1>6. QED
  BY <1>2, <1>3, <1>4, <1>5 DEF Moving, MovedBoth

\* Deliver, backend by backend.
LEMMA DeliverIs ==
  ASSUME NEW x, NEW as, NEW r, NEW s, Deliver(x, as, r), r = [b \in Backends |-> s[b]]
  PROVE  /\ st'["abs"] = s["abs"].s /\ st'["c"] = s["c"].s
         /\ Delivers(env["abs"], as, x, s["abs"], env'["abs"])
         /\ Delivers(env["c"], as, x, s["c"], env'["c"])
<1>1. "abs" \in Backends /\ "c" \in Backends
  BY DEF Backends
<1>2. /\ st' = [b \in Backends |-> r[b].s]
      /\ env' = [b \in Backends |->
              [y \in Slots |-> IF y = x THEN r[b].a
                               ELSE IF y \in Moved(as) THEN Empty ELSE env[b][y]]]
  BY DEF Deliver
<1>3. r["abs"] = s["abs"] /\ r["c"] = s["c"]
  BY <1>1
<1>4. st'["abs"] = s["abs"].s /\ st'["c"] = s["c"].s
  BY <1>1, <1>2, <1>3
<1>5. /\ env'["abs"] = [y \in Slots |-> IF y = x THEN r["abs"].a
                               ELSE IF y \in Moved(as) THEN Empty ELSE env["abs"][y]]
      /\ env'["c"] = [y \in Slots |-> IF y = x THEN r["c"].a
                               ELSE IF y \in Moved(as) THEN Empty ELSE env["c"][y]]
  BY <1>1, <1>2
<1>6. QED
  BY <1>3, <1>4, <1>5 DEF Delivers

\* Each step keeps the invariant.
LEMMA MakeConInv ==
  ASSUME RcInv, NEW x \in Slots, MakeCon(x)
  PROVE  RcInv'
<1>0. PICK c \in Constructors : \E as \in Sources(ArityOf[c], prog.lits) :
        /\ CanTake(x, as)
        /\ Deliver(x, as, [b \in Backends |-> Alloc(Con(c, Values(b, as)), st[b])])
  BY DEF MakeCon
<1>1. PICK as \in Sources(ArityOf[c], prog.lits) :
        /\ CanTake(x, as)
        /\ Deliver(x, as, [b \in Backends |-> Alloc(Con(c, Values(b, as)), st[b])])
  BY <1>0
<1>2. tok' = tok /\ shape' = shape /\ prog' = prog
  BY DEF MakeCon
<1> DEFINE r == [b \in Backends |-> Alloc(Con(c, Values(b, as)), st[b])]
<1>3. /\ r["abs"] = Alloc(Con(c, Values("abs", as)), st["abs"])
      /\ r["c"] = Alloc(Con(c, Values("c", as)), st["c"])
  BY DEF Backends
<1>4. Deliver(x, as, r) /\ r = [b \in Backends |-> r[b]]
  BY <1>1
<1> HIDE DEF r
<1>5. /\ st'["abs"] = r["abs"].s /\ st'["c"] = r["c"].s
      /\ Delivers(env["abs"], as, x, r["abs"], env'["abs"])
      /\ Delivers(env["c"], as, x, r["c"], env'["c"])
  BY <1>4, DeliverIs
<1>6. prog.lits \subseteq Atoms /\ ArityOf[c] \in Nat \ {0}
  BY ProgAtoms, ParityAssumption
<1>7. PICK L : Moving(L, st["abs"], st["c"], env["abs"], env["c"], tok["abs"], tok["c"], shape,
                      x, ArityOf[c], prog.lits, as, Values("abs", as), Emptied(env["abs"], Moved(as)),
                      Values("c", as), Emptied(env["c"], Moved(as)))
  BY <1>6, MovingFrom
<1>8. env["abs"][x] = Empty \/ x \in Moved(as)
  BY <1>1 DEF CanTake, Free
<1>9. Both(r["abs"].s, r["c"].s, env'["abs"], env'["c"], tok["abs"], tok["c"], shape)
  BY <1>3, <1>5, <1>7, <1>8, MakeConBoth
<1>10. QED
  BY <1>2, <1>5, <1>9 DEF RcInv

\* The paired allocation.
LEMMA ReuseInv ==
  ASSUME RcInv, NEW x \in Slots, Reuse(x)
  PROVE  RcInv'
<1>1. PICK as \in Sources(Len(shape[2]), prog.lits) :
        /\ StaticClasses(Values("abs", as)) = shape[2]
        /\ CanTake(x, as)
        /\ Deliver(x, as, [b \in Backends |-> AllocAt(tok[b], Con(shape[1], Values(b, as)), st[b])])
  BY DEF Reuse
<1>2. shape # NoShape /\ tok' = [b \in Backends |-> NullToken] /\ shape' = NoShape /\ prog' = prog
  BY DEF Reuse
<1>3. tok'["abs"] = NullToken /\ tok'["c"] = NullToken
  BY <1>2 DEF Backends
<1> DEFINE r == [b \in Backends |-> AllocAt(tok[b], Con(shape[1], Values(b, as)), st[b])]
<1>4. /\ r["abs"] = AllocAt(tok["abs"], Con(shape[1], Values("abs", as)), st["abs"])
      /\ r["c"] = AllocAt(tok["c"], Con(shape[1], Values("c", as)), st["c"])
  BY DEF Backends
<1>5. Deliver(x, as, r) /\ r = [b \in Backends |-> r[b]]
  BY <1>1
<1> HIDE DEF r
<1>6. /\ st'["abs"] = r["abs"].s /\ st'["c"] = r["c"].s
      /\ Delivers(env["abs"], as, x, r["abs"], env'["abs"])
      /\ Delivers(env["c"], as, x, r["c"], env'["c"])
  BY <1>5, DeliverIs
<1>7. prog.lits \subseteq Atoms /\ Len(shape[2]) \in Nat \ {0}
  BY <1>2, ProgAtoms DEF RcInv, Both, StoreOk, Ready
<1>8. PICK L : Moving(L, st["abs"], st["c"], env["abs"], env["c"], tok["abs"], tok["c"], shape,
                      x, Len(shape[2]), prog.lits, as, Values("abs", as), Emptied(env["abs"], Moved(as)),
                      Values("c", as), Emptied(env["c"], Moved(as)))
  BY <1>7, MovingFrom
<1>9. env["abs"][x] = Empty \/ x \in Moved(as)
  BY <1>1 DEF CanTake, Free
<1>10. Both(r["abs"].s, r["c"].s, env'["abs"], env'["c"], NullToken, NullToken, NoShape)
  BY <1>1, <1>2, <1>4, <1>6, <1>8, <1>9, ReuseBoth, ZenonT(60)
<1>11. QED
  BY <1>2, <1>3, <1>6, <1>10 DEF RcInv

\* No array is made of, or set to, a natural of 2^63 or more: the C heap could
\* not store it.
ArraysFit == \A p \in Programs : "big" \notin p.news \cup p.sets

\* Array.new.
LEMMA ArrayNewInv ==
  ASSUME ArraysFit, RcInv, NEW x \in Slots, ArrayNew(x)
  PROVE  RcInv'
<1>1. PICK as \in Sources(1, prog.news) :
        /\ CanTake(x, as)
        /\ Deliver(x, as, [b \in Backends |->
            LET v == Value(b, as[1])
            IN Alloc(Array(<<v, v>>), Incref(v, st[b]))])
  BY DEF ArrayNew
<1>2. tok' = tok /\ shape' = shape /\ prog' = prog
  BY DEF ArrayNew
<1> DEFINE u == Values("abs", as)[1]
           v == Values("c", as)[1]
           r == [b \in Backends |-> LET w == Value(b, as[1])
                                    IN Alloc(Array(<<w, w>>), Incref(w, st[b]))]
<1>3. DOMAIN as = 1..1
  BY DEF Sources
<1>4. u = Value("abs", as[1]) /\ v = Value("c", as[1])
  BY <1>3 DEF Values
<1>5. /\ r["abs"] = Alloc(Array(<<u, u>>), Incref(u, st["abs"]))
      /\ r["c"] = Alloc(Array(<<v, v>>), Incref(v, st["c"]))
  BY <1>4 DEF Backends
<1>6. Deliver(x, as, r) /\ r = [b \in Backends |-> r[b]]
  BY <1>1
<1> HIDE DEF r
<1>7. /\ st'["abs"] = r["abs"].s /\ st'["c"] = r["c"].s
      /\ Delivers(env["abs"], as, x, r["abs"], env'["abs"])
      /\ Delivers(env["c"], as, x, r["c"], env'["c"])
  BY <1>6, DeliverIs
<1>8. prog.news \subseteq Atoms /\ "big" \notin prog.news /\ 1 \in Nat \ {0}
  BY ProgAtoms DEF ArraysFit, RcInv
<1>9. PICK L : Moving(L, st["abs"], st["c"], env["abs"], env["c"], tok["abs"], tok["c"], shape,
                      x, 1, prog.news, as, Values("abs", as), Emptied(env["abs"], Moved(as)),
                      Values("c", as), Emptied(env["c"], Moved(as)))
  BY <1>8, MovingFrom
<1>10. env["abs"][x] = Empty \/ x \in Moved(as)
  BY <1>1 DEF CanTake, Free
<1>11. Both(r["abs"].s, r["c"].s, env'["abs"], env'["c"], tok["abs"], tok["c"], shape)
  BY <1>5, <1>7, <1>8, <1>9, <1>10, ArrayNewBoth
<1>12. QED
  BY <1>2, <1>7, <1>11 DEF RcInv

\* Array.set.
LEMMA ArraySetInv ==
  ASSUME ArraysFit, RcInv, NEW x \in Slots, ArraySet(x)
  PROVE  RcInv'
<1>1. PICK i \in 1..2, as \in Sources(1, prog.sets) :
        /\ as[1] # x
        /\ StaticClass(Value("abs", as[1])) = StaticClass(NodeAt("abs", x).fs[1])
        /\ Deliver(x, as, [b \in Backends |-> SetElement(env[b][x], i, Value(b, as[1]), st[b])])
  BY DEF ArraySet
<1>2. /\ tok' = tok /\ shape' = shape /\ prog' = prog
      /\ Boxed(x) /\ NodeAt("abs", x).con = "Array"
  BY DEF ArraySet
<1> DEFINE r == [b \in Backends |-> SetElement(env[b][x], i, Value(b, as[1]), st[b])]
<1>3. DOMAIN as = 1..1
  BY DEF Sources
<1>4. Values("abs", as)[1] = Value("abs", as[1]) /\ Values("c", as)[1] = Value("c", as[1])
  BY <1>3 DEF Values
<1>5. /\ r["abs"] = SetElement(env["abs"][x], i, Values("abs", as)[1], st["abs"])
      /\ r["c"] = SetElement(env["c"][x], i, Values("c", as)[1], st["c"])
  BY <1>4 DEF Backends
<1>6. Deliver(x, as, r) /\ r = [b \in Backends |-> r[b]]
  BY <1>1
<1> HIDE DEF r
<1>7. /\ st'["abs"] = r["abs"].s /\ st'["c"] = r["c"].s
      /\ Delivers(env["abs"], as, x, r["abs"], env'["abs"])
      /\ Delivers(env["c"], as, x, r["c"], env'["c"])
  BY <1>6, DeliverIs
<1>8. prog.sets \subseteq Atoms /\ "big" \notin prog.sets /\ 1 \in Nat \ {0}
  BY ProgAtoms DEF ArraysFit, RcInv
<1>9. PICK L : Moving(L, st["abs"], st["c"], env["abs"], env["c"], tok["abs"], tok["c"], shape,
                      x, 1, prog.sets, as, Values("abs", as), Emptied(env["abs"], Moved(as)),
                      Values("c", as), Emptied(env["c"], Moved(as)))
  BY <1>8, MovingFrom
<1>10. env["abs"][x] \in Addresses
  <2>1. env["abs"] \in [Slots -> Anything]
    BY DEF RcInv, Both, StoreOk, Good, Holding
  <2>2. IsCounted(env["abs"][x])
    BY <1>2 DEF Boxed
  <2>3. QED
    BY <2>1, <2>2, AddressIs
<1>11. /\ st["abs"].cells[env["abs"][x]].node.con = "Array"
       /\ StaticClass(Values("abs", as)[1]) = StaticClass(st["abs"].cells[env["abs"][x]].node.fs[1])
  BY <1>1, <1>2, <1>4 DEF NodeAt
<1>12. Both(r["abs"].s, r["c"].s, env'["abs"], env'["c"], tok["abs"], tok["c"], shape)
  BY <1>1, <1>5, <1>7, <1>8, <1>9, <1>10, <1>11, ArraySetBoth
<1>13. QED
  BY <1>2, <1>7, <1>12 DEF RcInv

\* An arena constructor.
LEMMA MakeArenaInv ==
  ASSUME RcInv, NEW x \in Slots, MakeArena(x)
  PROVE  RcInv'
<1>1. PICK c \in Constructors : \E as \in Sources(ArityOf[c], prog.arenas) :
        /\ CanTake(x, as)
        /\ Deliver(x, as, [b \in Backends |-> ArenaAlloc(Con(c, Values(b, as)), st[b])])
  BY DEF MakeArena
<1>2. PICK as \in Sources(ArityOf[c], prog.arenas) :
        /\ CanTake(x, as)
        /\ Deliver(x, as, [b \in Backends |-> ArenaAlloc(Con(c, Values(b, as)), st[b])])
  BY <1>1
<1>3. tok' = tok /\ shape' = shape /\ prog' = prog /\ st["abs"].arena # <<>>
  BY DEF MakeArena
<1> DEFINE r == [b \in Backends |-> ArenaAlloc(Con(c, Values(b, as)), st[b])]
<1>4. /\ r["abs"] = ArenaAlloc(Con(c, Values("abs", as)), st["abs"])
      /\ r["c"] = ArenaAlloc(Con(c, Values("c", as)), st["c"])
  BY DEF Backends
<1>5. Deliver(x, as, r) /\ r = [b \in Backends |-> r[b]]
  BY <1>2
<1> HIDE DEF r
<1>6. /\ st'["abs"] = r["abs"].s /\ st'["c"] = r["c"].s
      /\ Delivers(env["abs"], as, x, r["abs"], env'["abs"])
      /\ Delivers(env["c"], as, x, r["c"], env'["c"])
  BY <1>5, DeliverIs
<1>7. prog.arenas \subseteq Atoms /\ ArityOf[c] \in Nat \ {0}
  BY ProgAtoms, ParityAssumption
<1>8. PICK L : Moving(L, st["abs"], st["c"], env["abs"], env["c"], tok["abs"], tok["c"], shape,
                      x, ArityOf[c], prog.arenas, as, Values("abs", as), Emptied(env["abs"], Moved(as)),
                      Values("c", as), Emptied(env["c"], Moved(as)))
  BY <1>7, MovingFrom
<1>9. env["abs"][x] = Empty \/ x \in Moved(as)
  BY <1>2 DEF CanTake, Free
<1>10. Both(r["abs"].s, r["c"].s, env'["abs"], env'["c"], tok["abs"], tok["c"], shape)
  BY <1>3, <1>4, <1>6, <1>8, <1>9, MakeArenaBoth
<1>11. QED
  BY <1>3, <1>6, <1>10 DEF RcInv

\* An environment with one slot changed.
LEMMA SlotIs ==
  ASSUME NEW e \in [Slots -> Anything], NEW x \in Slots, NEW v \in Anything,
         NEW e2, e2 = [e EXCEPT ![x] = v]
  PROVE  Elsewhere(e, e2, x) /\ e2[x] = v
  BY DEF Elsewhere

\* What the invariant says of either backend.
LEMMA InvIs ==
  ASSUME RcInv
  PROVE  /\ StoreOk("abs", st["abs"], env["abs"], tok["abs"], shape)
         /\ StoreOk("c", st["c"], env["c"], tok["c"], shape)
         /\ env["abs"] \in [Slots -> Anything] /\ env["c"] \in [Slots -> Anything]
         /\ Settled(st["abs"], env["abs"]) /\ Settled(st["c"], env["c"])
<1>1. /\ StoreOk("abs", st["abs"], env["abs"], tok["abs"], shape)
      /\ StoreOk("c", st["c"], env["c"], tok["c"], shape)
  BY DEF RcInv, Both
<1>2. /\ Good(st["abs"], env["abs"], <<>>, {}, Shells(tok["abs"]), ShellCount(tok["abs"]), tok["abs"].bytes)
      /\ Good(st["c"], env["c"], <<>>, {}, Shells(tok["c"]), ShellCount(tok["c"]), tok["c"].bytes)
  BY <1>1 DEF StoreOk
<1>3. Settled(st["abs"], env["abs"]) /\ Settled(st["c"], env["c"])
  BY <1>2 DEF Settled
<1>4. QED
  BY <1>1, <1>2, <1>3 DEF Good, Holding

(* Two stores that share a value each, with a free slot.                   *)
LEMMA SharedBoth ==
  ASSUME NEW L, NEW s, NEW t, NEW e, NEW f, Coupled(L, s, t, e, f), NEW k, NEW q, NEW sh,
         StoreOk("abs", s, e, k, sh), StoreOk("c", t, f, q, sh),
         NEW u \in Anything, NEW v \in Anything, Twin(L, s, t, u, v),
         NEW y \in Slots, e[y] = Empty, NEW e2, Elsewhere(e, e2, y), e2[y] = u,
         NEW f2, Elsewhere(f, f2, y), f2[y] = v
  PROVE  Both(Incref(u, s), Incref(v, t), e2, f2, k, q, sh)
<1>1. /\ Like(L, u, v) /\ (u \in Addresses => u \in DOMAIN s.cells)
      /\ (v \in Addresses => v \in DOMAIN t.cells)
  BY DEF Twin
<1>2. f[y] = Empty
  <2>1. Settled(s, e) /\ Settled(t, f)
    BY DEF StoreOk, Settled
  <2>2. Twin(L, s, t, e[y], f[y])
    BY <2>1, SettledTwins
  <2>3. \A a, c : Twin(L, s, t, a, c) => (a = Empty <=> c = Empty)
    BY TwinClass
  <2>4. QED
    BY <2>2, <2>3
<1>3. StoreOk("abs", Incref(u, s), e2, k, sh)
  BY <1>1, SharedOk
<1>4. Keeps(s, Incref(u, s))
  BY <1>1, SharedOk
<1>5. StoreOk("c", Incref(v, t), f2, q, sh)
  BY <1>1, <1>2, SharedOk
<1>6. Keeps(t, Incref(v, t))
  BY <1>1, <1>2, SharedOk
<1>7. Coupled(L, Incref(u, s), Incref(v, t), e2, f2)
  BY <1>1, <1>4, <1>6, CoupledKeeps
<1>8. QED
  BY <1>3, <1>5, <1>7 DEF Both

\* __rc_dup.
LEMMA DupInv ==
  ASSUME RcInv, NEW x \in Slots, NEW y \in Slots, Dup(x, y)
  PROVE  RcInv'
<1>1. /\ st' = [b \in Backends |-> Incref(env[b][x], st[b])]
      /\ env' = [b \in Backends |-> [env[b] EXCEPT ![y] = env[b][x]]]
      /\ tok' = tok /\ shape' = shape /\ prog' = prog /\ env["abs"][y] = Empty
  BY DEF Dup, Free
<1>2. /\ st'["abs"] = Incref(env["abs"][x], st["abs"]) /\ st'["c"] = Incref(env["c"][x], st["c"])
      /\ env'["abs"] = [env["abs"] EXCEPT ![y] = env["abs"][x]]
      /\ env'["c"] = [env["c"] EXCEPT ![y] = env["c"][x]]
  BY <1>1 DEF Backends
<1>3. /\ StoreOk("abs", st["abs"], env["abs"], tok["abs"], shape)
      /\ StoreOk("c", st["c"], env["c"], tok["c"], shape)
      /\ env["abs"] \in [Slots -> Anything] /\ env["c"] \in [Slots -> Anything]
      /\ Settled(st["abs"], env["abs"]) /\ Settled(st["c"], env["c"])
  BY InvIs
<1>4. PICK L : Coupled(L, st["abs"], st["c"], env["abs"], env["c"])
  BY DEF RcInv, Both
<1>5. Twin(L, st["abs"], st["c"], env["abs"][x], env["c"][x])
  BY <1>3, <1>4, SettledTwins
<1>6. env["abs"][x] \in Anything /\ env["c"][x] \in Anything
  BY <1>3
<1>7. Elsewhere(env["abs"], env'["abs"], y) /\ env'["abs"][y] = env["abs"][x]
  BY <1>2, <1>3, <1>6, SlotIs
<1>8. Elsewhere(env["c"], env'["c"], y) /\ env'["c"][y] = env["c"][x]
  BY <1>2, <1>3, <1>6, SlotIs
<1>9. Both(st'["abs"], st'["c"], env'["abs"], env'["c"], tok["abs"], tok["c"], shape)
  BY <1>1, <1>2, <1>3, <1>4, <1>5, <1>6, <1>7, <1>8, SharedBoth
<1>10. QED
  BY <1>1, <1>9 DEF RcInv

\* A field read out of a matched cell.
LEMMA ProjectInv ==
  ASSUME RcInv, NEW x \in Slots, NEW y \in Slots, Project(x, y)
  PROVE  RcInv'
<1>1. PICK i \in DOMAIN NodeAt("abs", x).fs :
        /\ st' = [b \in Backends |-> Incref(FieldsOf(env[b][x], st[b])[i], st[b])]
        /\ env' = [b \in Backends |-> [env[b] EXCEPT ![y] = FieldsOf(env[b][x], st[b])[i]]]
  BY DEF Project
<1>2. tok' = tok /\ shape' = shape /\ prog' = prog /\ env["abs"][y] = Empty /\ Boxed(x)
  BY DEF Project, Free
<1> DEFINE a == env["abs"][x]
           c == env["c"][x]
           u == FieldsOf(a, st["abs"])[i]
           v == FieldsOf(c, st["c"])[i]
<1>3. /\ st'["abs"] = Incref(u, st["abs"]) /\ st'["c"] = Incref(v, st["c"])
      /\ env'["abs"] = [env["abs"] EXCEPT ![y] = u]
      /\ env'["c"] = [env["c"] EXCEPT ![y] = v]
  BY <1>1 DEF Backends
<1>4. /\ StoreOk("abs", st["abs"], env["abs"], tok["abs"], shape)
      /\ StoreOk("c", st["c"], env["c"], tok["c"], shape)
      /\ env["abs"] \in [Slots -> Anything] /\ env["c"] \in [Slots -> Anything]
      /\ Settled(st["abs"], env["abs"]) /\ Settled(st["c"], env["c"])
  BY InvIs
<1>5. PICK L : Coupled(L, st["abs"], st["c"], env["abs"], env["c"])
  BY DEF RcInv, Both
<1>6. Twin(L, st["abs"], st["c"], a, c)
  BY <1>4, <1>5, SettledTwins
<1>7. a \in Addresses
  BY <1>2, <1>4, AddressIs DEF Boxed
<1>8. a \in DOMAIN st["abs"].cells /\ c \in DOMAIN st["c"].cells
  BY <1>6, <1>7 DEF Twin
<1>9. /\ Good(st["abs"], env["abs"], <<>>, {}, Shells(tok["abs"]), ShellCount(tok["abs"]), tok["abs"].bytes)
      /\ Good(st["c"], env["c"], <<>>, {}, Shells(tok["c"]), ShellCount(tok["c"]), tok["c"].bytes)
  BY <1>4 DEF StoreOk
<1>10. Shape(st["abs"]) /\ Shape(st["c"]) /\ Linked(L, st["abs"], st["c"])
  BY <1>5, <1>9 DEF Good, Coupled
<1>11. u = st["abs"].cells[a].node.fs[i] /\ v = st["c"].cells[c].node.fs[i]
  BY <1>8, <1>10, FieldsAre
<1>12. i \in DOMAIN st["abs"].cells[a].node.fs
  BY <1>1 DEF NodeAt
<1>13. /\ i \in DOMAIN st["c"].cells[c].node.fs
       /\ Twin(L, st["abs"], st["c"], st["abs"].cells[a].node.fs[i], st["c"].cells[c].node.fs[i])
  BY <1>6, <1>7, <1>9, <1>10, <1>12, FieldTwins
<1>14. st["abs"].cells[a].node.fs[i] \in Storables /\ st["c"].cells[c].node.fs[i] \in Storables
  BY <1>8, <1>9, <1>12, <1>13, FieldLives
<1> HIDE DEF a, c, u, v
<1>15. u \in Anything /\ v \in Anything /\ Twin(L, st["abs"], st["c"], u, v)
  BY <1>11, <1>13, <1>14 DEF Anything
<1>16. Elsewhere(env["abs"], env'["abs"], y) /\ env'["abs"][y] = u
  BY <1>3, <1>4, <1>15, SlotIs
<1>17. Elsewhere(env["c"], env'["c"], y) /\ env'["c"][y] = v
  BY <1>3, <1>4, <1>15, SlotIs
<1>18. Both(st'["abs"], st'["c"], env'["abs"], env'["c"], tok["abs"], tok["c"], shape)
  BY <1>2, <1>3, <1>4, <1>5, <1>15, <1>16, <1>17, SharedBoth
<1>19. QED
  BY <1>2, <1>18 DEF RcInv

\* __rc_drop.
LEMMA DropInv ==
  ASSUME RcInv, NEW x \in Slots, Drop(x)
  PROVE  RcInv'
<1>1. /\ st' = [b \in Backends |-> DropAddr(env[b][x], st[b])]
      /\ env' = [b \in Backends |-> [env[b] EXCEPT ![x] = Empty]]
      /\ tok' = tok /\ shape' = shape /\ prog' = prog
  BY DEF Drop
<1>2. /\ st'["abs"] = DropAddr(env["abs"][x], st["abs"]) /\ st'["c"] = DropAddr(env["c"][x], st["c"])
      /\ env'["abs"] = [env["abs"] EXCEPT ![x] = Empty]
      /\ env'["c"] = [env["c"] EXCEPT ![x] = Empty]
  BY <1>1 DEF Backends
<1>3. /\ StoreOk("abs", st["abs"], env["abs"], tok["abs"], shape)
      /\ StoreOk("c", st["c"], env["c"], tok["c"], shape)
      /\ env["abs"] \in [Slots -> Anything] /\ env["c"] \in [Slots -> Anything]
  BY InvIs
<1>4. PICK L : Coupled(L, st["abs"], st["c"], env["abs"], env["c"])
  BY DEF RcInv, Both
<1>5. Empty \in Anything /\ Like(L, Empty, Empty)
  BY EmptyIsNo DEF Anything, Like
<1>6. Elsewhere(env["abs"], env'["abs"], x) /\ env'["abs"][x] = Empty
  BY <1>2, <1>3, <1>5, SlotIs
<1>7. Elsewhere(env["c"], env'["c"], x) /\ env'["c"][x] = Empty
  BY <1>2, <1>3, <1>5, SlotIs
<1>8. StoreOk("abs", st'["abs"], env'["abs"], tok["abs"], shape)
  BY <1>2, <1>3, <1>6, DroppedOk
<1>9. Keeps(st["abs"], st'["abs"])
  BY <1>2, <1>3, <1>6, DroppedOk
<1>10. StoreOk("c", st'["c"], env'["c"], tok["c"], shape)
  BY <1>2, <1>3, <1>7, DroppedOk
<1>11. Keeps(st["c"], st'["c"])
  BY <1>2, <1>3, <1>7, DroppedOk
<1>12. Coupled(L, st'["abs"], st'["c"], env'["abs"], env'["c"])
  BY <1>4, <1>5, <1>6, <1>7, <1>9, <1>11, CoupledKeeps
<1>13. Both(st'["abs"], st'["c"], env'["abs"], env'["c"], tok["abs"], tok["c"], shape)
  BY <1>8, <1>10, <1>12 DEF Both
<1>14. QED
  BY <1>1, <1>13 DEF RcInv

\* __rc_drop_reuse.
LEMMA DonateInv ==
  ASSUME RcInv, NEW x \in Slots, Donate(x)
  PROVE  RcInv'
<1>1. /\ st' = [b \in Backends |-> DropReuse(env[b][x], st[b]).s]
      /\ tok' = [b \in Backends |-> DropReuse(env[b][x], st[b]).tok]
      /\ env' = [b \in Backends |-> [env[b] EXCEPT ![x] = Empty]]
      /\ shape' = <<NodeAt("abs", x).con, StaticClasses(NodeAt("abs", x).fs)>>
      /\ prog' = prog /\ Boxed(x) /\ shape = NoShape /\ NodeAt("abs", x).con \in Constructors
  BY DEF Donate
<1> DEFINE a == env["abs"][x]
           c == env["c"][x]
<1>2. /\ st'["abs"] = DropReuse(a, st["abs"]).s /\ st'["c"] = DropReuse(c, st["c"]).s
      /\ tok'["abs"] = DropReuse(a, st["abs"]).tok /\ tok'["c"] = DropReuse(c, st["c"]).tok
      /\ env'["abs"] = [env["abs"] EXCEPT ![x] = Empty]
      /\ env'["c"] = [env["c"] EXCEPT ![x] = Empty]
  BY <1>1 DEF Backends
<1>3. /\ StoreOk("abs", st["abs"], env["abs"], tok["abs"], shape)
      /\ StoreOk("c", st["c"], env["c"], tok["c"], shape)
      /\ env["abs"] \in [Slots -> Anything] /\ env["c"] \in [Slots -> Anything]
      /\ Settled(st["abs"], env["abs"]) /\ Settled(st["c"], env["c"])
  BY InvIs
<1>4. PICK L : Coupled(L, st["abs"], st["c"], env["abs"], env["c"])
  BY DEF RcInv, Both
<1>5. Empty \in Anything /\ Like(L, Empty, Empty)
  BY EmptyIsNo DEF Anything, Like
<1>6. Elsewhere(env["abs"], env'["abs"], x) /\ env'["abs"][x] = Empty
  BY <1>2, <1>3, <1>5, SlotIs
<1>7. Elsewhere(env["c"], env'["c"], x) /\ env'["c"][x] = Empty
  BY <1>2, <1>3, <1>5, SlotIs
<1>8. Twin(L, st["abs"], st["c"], a, c)
  BY <1>3, <1>4, SettledTwins
<1>9. a \in Addresses
  BY <1>1, <1>3, AddressIs DEF Boxed
<1>10. a \in DOMAIN st["abs"].cells /\ c \in DOMAIN st["c"].cells /\ PairOk(L, st["abs"], st["c"], a, c)
  BY <1>8, <1>9 DEF Twin
<1> DEFINE m == st["abs"].cells[a].node
           n == st["c"].cells[c].node
<1>11. /\ Good(st["abs"], env["abs"], <<>>, {}, Shells(tok["abs"]), ShellCount(tok["abs"]), tok["abs"].bytes)
       /\ Good(st["c"], env["c"], <<>>, {}, Shells(tok["c"]), ShellCount(tok["c"]), tok["c"].bytes)
  BY <1>3 DEF StoreOk
<1>12. Linked(L, st["abs"], st["c"])
  BY <1>4 DEF Coupled
<1>13. /\ m.con = n.con /\ m.con \in Constructors /\ DOMAIN m.fs = DOMAIN n.fs
  BY <1>1, <1>10 DEF PairOk, NodeAt
<1>14. StaticClasses(m.fs) = StaticClasses(n.fs)
  <2>1. ASSUME NEW j \in DOMAIN m.fs PROVE StaticClass(m.fs[j]) = StaticClass(n.fs[j])
    <3>1. Twin(L, st["abs"], st["c"], st["abs"].cells[a].node.fs[j], st["c"].cells[c].node.fs[j])
      BY <1>8, <1>9, <1>11, <1>12, FieldTwins
    <3>2. \A u, v : Twin(L, st["abs"], st["c"], u, v) => StaticClass(u) = StaticClass(v)
      BY TwinClass
    <3>3. QED
      BY <3>1, <3>2
  <2>2. QED
    BY <1>13, <2>1 DEF StaticClasses
<1>15. shape' = <<m.con, StaticClasses(m.fs)>>
  BY <1>1 DEF NodeAt
<1>16. shape' # NoShape /\ shape'[1] = m.con /\ shape'[2] = StaticClasses(m.fs)
  BY <1>15 DEF NoShape
<1>17. PICK sh2 : sh2 = shape'
  OBVIOUS
<1>18. Shows(st["abs"], a, sh2) /\ Shows(st["c"], c, sh2)
  BY <1>13, <1>14, <1>16, <1>17 DEF Shows
<1> HIDE DEF m, n
<1>19. st["abs"].cells[a].node.con \in Constructors /\ st["c"].cells[c].node.con \in Constructors
  BY <1>13 DEF m, n
<1>20. env["abs"][x] = a /\ env["c"][x] = c
  OBVIOUS
<1> HIDE DEF a, c
<1>21. StoreOk("abs", DropReuse(a, st["abs"]).s, env'["abs"], DropReuse(a, st["abs"]).tok, sh2)
  BY <1>1, <1>3, <1>6, <1>10, <1>18, <1>19, <1>20, DonatedOk
<1>22. Keeps(st["abs"], DropReuse(a, st["abs"]).s)
  BY <1>1, <1>3, <1>6, <1>10, <1>18, <1>19, <1>20, DonatedOk
<1>23. StoreOk("c", DropReuse(c, st["c"]).s, env'["c"], DropReuse(c, st["c"]).tok, sh2)
  BY <1>1, <1>3, <1>7, <1>10, <1>18, <1>19, <1>20, DonatedOk
<1>24. Keeps(st["c"], DropReuse(c, st["c"]).s)
  BY <1>1, <1>3, <1>7, <1>10, <1>18, <1>19, <1>20, DonatedOk
<1>25. Coupled(L, st'["abs"], st'["c"], env'["abs"], env'["c"])
  BY <1>2, <1>4, <1>5, <1>6, <1>7, <1>22, <1>24, CoupledKeeps
<1>26. Both(st'["abs"], st'["c"], env'["abs"], env'["c"], tok'["abs"], tok'["c"], sh2)
  BY <1>2, <1>21, <1>23, <1>25 DEF Both
<1>27. QED
  BY <1>1, <1>17, <1>26 DEF RcInv

\* A scope opened.
LEMMA OpenArenaInv ==
  ASSUME RcInv, OpenArena
  PROVE  RcInv'
<1>1. /\ st' = [b \in Backends |-> ArenaOpen(st[b])]
      /\ env' = env /\ tok' = tok /\ shape' = shape /\ prog' = prog
  BY DEF OpenArena
<1>2. st'["abs"] = ArenaOpen(st["abs"]) /\ st'["c"] = ArenaOpen(st["c"])
  BY <1>1 DEF Backends
<1>3. /\ StoreOk("abs", st["abs"], env["abs"], tok["abs"], shape)
      /\ StoreOk("c", st["c"], env["c"], tok["c"], shape)
  BY InvIs
<1>4. PICK L : Coupled(L, st["abs"], st["c"], env["abs"], env["c"])
  BY DEF RcInv, Both
<1>5. /\ StoreOk("abs", st'["abs"], env["abs"], tok["abs"], shape)
      /\ Opened(st["abs"], st'["abs"])
  BY <1>2, <1>3, OpenOk
<1>6. /\ StoreOk("c", st'["c"], env["c"], tok["c"], shape)
      /\ Opened(st["c"], st'["c"])
  BY <1>2, <1>3, OpenOk
<1>7. FramesOk(st["abs"]) /\ FramesOk(st["c"])
  BY <1>3 DEF StoreOk, Good
<1>8. Coupled(L, st'["abs"], st'["c"], env["abs"], env["c"])
  BY <1>4, <1>5, <1>6, <1>7, OpenCoupled
<1>9. Both(st'["abs"], st'["c"], env["abs"], env["c"], tok["abs"], tok["c"], shape)
  BY <1>5, <1>6, <1>8 DEF Both
<1>10. QED
  BY <1>1, <1>9 DEF RcInv

\* A scope closed.
LEMMA CloseArenaInv ==
  ASSUME RcInv, CloseArena
  PROVE  RcInv'
<1>1. /\ st' = [b \in Backends |-> ArenaClose(st[b])]
      /\ env' = [b \in Backends |->
              [x \in Slots |-> IF env["abs"][x] \in Head(st["abs"].arena)
                               THEN Empty ELSE env[b][x]]]
      /\ tok' = tok /\ shape' = shape /\ prog' = prog /\ st["abs"].arena # <<>>
  BY DEF CloseArena
<1>2. /\ st'["abs"] = ArenaClose(st["abs"]) /\ st'["c"] = ArenaClose(st["c"])
      /\ env'["abs"] = [x \in Slots |-> IF env["abs"][x] \in Head(st["abs"].arena)
                               THEN Empty ELSE env["abs"][x]]
      /\ env'["c"] = [x \in Slots |-> IF env["abs"][x] \in Head(st["abs"].arena)
                               THEN Empty ELSE env["c"][x]]
  BY <1>1 DEF Backends
<1>3. /\ Closing(st["abs"], env["abs"], env["abs"], env'["abs"])
      /\ Closing(st["abs"], env["abs"], env["c"], env'["c"])
  BY <1>2 DEF Closing
<1>4. /\ StoreOk("abs", st["abs"], env["abs"], tok["abs"], shape)
      /\ StoreOk("c", st["c"], env["c"], tok["c"], shape)
  BY InvIs
<1>5. PICK L : Coupled(L, st["abs"], st["c"], env["abs"], env["c"])
  BY DEF RcInv, Both
<1>6. Leaves(st["abs"], env["abs"], env'["abs"]) /\ Leaves(st["c"], env["c"], env'["c"])
  BY <1>1, <1>3, <1>4, <1>5, ClosingLeaves
<1>7. LikeSlots(L, env'["abs"], env'["c"])
  BY <1>1, <1>3, <1>4, <1>5, ClosingLeaves
<1>8. st["c"].arena # <<>>
  BY <1>1, <1>3, <1>4, <1>5, ClosingLeaves
<1>9. StoreOk("abs", st'["abs"], env'["abs"], tok["abs"], shape)
  BY <1>1, <1>2, <1>4, <1>6, CloseOk
<1>10. Closed(st["abs"], st'["abs"]) /\ st["abs"].arenaC # <<>>
  BY <1>1, <1>2, <1>4, <1>6, CloseOk
<1>11. StoreOk("c", st'["c"], env'["c"], tok["c"], shape)
  BY <1>2, <1>4, <1>6, <1>8, CloseOk
<1>12. Closed(st["c"], st'["c"]) /\ st["c"].arenaC # <<>>
  BY <1>2, <1>4, <1>6, <1>8, CloseOk
<1>13. FramesOk(st["abs"]) /\ FramesOk(st["c"])
  BY <1>4 DEF StoreOk, Good
<1>14. Coupled(L, st'["abs"], st'["c"], env'["abs"], env'["c"])
  BY <1>1, <1>5, <1>7, <1>8, <1>10, <1>12, <1>13, CloseCoupled
<1>15. Both(st'["abs"], st'["c"], env'["abs"], env'["c"], tok["abs"], tok["c"], shape)
  BY <1>9, <1>11, <1>14 DEF Both
<1>16. QED
  BY <1>1, <1>15 DEF RcInv

-----------------------------------------------------------------------------
(* The theorems.                                                           *)

\* An empty store is in order.
LEMMA EmptyOk ==
  ASSUME NEW b \in Backends, NEW e, e = [x \in Slots |-> Empty]
  PROVE  StoreOk(b, EmptyStore(b), e, NullToken, NoShape) /\ EmptyStore(b).cells = [a \in {} |-> 0]
           /\ EmptyStore(b).arena = <<>> /\ EmptyStore(b).arenaC = <<>>
<1> DEFINE s == EmptyStore(b)
<1>1. /\ DOMAIN s = StoreFields /\ s.backend = b /\ s.cells = [a \in {} |-> 0] /\ s.next = 0
      /\ s.desc = [c \in Constructors |-> <<>>] /\ s.reserved = {}
      /\ s.arena = <<>> /\ s.arenaC = <<>> /\ s.stats = EmptyStats
      /\ s.pool = [n \in {} |-> <<>>] /\ s.fresh = 0 /\ s.err = "none"
  BY DEF EmptyStore, StoreFields
<1>2. /\ DOMAIN s.stats = StatFields /\ s.stats.live = 0 /\ s.stats.cur = 0 /\ s.stats.arena = 0
  BY <1>1 DEF EmptyStats, StatFields
<1> HIDE DEF s
<1>3. DOMAIN s.cells = {} /\ DOMAIN s.pool = {} /\ DOMAIN s.desc = Constructors
  BY <1>1
<1>4. Shells(NullToken) = {} /\ ShellCount(NullToken) = 0 /\ NullToken.bytes = 0
  BY DEF Shells, ShellCount, NullToken
<1>5. Shape(s)
  <2>1. IsFiniteSet(DOMAIN s.cells)
    BY <1>3, FS_EmptySet
  <2>2. QED
    BY <1>1, <1>2, <1>3, <2>1 DEF Shape
<1>6. PoolOk(s, {})
  BY <1>3 DEF PoolOk
<1>7. FramesOk(s)
  BY <1>1, <1>3 DEF FramesOk, HalfOk
<1>8. Holding(e, <<>>, {}, s)
  BY DEF Holding, Anything
<1>9. ASSUME NEW a \in Addresses PROVE Total(s, e, <<>>, {}, a) = 0
  <2>1. Empty # a
    BY EmptyIsNo
  <2>2. IsFiniteSet(DOMAIN e)
    BY ParityAssumption
  <2>3. Occ(e, a) = 0
    BY <2>1, <2>2, OccType
  <2>4. Occ(<<>>, a) = 0
    BY OccNone
  <2>5. Plain(s.cells)
    BY <1>5, ShapePlain
  <2>6. Edges(s.cells, {}, a) = 0
    BY <1>3, <2>5, EdgesType
  <2>7. QED
    BY <2>3, <2>4, <2>6 DEF Total
<1>10. Exact(s, e, <<>>, {})
  BY <1>3, <1>9 DEF Exact
<1>11. Books(s, 0, 0)
  <2>1. CountedIn(s) = {} /\ ArenaIn(s) = {}
    BY <1>3 DEF CountedIn, ArenaIn
  <2>2. Cardinality({}) = 0
    BY FS_EmptySet
  <2>3. Bytes(s, {}) = 0
    BY SumEmpty DEF Bytes
  <2>4. QED
    BY <1>2, <2>1, <2>2, <2>3 DEF Books
<1>12. Good(s, e, <<>>, {}, {}, 0, 0)
  BY <1>5, <1>6, <1>7, <1>8, <1>10, <1>11 DEF Good
<1>13. Ready(b, s, NullToken, NoShape)
  BY <1>1, <1>4 DEF Ready
<1>14. QED
  BY <1>1, <1>4, <1>12, <1>13 DEF StoreOk, s

\* The invariant holds at first,
LEMMA InitInv ==
  ASSUME Init
  PROVE  RcInv
<1>1. /\ st["abs"] = EmptyStore("abs") /\ st["c"] = EmptyStore("c")
      /\ env["abs"] = [x \in Slots |-> Empty] /\ env["c"] = [x \in Slots |-> Empty]
      /\ tok["abs"] = NullToken /\ tok["c"] = NullToken /\ shape = NoShape /\ prog \in Programs
  BY DEF Init, Backends
<1>2. "abs" \in Backends /\ "c" \in Backends
  BY DEF Backends
<1> DEFINE s == EmptyStore("abs")
           t == EmptyStore("c")
           e == [x \in Slots |-> Empty]
<1>3. /\ StoreOk("abs", s, e, NullToken, NoShape) /\ s.cells = [a \in {} |-> 0]
      /\ s.arena = <<>> /\ s.arenaC = <<>>
  BY <1>2, EmptyOk
<1>4. /\ StoreOk("c", t, e, NullToken, NoShape) /\ t.cells = [a \in {} |-> 0]
      /\ t.arena = <<>> /\ t.arenaC = <<>>
  BY <1>2, EmptyOk
<1> HIDE DEF s, t
<1>5. Linked({}, s, t)
  BY <1>3, <1>4 DEF Linked, Aligned
<1>6. LikeSlots({}, e, e)
  BY EmptyIsNo DEF LikeSlots, Like
<1> HIDE DEF e
<1>7. Coupled({}, s, t, e, e)
  BY <1>5, <1>6 DEF Coupled
<1>8. Both(s, t, e, e, NullToken, NullToken, NoShape)
  BY <1>3, <1>4, <1>7 DEF Both
<1>9. QED
  BY <1>1, <1>8 DEF RcInv, s, t, e

\* every step keeps it,
LEMMA NextInv ==
  ASSUME ArraysFit, RcInv, [Next]_vars
  PROVE  RcInv'
<1>1. CASE Next
  <2>1. ASSUME NEW x \in Slots,
               \/ MakeCon(x) \/ Drop(x) \/ Donate(x) \/ Reuse(x)
               \/ ArrayNew(x) \/ ArraySet(x) \/ MakeArena(x)
        PROVE  RcInv'
    BY <2>1, MakeConInv, DropInv, DonateInv, ReuseInv, ArrayNewInv, ArraySetInv, MakeArenaInv
  <2>2. ASSUME NEW x \in Slots, NEW y \in Slots, Dup(x, y) \/ Project(x, y) PROVE RcInv'
    BY <2>2, DupInv, ProjectInv
  <2>3. CASE OpenArena \/ CloseArena
    BY <2>3, OpenArenaInv, CloseArenaInv
  <2>4. QED
    BY <1>1, <2>1, <2>2, <2>3 DEF Next
<1>2. CASE UNCHANGED vars
  BY <1>2 DEF vars, RcInv
<1>3. QED
  BY <1>1, <1>2

\* and so it holds throughout.
LEMMA InvHolds ==
  ASSUME ArraysFit
  PROVE  Spec => []RcInv
<1>1. Init => RcInv
  BY InitInv
<1>2. RcInv /\ [Next]_vars => RcInv'
  BY NextInv
<1>3. QED
  BY <1>1, <1>2, PTL DEF Spec

(* What it says of one backend.                                            *)
LEMMA OneBackend ==
  ASSUME RcInv, NEW b \in Backends
  PROVE  StoreOk(b, st[b], env[b], tok[b], shape)
  BY InvIs DEF Backends

\* No reference-balanced program ever meets a loud guard of the store, on either
\* backend: no double free (dropAddr), no use of a dead cell (incref, dropReuse),
\* no shell of the wrong shape (reuseCConAt), no element that cannot be stored
\* (allocNArray, arraySetSlotInPlace), no birth outside a scope (arenaAlloc).
THEOREM Faultless ==
  ASSUME ArraysFit
  PROVE  Spec => []NoError
<1>1. RcInv => NoError
  BY OneBackend DEF NoError, StoreOk, Ready
<1>2. QED
  BY <1>1, InvHolds, PTL

\* The invariant says which shells are reserved.
LEMMA HeldNow == ASSUME RcInv PROVE ReservedHeld
<1> SUFFICES ASSUME NEW b \in Backends
             PROVE  /\ st[b].reserved = {tok[b].a} \ {Empty}
                    /\ st[b].reserved \cap DOMAIN st[b].cells = {}
                    /\ \A n \in DOMAIN st[b].pool : \A i \in DOMAIN st[b].pool[n] :
                         st[b].pool[n][i] \notin st[b].reserved \cup DOMAIN st[b].cells
  BY DEF ReservedHeld
<1>1. StoreOk(b, st[b], env[b], tok[b], shape)
  BY OneBackend
<1>2. st[b].reserved = Shells(tok[b]) /\ PoolOk(st[b], Shells(tok[b]))
  BY <1>1 DEF StoreOk, Ready, Good
<1>3. QED
  BY <1>2 DEF PoolOk, Shells

\* Exactly the token in flight has its shell reserved, off the cell map, and
\* neither wok_alloc nor an IntMap insertion hands it out meanwhile (stReserved,
\* dropReuse, allocAt).
THEOREM ShellsHeld ==
  ASSUME ArraysFit
  PROVE  Spec => []ReservedHeld
  BY HeldNow, InvHolds, PTL

\* The invariant says the counts are the owners.
LEMMA ExactNow == ASSUME RcInv PROVE RcExact
<1> SUFFICES ASSUME NEW b \in Backends, NEW a \in Counted(b)
             PROVE  st[b].cells[a].rc = Owners(b, a)
  BY DEF RcExact
<1> DEFINE s == st[b]
<1>1. Good(s, env[b], <<>>, {}, Shells(tok[b]), ShellCount(tok[b]), tok[b].bytes)
  BY OneBackend DEF StoreOk
<1>2. Shape(s) /\ Exact(s, env[b], <<>>, {}) /\ env[b] \in [Slots -> Anything]
  BY <1>1 DEF Good, Holding
<1>3. a \in DOMAIN s.cells /\ ~IsArena(a, s)
  BY DEF Counted, Arena
<1>4. a \in Addresses
  BY <1>2, <1>3 DEF Shape, Minted, Addresses
<1>5. Total(s, env[b], <<>>, {}, a) = s.cells[a].rc
  BY <1>2, <1>3, <1>4 DEF Exact
<1>6. Occ(<<>>, a) = 0
  BY OccNone
<1>7. Occ(env[b], a) = Cardinality({x \in Slots : env[b][x] = a})
  BY <1>2 DEF Occ
<1>8. Edges(s.cells, {}, a) = Cardinality({p \in Places(s.cells) : s.cells[p[1]].node.fs[p[2]] = a})
  <2>1. At(s.cells, {}, a) = {p \in Places(s.cells) : s.cells[p[1]].node.fs[p[2]] = a}
    BY DEF At
  <2>2. QED
    BY <2>1 DEF Edges
<1>9. Owners(b, a) = Occ(env[b], a) + Edges(s.cells, {}, a)
  BY <1>7, <1>8 DEF Owners
<1>10. Occ(env[b], a) \in Nat /\ Edges(s.cells, {}, a) \in Nat
  <2>1. IsFiniteSet(DOMAIN env[b])
    BY <1>2, ParityAssumption
  <2>2. Occ(env[b], a) \in Nat
    BY <2>1, OccType
  <2>3. Plain(s.cells)
    BY <1>2, ShapePlain
  <2>4. QED
    BY <2>2, <2>3, EdgesType
<1>11. QED
  BY <1>5, <1>6, <1>9, <1>10 DEF Total

\* Every count is the number of owners, slots and fields of live cells alike, at
\* every step: no drop cascade, in-place reuse, array write or scope close
\* (dropAddr, dropReuse, allocAt, arraySetSlotInPlace, arenaClose) ever leaks a
\* cell or frees one that is still referred to.
THEOREM CountsAreOwners ==
  ASSUME ArraysFit
  PROVE  Spec => []RcExact
  BY ExactNow, InvHolds, PTL

\* The invariant says what the books are.
LEMMA BooksNow == ASSUME RcInv PROVE BooksExact
<1> SUFFICES ASSUME NEW b \in Backends
             PROVE  /\ st[b].stats.live  = Cardinality(Counted(b)) + Cardinality(st[b].reserved)
                    /\ st[b].stats.cur   = SumFunction([a \in Counted(b) |-> st[b].cells[a].bytes]) + tok[b].bytes
                    /\ st[b].stats.arena = SumFunction([a \in Arena(b) |-> st[b].cells[a].bytes])
  BY DEF BooksExact
<1> DEFINE s == st[b]
<1>1. StoreOk(b, s, env[b], tok[b], shape)
  BY OneBackend
<1>2. Books(s, ShellCount(tok[b]), tok[b].bytes) /\ s.reserved = Shells(tok[b])
  BY <1>1 DEF StoreOk, Good, Ready
<1>3. Counted(b) = CountedIn(s) /\ Arena(b) = ArenaIn(s)
  BY DEF Counted, Arena, CountedIn, ArenaIn
<1>4. Cardinality(s.reserved) = ShellCount(tok[b])
  <2>1. CASE tok[b] = NullToken
    <3>1. Shells(tok[b]) = {}
      BY <2>1 DEF Shells, NullToken
    <3>2. QED
      BY <1>2, <2>1, <3>1, FS_EmptySet DEF ShellCount
  <2>2. CASE tok[b] # NullToken
    <3>1. shape # NoShape /\ TokenOk(tok[b], s, shape[1], shape[2])
      BY <1>1, <2>2 DEF StoreOk, Ready
    <3>2. tok[b].a # Empty
      BY <2>2, <3>1, EmptyIsNo DEF TokenOk
    <3>3. Shells(tok[b]) = {tok[b].a}
      BY <3>2 DEF Shells
    <3>4. QED
      BY <1>2, <2>2, <3>3, FS_Singleton DEF ShellCount
  <2>3. QED
    BY <2>1, <2>2
<1>5. QED
  BY <1>2, <1>3, <1>4 DEF Books, Bytes

\* The live count and the live bytes are those of the counted cells and the
\* reserved shell, the arena's bytes those of the arena's cells, through every
\* reuse and every scope close (recordAlloc, recordFree, arenaAllocPureBytes).
THEOREM BooksAreExact ==
  ASSUME ArraysFit
  PROVE  Spec => []BooksExact
  BY BooksNow, InvHolds, PTL

\* A pairing of the two backends' addresses under which every slot, and every
\* field as it reads back, holds the same on both.
Bisimulation(L) ==
  /\ \A x \in Slots : Like(L, env["abs"][x], env["c"][x])
  /\ \A u, v : <<u, v>> \in L =>
       /\ u \in DOMAIN st["abs"].cells /\ v \in DOMAIN st["c"].cells
       /\ st["abs"].cells[u].node.con = st["c"].cells[v].node.con
       /\ DOMAIN FieldsOf(u, st["abs"]) = DOMAIN FieldsOf(v, st["c"])
       /\ \A j \in DOMAIN FieldsOf(u, st["abs"]) :
            Like(L, FieldsOf(u, st["abs"])[j], FieldsOf(v, st["c"])[j])

\* Some pairing tells them alike.
ValuesAgree == \E L \in SUBSET (Addresses \X Addresses) : Bisimulation(L)

\* The invariant's pairing, among the cells that live.
LEMMA AgreeNow == ASSUME RcInv PROVE ValuesAgree
<1> DEFINE s == st["abs"]
           t == st["c"]
           e == env["abs"]
           f == env["c"]
<1>1. PICK L : Coupled(L, s, t, e, f)
  BY DEF RcInv, Both
<1>2. /\ Good(s, e, <<>>, {}, Shells(tok["abs"]), ShellCount(tok["abs"]), tok["abs"].bytes)
      /\ Good(t, f, <<>>, {}, Shells(tok["c"]), ShellCount(tok["c"]), tok["c"].bytes)
      /\ Settled(s, e) /\ Settled(t, f)
  BY InvIs DEF StoreOk
<1>3. Linked(L, s, t) /\ Shape(s) /\ Shape(t)
  BY <1>1, <1>2 DEF Coupled, Good
<1> DEFINE K == {p \in L : p[1] \in DOMAIN s.cells /\ p[2] \in DOMAIN t.cells}
<1>4. K \in SUBSET (Addresses \X Addresses)
  BY <1>3 DEF Linked
<1>5. ASSUME NEW u, NEW v, Twin(L, s, t, u, v) PROVE Like(K, u, v)
  <2>1. CASE u \in Addresses
    <3>1. <<u, v>> \in L /\ u \in DOMAIN s.cells /\ v \in DOMAIN t.cells
      BY <1>5, <2>1 DEF Twin, Like
    <3>2. QED
      BY <2>1, <3>1 DEF Like
  <2>2. CASE u \notin Addresses
    BY <1>5, <2>2 DEF Twin, Like
  <2>3. QED
    BY <2>1, <2>2
<1>6. \A x \in Slots : Like(K, e[x], f[x])
  <2>1. \A x \in Slots : Twin(L, s, t, e[x], f[x])
    BY <1>1, <1>2, SettledTwins
  <2>2. QED
    BY <1>5, <2>1
<1>7. ASSUME NEW u, NEW v, <<u, v>> \in K
      PROVE  /\ u \in DOMAIN s.cells /\ v \in DOMAIN t.cells
             /\ s.cells[u].node.con = t.cells[v].node.con
             /\ DOMAIN FieldsOf(u, s) = DOMAIN FieldsOf(v, t)
             /\ \A j \in DOMAIN FieldsOf(u, s) : Like(K, FieldsOf(u, s)[j], FieldsOf(v, t)[j])
  <2>1. /\ <<u, v>> \in L /\ u \in DOMAIN s.cells /\ v \in DOMAIN t.cells
        /\ u \in Addresses /\ v \in Addresses
    BY <1>4, <1>7
  <2>2. Twin(L, s, t, u, v)
    <3>1. Like(L, u, v) /\ FramesOk(s) /\ FramesOk(t)
      BY <1>2, <2>1 DEF Like, Good
    <3>2. QED
      BY <1>3, <2>1, <3>1, Twins
  <2>3. FieldsOf(u, s) = s.cells[u].node.fs
    BY <1>3, <2>1, FieldsAre
  <2>4. FieldsOf(v, t) = t.cells[v].node.fs
    BY <1>3, <2>1, FieldsAre
  <2>5. PairOk(L, s, t, u, v)
    BY <2>1, <2>2 DEF Twin
  <2>6. ASSUME NEW j \in DOMAIN s.cells[u].node.fs
        PROVE  Like(K, s.cells[u].node.fs[j], t.cells[v].node.fs[j])
    <3>1. Twin(L, s, t, s.cells[u].node.fs[j], t.cells[v].node.fs[j])
      BY <1>2, <1>3, <2>1, <2>2, FieldTwins
    <3>2. QED
      BY <1>5, <3>1
  <2>7. QED
    BY <2>1, <2>3, <2>4, <2>5, <2>6 DEF PairOk
<1> HIDE DEF K
<1>8. Bisimulation(K)
  BY <1>6, <1>7 DEF Bisimulation
<1>9. QED
  BY <1>4, <1>8 DEF ValuesAgree

\* The abstract heap and the C heap compute the same values: at every step the
\* slots of both are alike, and so are the fields of paired cells as each backend
\* reads them back (readCCell through the recorded descriptor, readCArrayValues),
\* though the C heap recycles addresses and the IntMap does not.
THEOREM BackendsBisimilar ==
  ASSUME ArraysFit
  PROVE  Spec => []ValuesAgree
  BY AgreeNow, InvHolds, PTL
=============================================================================
