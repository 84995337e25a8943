----------------------------- MODULE CountProofs -----------------------------
(***************************************************************************)
(* Facts about numbers, finite sets and sums that the proofs share.  The   *)
(* library's induction theorems take an operator, which no prover here can *)
(* instantiate: where a book would use induction, these proofs take a      *)
(* smallest counterexample.                                                *)
(***************************************************************************)
EXTENDS Integers, Sequences, FiniteSets, Functions, WellFoundedInduction,
        FiniteSetTheorems, TLAPS

\* A set of naturals that is not empty has a least member.
LEMMA LeastExists ==
  ASSUME NEW T, T # {}, T \subseteq Nat
  PROVE  \E m \in T : \A l \in T : m <= l
<1>1. PICK m \in T : \A l \in T : <<l, m>> \notin OpToRel(<, Nat)
  BY WFMin, NatLessThanWellFounded, Zenon
<1>2. \A l \in T : ~(l < m)
  BY <1>1, Zenon DEF OpToRel
<1>3. QED
  BY <1>2

-----------------------------------------------------------------------------
(* Sums over finite sets.  SumFunctionOnSet takes the elements in the order  *)
(* CHOOSE yields them; the sum does not depend on it.  Where a book would    *)
(* use induction on the set, these proofs take a smallest counterexample.    *)

\* A family of subsets of a finite set has a minimal member.
LEMMA SmallestExists ==
  ASSUME NEW S, IsFiniteSet(S), NEW F \in SUBSET SUBSET S, F # {}
  PROVE  \E T \in F : \A U \in SUBSET T : U # T => U \notin F
<1>1. FiniteSubsetsOf(S) = SUBSET S
  BY FS_FiniteSubsetsOfFinite
<1>2. IsWellFoundedOn(StrictSubsetOrdering(S), SUBSET S)
  BY <1>1, FS_StrictSubsetOrderingWellFounded
<1>3. PICK T \in F : \A U \in F : <<U, T>> \notin StrictSubsetOrdering(S)
  BY <1>2, WFMin
<1>4. QED
  BY <1>3 DEF StrictSubsetOrdering

First(s) == CHOOSE x \in s : TRUE

LEMMA FirstIn == ASSUME NEW s, s # {} PROVE First(s) \in s
  BY DEF First

\* g sums f over every subset of S.
Sums(f, S, g) ==
  g = [s \in SUBSET S |-> IF s = {} THEN 0 ELSE f[First(s)] + g[s \ {First(s)}]]

LEMMA SumUnfold ==
  ASSUME NEW f, NEW S
  PROVE  SumFunctionOnSet(f, S) = (CHOOSE g : Sums(f, S, g))[S]
  BY DEF SumFunctionOnSet, FoldFunctionOnSet, MapThenFoldSet, Sums, First

\* Two such functions, for f and h that agree on U, agree on U's subsets.
LEMMA SumsAgree ==
  ASSUME NEW f, NEW h, NEW S, NEW T, NEW U, IsFiniteSet(U), U \subseteq S, U \subseteq T,
         \A x \in U : f[x] = h[x], NEW g, NEW k, Sums(f, S, g), Sums(h, T, k)
  PROVE  \A s \in SUBSET U : g[s] = k[s]
<1> DEFINE F == {s \in SUBSET U : g[s] # k[s]}
<1>1. SUFFICES ASSUME F # {} PROVE FALSE
  OBVIOUS
<1>2. PICK s \in F : \A u \in SUBSET s : u # s => u \notin F
  <2>1. F \in SUBSET SUBSET U
    OBVIOUS
  <2> HIDE DEF F
  <2>2. QED
    BY <1>1, <2>1, SmallestExists
<1>3. /\ g[s] = IF s = {} THEN 0 ELSE f[First(s)] + g[s \ {First(s)}]
      /\ k[s] = IF s = {} THEN 0 ELSE h[First(s)] + k[s \ {First(s)}]
  <2>1. s \in SUBSET S /\ s \in SUBSET T
    OBVIOUS
  <2>2. g[s] = IF s = {} THEN 0 ELSE f[First(s)] + g[s \ {First(s)}]
    BY <2>1 DEF Sums
  <2>3. k[s] = IF s = {} THEN 0 ELSE h[First(s)] + k[s \ {First(s)}]
    BY <2>1 DEF Sums
  <2>4. QED
    BY <2>2, <2>3
<1>4. s # {}
  BY <1>3
<1>5. First(s) \in s /\ s \ {First(s)} \in SUBSET s /\ s \ {First(s)} # s
  BY <1>4, FirstIn
<1>6. g[s \ {First(s)}] = k[s \ {First(s)}]
  BY <1>2, <1>5
<1>7. f[First(s)] = h[First(s)]
  BY <1>5
<1>8. QED
  BY <1>3, <1>4, <1>6, <1>7

\* A sum over a set and one over a part of it.
LEMMA SumsCohere ==
  ASSUME NEW f, NEW S, NEW U, IsFiniteSet(U), U \subseteq S,
         NEW g, NEW k, Sums(f, S, g), Sums(f, U, k)
  PROVE  g[U] = k[U]
<1>1. U \subseteq U /\ \A x \in U : f[x] = f[x]
  OBVIOUS
<1>2. \A s \in SUBSET U : g[s] = k[s]
  BY <1>1, SumsAgree
<1>3. QED
  BY <1>2

\* Such a function exists.
LEMMA SumsExist ==
  ASSUME NEW f, NEW S, IsFiniteSet(S)
  PROVE  \E g : Sums(f, S, g)
<1> DEFINE F == {T \in SUBSET S : ~ \E g : Sums(f, T, g)}
<1>1. SUFFICES ASSUME F # {} PROVE FALSE
  OBVIOUS
<1>2. PICK T \in F : \A U \in SUBSET T : U # T => U \notin F
  <2>1. F \in SUBSET SUBSET S
    OBVIOUS
  <2> HIDE DEF F
  <2>2. QED
    BY <1>1, <2>1, SmallestExists
<1> DEFINE below(U) == CHOOSE g : Sums(f, U, g)
<1>3. \A U \in SUBSET T : U # T => Sums(f, U, below(U))
  <2>1. ASSUME NEW U \in SUBSET T, U # T PROVE Sums(f, U, below(U))
    <3>1. \E g : Sums(f, U, g)
      BY <1>2, <2>1
    <3>2. QED
      BY <3>1
  <2>2. QED
    BY <2>1
<1> HIDE DEF below
<1> DEFINE part == [s \in SUBSET T |->
                      IF s = {} THEN 0 ELSE f[First(s)] + below(s \ {First(s)})[s \ {First(s)}]]
<1>4. \A s \in SUBSET T : s # T => part[s] = below(s)[s]
  <2>1. ASSUME NEW s \in SUBSET T, s # T PROVE part[s] = below(s)[s]
    <3>1. below(s)[s] = IF s = {} THEN 0 ELSE f[First(s)] + below(s)[s \ {First(s)}]
      BY <1>3, <2>1 DEF Sums
    <3>2. CASE s = {}
      BY <3>1, <3>2
    <3>3. CASE s # {}
      <4> DEFINE u == s \ {First(s)}
      <4>1. u \in SUBSET s /\ u # s /\ u \in SUBSET T /\ u # T
        BY <3>3, FirstIn, <2>1
      <4>2. IsFiniteSet(u)
        BY <4>1, FS_Subset
      <4>3. Sums(f, s, below(s)) /\ Sums(f, u, below(u))
        BY <1>3, <2>1, <4>1
      <4>4. below(s)[u] = below(u)[u]
        BY <4>1, <4>2, <4>3, SumsCohere
      <4>5. QED
        BY <3>1, <3>3, <4>1, <4>4
    <3>4. QED
      BY <3>2, <3>3
  <2>2. QED
    BY <2>1
<1>5. Sums(f, T, part)
  <2>1. ASSUME NEW s \in SUBSET T
        PROVE  part[s] = IF s = {} THEN 0 ELSE f[First(s)] + part[s \ {First(s)}]
    <3>1. CASE s = {}
      BY <3>1
    <3>2. CASE s # {}
      <4>1. s \ {First(s)} \in SUBSET T /\ s \ {First(s)} # T
        BY <3>2, FirstIn
      <4>2. part[s \ {First(s)}] = below(s \ {First(s)})[s \ {First(s)}]
        BY <1>4, <4>1
      <4>3. QED
        BY <3>2, <4>2
    <3>3. QED
      BY <3>1, <3>2
  <2>2. part = [s \in SUBSET T |-> part[s]]
    OBVIOUS
  <2> HIDE DEF part
  <2>3. QED
    BY <2>1, <2>2, Zenon DEF Sums
<1>6. QED
  BY <1>2, <1>5

\* The sum over a set, and over the set without its first element.
LEMMA SumFirst ==
  ASSUME NEW f, NEW S, IsFiniteSet(S)
  PROVE  SumFunctionOnSet(f, S) =
           IF S = {} THEN 0 ELSE f[First(S)] + SumFunctionOnSet(f, S \ {First(S)})
<1> DEFINE of(U) == CHOOSE g : Sums(f, U, g)
<1>1. Sums(f, S, of(S))
  BY SumsExist
<1>2. SumFunctionOnSet(f, S) = of(S)[S]
  BY SumUnfold
<1>3. of(S)[S] = IF S = {} THEN 0 ELSE f[First(S)] + of(S)[S \ {First(S)}]
  <2>1. S \in SUBSET S
    OBVIOUS
  <2> HIDE DEF of
  <2>2. QED
    BY <1>1, <2>1 DEF Sums
<1>4. CASE S = {}
  BY <1>2, <1>3, <1>4
<1>5. CASE S # {}
  <2> DEFINE U == S \ {First(S)}
  <2>1. IsFiniteSet(U) /\ U \subseteq S
    BY FS_Subset
  <2>2. Sums(f, U, of(U))
    BY <2>1, SumsExist
  <2>3. SumFunctionOnSet(f, U) = of(U)[U]
    BY SumUnfold
  <2> HIDE DEF of
  <2> HIDE DEF U
  <2>4. of(S)[U] = of(U)[U]
    BY <1>1, <2>1, <2>2, SumsCohere
  <2>5. QED
    BY <1>2, <1>3, <1>5, <2>3, <2>4 DEF U
<1>6. QED
  BY <1>4, <1>5

LEMMA SumNone == ASSUME NEW f PROVE SumFunctionOnSet(f, {}) = 0
  BY SumFirst, FS_EmptySet

\* The sum depends on the values in the set alone.
LEMMA SumSame ==
  ASSUME NEW S, IsFiniteSet(S), NEW f, NEW h, \A x \in S : f[x] = h[x]
  PROVE  SumFunctionOnSet(f, S) = SumFunctionOnSet(h, S)
<1>1. PICK g : Sums(f, S, g)
  BY SumsExist
<1>2. PICK k : Sums(h, S, k)
  BY SumsExist
<1> DEFINE G == CHOOSE q : Sums(f, S, q)
           K == CHOOSE q : Sums(h, S, q)
<1>3. Sums(f, S, G) /\ Sums(h, S, K)
  BY <1>1, <1>2
<1>4. SumFunctionOnSet(f, S) = G[S] /\ SumFunctionOnSet(h, S) = K[S]
  BY SumUnfold
<1> HIDE DEF G, K
<1>5. \A t \in SUBSET S : G[t] = K[t]
  <2>1. S \subseteq S
    OBVIOUS
  <2>2. QED
    BY <1>3, <2>1, SumsAgree
<1>6. QED
  BY <1>4, <1>5

\* Naturals add up to a natural.
LEMMA SumType ==
  ASSUME NEW S, IsFiniteSet(S), NEW f, \A x \in S : f[x] \in Nat
  PROVE  SumFunctionOnSet(f, S) \in Nat
<1> DEFINE F == {T \in SUBSET S : SumFunctionOnSet(f, T) \notin Nat}
<1>1. SUFFICES ASSUME F # {} PROVE FALSE
  <2>1. S \in SUBSET S
    OBVIOUS
  <2>2. QED
    BY <2>1
<1>2. PICK T \in F : \A U \in SUBSET T : U # T => U \notin F
  <2>1. F \in SUBSET SUBSET S
    OBVIOUS
  <2> HIDE DEF F
  <2>2. QED
    BY <1>1, <2>1, SmallestExists
<1>3. IsFiniteSet(T)
  BY FS_Subset
<1>4. T # {}
  BY SumNone
<1>5. First(T) \in T
  BY <1>4, FirstIn
<1>6. SumFunctionOnSet(f, T \ {First(T)}) \in Nat
  BY <1>2, <1>5
<1>7. SumFunctionOnSet(f, T) = f[First(T)] + SumFunctionOnSet(f, T \ {First(T)})
  BY <1>3, <1>4, SumFirst
<1>8. f[First(T)] \in Nat
  BY <1>5
<1>9. QED
  BY <1>6, <1>7, <1>8

\* Any element may be taken out first.
LEMMA SumAny ==
  ASSUME NEW S, IsFiniteSet(S), NEW f, \A x \in S : f[x] \in Nat, NEW a \in S
  PROVE  SumFunctionOnSet(f, S) = f[a] + SumFunctionOnSet(f, S \ {a})
<1> DEFINE Total(T) == SumFunctionOnSet(f, T)
           F == {T \in SUBSET S : \E x \in T : Total(T) # f[x] + Total(T \ {x})}
<1>0. \A T \in SUBSET S : Total(T) \in Nat
  <2>1. ASSUME NEW T \in SUBSET S PROVE Total(T) \in Nat
    <3>1. IsFiniteSet(T)
      BY FS_Subset
    <3>2. QED
      BY <3>1, SumType
  <2>2. QED
    BY <2>1
<1>1. SUFFICES ASSUME F # {} PROVE FALSE
  <2>1. S \in SUBSET S
    OBVIOUS
  <2>2. QED
    BY <2>1
<1>2. PICK T \in F : \A U \in SUBSET T : U # T => U \notin F
  <2>1. F \in SUBSET SUBSET S
    OBVIOUS
  <2> HIDE DEF F
  <2>2. QED
    BY <1>1, <2>1, SmallestExists
<1>3. PICK x \in T : Total(T) # f[x] + Total(T \ {x})
  OBVIOUS
<1> DEFINE c == First(T)
<1>4. /\ \A U \in SUBSET S : IsFiniteSet(U) /\ (U # {} =>
            First(U) \in U /\ Total(U) = f[First(U)] + Total(U \ {First(U)}))
  BY FS_Subset, SumFirst, FirstIn
<1>5. c \in T /\ Total(T) = f[c] + Total(T \ {c})
  BY <1>4
<1> HIDE DEF c, Total
<1>6. x # c
  BY <1>3, <1>5
<1>7. Total(T \ {c}) = f[x] + Total((T \ {c}) \ {x})
  BY <1>2, <1>3, <1>5, <1>6
<1>8. Total(T \ {x}) = f[c] + Total((T \ {x}) \ {c})
  BY <1>2, <1>3, <1>5, <1>6
<1>9. (T \ {c}) \ {x} = (T \ {x}) \ {c}
  OBVIOUS
<1>10. f[x] \in Nat /\ f[c] \in Nat /\ Total((T \ {x}) \ {c}) \in Nat
  BY <1>0, <1>5
<1>11. Total(T) = f[x] + Total(T \ {x})
  BY <1>5, <1>7, <1>8, <1>9, <1>10
<1>12. QED
  BY <1>3, <1>11

\* One value changed, added or taken away.
LEMMA SumOther ==
  ASSUME NEW f, IsFiniteSet(DOMAIN f), \A x \in DOMAIN f : f[x] \in Nat,
         NEW h, IsFiniteSet(DOMAIN h), \A x \in DOMAIN h : h[x] \in Nat,
         NEW a, DOMAIN f \ {a} = DOMAIN h \ {a}, \A x \in DOMAIN f \ {a} : f[x] = h[x]
  PROVE  /\ SumFunction(f) \in Nat /\ SumFunction(h) \in Nat
         /\ SumFunction(h) - (IF a \in DOMAIN h THEN h[a] ELSE 0)
              = SumFunction(f) - (IF a \in DOMAIN f THEN f[a] ELSE 0)
<1> DEFINE rest == DOMAIN f \ {a}
           F == SumFunctionOnSet(f, DOMAIN f)  fr == SumFunctionOnSet(f, rest)
           H == SumFunctionOnSet(h, DOMAIN h)  hr == SumFunctionOnSet(h, rest)
<1>1. IsFiniteSet(rest)
  BY FS_Subset
<1>2. fr = hr
  BY <1>1, SumSame
<1>3. F \in Nat /\ H \in Nat /\ fr \in Nat
  BY <1>1, SumType
<1>4. F = (IF a \in DOMAIN f THEN f[a] ELSE 0) + fr
  <2>1. CASE a \in DOMAIN f
    BY <2>1, SumAny
  <2>2. CASE a \notin DOMAIN f
    <3>1. rest = DOMAIN f
      BY <2>2
    <3>2. QED
      BY <1>3, <2>2, <3>1
  <2>3. QED
    BY <2>1, <2>2
<1>5. H = (IF a \in DOMAIN h THEN h[a] ELSE 0) + hr
  <2>1. CASE a \in DOMAIN h
    BY <2>1, SumAny
  <2>2. CASE a \notin DOMAIN h
    <3>1. rest = DOMAIN h
      BY <2>2
    <3>2. QED
      BY <1>2, <1>3, <2>2, <3>1
  <2>3. QED
    BY <2>1, <2>2
<1>6. SumFunction(f) = F /\ SumFunction(h) = H
  BY DEF SumFunction
<1>7. (a \in DOMAIN f => f[a] \in Nat) /\ (a \in DOMAIN h => h[a] \in Nat)
  OBVIOUS
<1> HIDE DEF F, H, fr, hr
<1>8. QED
  BY <1>2, <1>3, <1>4, <1>5, <1>6, <1>7

LEMMA SumEmpty == ASSUME NEW f, DOMAIN f = {} PROVE SumFunction(f) = 0
  BY SumNone DEF SumFunction

(* A set with two members has more than one.                               *)
LEMMA Several ==
  ASSUME NEW n \in Nat, NEW S, \A j_ \in S : j_ \in 1..n, NEW a \in S, NEW b \in S, a # b
  PROVE  Cardinality(S) > 1
<1>1. S \subseteq 1..n
  OBVIOUS
<1>2. IsFiniteSet(1..n)
  BY FS_Interval
<1>3. IsFiniteSet(S)
  BY <1>1, <1>2, FS_Subset
<1>4. Cardinality({a, b}) = 2 /\ IsFiniteSet({a, b})
  <2>1. IsFiniteSet({a}) /\ Cardinality({a}) = 1
    BY FS_Singleton
  <2>2. IsFiniteSet({a} \cup {b}) /\ Cardinality({a} \cup {b}) = Cardinality({a}) + 1
    BY <2>1, FS_AddElement
  <2>3. {a} \cup {b} = {a, b}
    OBVIOUS
  <2>4. QED
    BY <2>1, <2>2, <2>3
<1>5. Cardinality({a, b}) <= Cardinality(S)
  BY <1>3, FS_Subset
<1>6. Cardinality(S) \in Nat
  BY <1>3, FS_CardinalityType
<1>7. QED
  BY <1>4, <1>5, <1>6
==============================================================================
