------------------------------ MODULE WokFixity -----------------------------
(***************************************************************************)
(* Operator fixity in the C front end.  wok_resolve.c builds the table of   *)
(* a file (build_fixity), closes it (Warshall), reports its rings           *)
(* (check_fixity_cycles) and checks each chain (check_chain); wok_reorder.c *)
(* then splits each chain at its loosest operator (find_loosest,            *)
(* reorder_split).  A file declares operators one after another; a step     *)
(* reads a declaration, draws the edges of one, runs one round of Warshall, *)
(* or puts one more operator into a chain.                                  *)
(***************************************************************************)
EXTENDS Integers, Sequences, FiniteSets, SequencesExt

CONSTANTS Ops,                          \* spellings of operators
          MaxDecls, MaxRels, MaxChain   \* bounds: declarations and relations of a file, chain

VARIABLES
  stage,     \* "names", "edges", "closure", "rings" or "chains"
  decls,     \* the fixity declarations of the file
  known,     \* the table: spellings in the order they got an entry
  assoc,     \* spelling -> associativity of its entry
  declAt,    \* spelling -> the declaration its entry keeps, 0 for a placeholder
  order,     \* the matrix: <<i, j>> when i binds tighter than j
  next,      \* the row the stage is at
  rings,     \* spellings a circular order was reported at
  chain      \* the operators of a chain

vars == <<stage, decls, known, assoc, declAt, order, next, rings, chain>>

Entries  == ToSet(known)
Declared == {o \in Entries : declAt[o] # 0}

-----------------------------------------------------------------------------
(* The table.                                                              *)

RelCount == FoldSeq(LAMBDA d, n : n + Len(d.rels), 0, decls)
Rel   == [name : Ops, tighter : BOOLEAN]
Decls == [name : Ops, assoc : {"left", "right"},
          rels : UNION {[1 .. n -> Rel] : n \in 0 .. MaxRels}]

\* The neighbours of rels that have no entry yet, each once, as they come.
NewNames(rels, have) ==
  LET new[n \in 0 .. Len(rels)] ==
        IF n = 0 THEN <<>>
        ELSE IF rels[n].name \in have \cup ToSet(new[n - 1]) THEN new[n - 1]
        ELSE Append(new[n - 1], rels[n].name)
  IN  new[Len(rels)]

\* Pass 1 takes a declaration unless its operator has one already.
MutKept(d) == d.name \notin Entries
Kept(d) == d.name \notin Declared

ReadDecl(d) ==
  /\ stage = "names"
  /\ Len(decls) < MaxDecls
  /\ RelCount + Len(d.rels) <= MaxRels
  /\ decls' = Append(decls, d)
  /\ IF Kept(d)
       THEN LET head == IF d.name \in Entries THEN known ELSE Append(known, d.name)
            IN  /\ known' = head \o NewNames(d.rels, ToSet(head))
                /\ assoc' = [assoc EXCEPT ![d.name] = d.assoc]
                /\ declAt' = [declAt EXCEPT ![d.name] = Len(decls')]
       ELSE UNCHANGED <<known, assoc, declAt>>
  /\ UNCHANGED <<stage, order, next, rings, chain>>

EndNames ==
  /\ stage = "names"
  /\ stage' = IF decls = <<>> THEN "chains" ELSE "edges"
  /\ next' = 1
  /\ UNCHANGED <<decls, known, assoc, declAt, order, rings, chain>>

\* fix_is_winner: the declaration the table kept.
Winner(i) == declAt[decls[i].name] = i

EdgesOf(d) == {IF r.tighter THEN <<d.name, r.name>> ELSE <<r.name, d.name>> : r \in ToSet(d.rels)}

\* Pass 2.
DrawEdges ==
  /\ stage = "edges"
  /\ order' = IF Winner(next) THEN order \cup EdgesOf(decls[next]) ELSE order
  /\ IF next < Len(decls)
       THEN next' = next + 1 /\ stage' = stage
       ELSE next' = 1 /\ stage' = "closure"
  /\ UNCHANGED <<decls, known, assoc, declAt, rings, chain>>

\* Warshall: whoever reaches k reaches what k does.
Through(k) == {e \in Entries \X Entries : <<e[1], k>> \in order /\ <<k, e[2]>> \in order}

CloseRow ==
  /\ stage = "closure"
  /\ order' = order \cup Through(known[next])
  /\ IF next < Len(known)
       THEN next' = next + 1 /\ stage' = stage
       ELSE next' = 1 /\ stage' = "rings"
  /\ UNCHANGED <<decls, known, assoc, declAt, rings, chain>>

InRing(o)   == <<o, o>> \in order
SameRing(o, p) == <<o, p>> \in order /\ <<p, o>> \in order

\* Reported at the member that got its entry first.
RingHead(i) ==
  /\ InRing(known[i])
  /\ \A j \in 1 .. i - 1 : ~SameRing(known[i], known[j])

CheckRings ==
  /\ stage = "rings"
  /\ rings' = {known[i] : i \in {i \in DOMAIN known : RingHead(i)}}
  /\ stage' = "chains"
  /\ UNCHANGED <<decls, known, assoc, declAt, order, next, chain>>

-----------------------------------------------------------------------------
(* A chain.  Which file gave the table no longer matters.                  *)

AddOp(o) ==
  /\ stage = "chains"
  /\ Len(chain) < MaxChain
  /\ chain' = Append(chain, o)
  /\ decls' = <<>>
  /\ declAt' = [p \in Ops |-> IF declAt[p] = 0 THEN 0 ELSE 1]
  /\ next' = 1
  /\ rings' = {}
  /\ UNCHANGED <<stage, known, assoc, order>>

Tighter(o, p) == <<o, p>> \in order
Related(o, p) == o = p \/ Tighter(o, p) \/ Tighter(p, o)

\* Between the occurrences i and j one that separates them: looser than both,
\* or not known to this file.
MutShield(i, j, k) == Tighter(chain[i], chain[k]) /\ Tighter(chain[j], chain[k])
Shield(i, j, k) ==
  \/ chain[k] \notin Entries
  \/ Tighter(chain[i], chain[k]) /\ Tighter(chain[j], chain[k])

\* check_chain: it has nothing to report.
ChainPasses ==
  \A j \in DOMAIN chain : \A i \in 1 .. j - 1 :
    \/ {chain[i], chain[j]} \notin SUBSET Entries
    \/ Related(chain[i], chain[j])
    \/ \E k \in i + 1 .. j - 1 : Shield(i, j, k)

\* find_loosest over the occurrences lo .. hi; 0 when two have no order.
MutLater(best, i) ==
  CASE chain[i] = chain[best]          -> IF assoc[chain[best]] = "left" THEN i ELSE best
    [] Tighter(chain[i], chain[best])  -> best
    [] OTHER                           -> i
Later(best, i) ==
  CASE chain[i] = chain[best]          -> IF assoc[chain[best]] = "left" THEN i ELSE best
    [] Tighter(chain[i], chain[best])  -> best
    [] Tighter(chain[best], chain[i])  -> i
    [] OTHER                           -> 0
FindLoosest(lo, hi) ==
  LET best[i \in 0 .. hi] ==
        IF i <= lo THEN lo ELSE IF best[i - 1] = 0 THEN 0 ELSE Later(best[i - 1], i)
  IN  best[hi]

\* reorder_split: the chain falls apart to its operands and is never stuck.
Parts == {q \in (1 .. Len(chain) + 1) \X (0 .. Len(chain)) : q[1] <= q[2] + 1}
Reorders ==
  LET done[p \in Parts] ==
        p[1] > p[2] \/ LET m == FindLoosest(p[1], p[2])
                       IN  m # 0 /\ done[<<p[1], m - 1>>] /\ done[<<m + 1, p[2]>>]
  IN  done[<<1, Len(chain)>>]

\* check_neighbours and the look-up of reorder_chain let the chain in.
Placeable == Entries = Declared /\ ToSet(chain) \subseteq Entries

-----------------------------------------------------------------------------
Init ==
  /\ stage = "names"
  /\ decls = <<>> /\ known = <<>> /\ chain = <<>>
  /\ assoc = [o \in Ops |-> "left"]
  /\ declAt = [o \in Ops |-> 0]
  /\ order = {} /\ rings = {}
  /\ next = 1

Next ==
  \/ \E d \in Decls : ReadDecl(d)
  \/ EndNames
  \/ DrawEdges
  \/ CloseRow
  \/ CheckRings
  \/ \E o \in Ops : AddOp(o)

Spec == Init /\ [][Next]_vars

-----------------------------------------------------------------------------
(* What the table is for.                                                  *)

FirstDecls == {i \in DOMAIN decls : \A j \in 1 .. i - 1 : decls[j].name # decls[i].name}
Stated == UNION {EdgesOf(decls[i]) : i \in FirstDecls}

\* The order that E generates: each round reaches twice as far, and a path need
\* visit no entry twice.
Closed(E) ==
  LET size == Cardinality(Entries)
      reach[n \in 0 .. size] ==
        IF n = 0 THEN E
        ELSE reach[n - 1] \cup
               {e \in Entries \X Entries :
                  \E o \in Entries : <<e[1], o>> \in reach[n - 1] /\ <<o, e[2]>> \in reach[n - 1]}
  IN  reach[size]

MutualIn(o) == {p \in Entries : p = o \/ SameRing(o, p)}

\* The table is that of the first declaration of each operator: its
\* associativity, the order its relations generate and nothing a dropped
\* declaration named.  Rows are closed in place while neighbours may get their
\* declaration later or never (build_fixity).
TableRight ==
  stage \in {"rings", "chains"} /\ chain = <<>> =>
    /\ Declared = {decls[i].name : i \in FirstDecls}
    /\ Entries = Declared \cup UNION {{e[1], e[2]} : e \in Stated}
    /\ \A i \in FirstDecls : assoc[decls[i].name] = decls[i].assoc
    /\ order = Closed(Stated)

\* Each circular order is reported, and once, whatever its length and
\* wherever its members were declared (check_fixity_cycles).
RingsOnce ==
  stage = "chains" /\ chain = <<>> =>
    \A o \in Entries : Cardinality(rings \cap MutualIn(o)) = IF InRing(o) THEN 1 ELSE 0

\* The split rule: lo .. hi has one loosest occurrence, or associativity
\* chooses among those of one operator.
LooseAt(lo, hi, ord) ==
  {m \in lo .. hi : \A i \in lo .. hi : 
     \/ <<chain[i], chain[m]>> \in ord
     \/ chain[i] = chain[m] /\ (IF assoc[chain[m]] = "left" THEN i <= m ELSE m <= i)}

\* Every part the rule comes to has one.
MeansSomething(ord) ==
  LET fine[p \in Parts] ==
        \/ p[1] > p[2]
        \/ \E m \in LooseAt(p[1], p[2], ord) : fine[<<p[1], m - 1>>] /\ fine[<<m + 1, p[2]>>]
  IN  fine[<<1, Len(chain)>>]

Acyclic == \A o \in Ops : ~InRing(o)

\* For a chain the reorder pass accepts, three answers agree: the pairwise
\* check of check_chain, the greedy scan of find_loosest and the split rule;
\* and the scan splits where the rule does.
ShieldIsSplit ==
  (stage = "chains" /\ chain # <<>> /\ Acyclic /\ Placeable) =>
    /\ ChainPasses <=> MeansSomething(order)
    /\ Reorders <=> MeansSomething(order)
    /\ Reorders => \A p \in Parts : LooseAt(p[1], p[2], order) \subseteq {FindLoosest(p[1], p[2])}

\* Orders that declarations elsewhere can make of this one: what is declared
\* here stays as it is.
Extensions ==
  {E \in SUBSET (Ops \X Ops) :
     /\ order \subseteq E
     /\ \A o, p, q \in Ops : <<o, p>> \in E /\ <<p, q>> \in E => <<o, q>> \in E
     /\ \A o \in Ops : <<o, o>> \notin E
     /\ E \cap (Declared \X Declared) = order \cap (Declared \X Declared)}

FaultStands == ~ChainPasses => \A E \in Extensions : ~MeansSomething(E)

\* Where every entry is a declaration, a fault of check_chain is one whatever
\* the operators of other files turn out to be: "a check that can be wrong is
\* worse than no check".
PartialIsHonest ==
  (stage = "chains" /\ Len(chain) >= 2 /\ Acyclic /\ Entries = Declared) => FaultStands

\* The same for every table; violated where two placeholders meet.
AlwaysHonest == (stage = "chains" /\ Len(chain) >= 2 /\ Acyclic) => FaultStands
=============================================================================
