------------------------------ MODULE RcParity ------------------------------
(***************************************************************************)
(* One program on both backends of the RC interpreter at once.  The        *)
(* program is whatever a reference-balanced one may do: it owns references *)
(* in a few slots, and every step consumes or produces them as the         *)
(* instrumented code does (a constructor moves its fields in, a projection *)
(* takes its own reference, a match may turn its scrutinee into a reuse    *)
(* token).  Both stores do each step with their own addresses; the oracle  *)
(* of the repository's tests is that nothing but addresses may differ.     *)
(***************************************************************************)
EXTENDS RcStore

CONSTANTS Slots,    \* the program's variables
          ArityOf,  \* the arity of each constructor
          Programs  \* the classes of programs: the slots they use, the atoms
                    \* (literals or "nullary") they put in constructors, in new
                    \* arrays, in arrays by set and in arena constructors, and the
                    \* bounds: counted allocations; arena births and open scopes

Backends == {"abs", "c"}
Atoms    == {"small", "char", "big", "nullary"}

ASSUME ParityAssumption ==
  /\ IsFiniteSet(Slots) /\ Slots \cap Atoms = {}
  /\ ArityOf \in [Constructors -> Nat \ {0}]
  /\ \A p \in Programs : p.lits \cup p.news \cup p.sets \cup p.arenas \subseteq Atoms

VARIABLES st,   \* the two stores
          env,  \* what each slot holds, per backend
          tok,  \* the reuse token in flight, per backend
          shape, \* the constructor and static field classes it may be spent on
          prog  \* the class of the program
vars == <<st, env, tok, shape, prog>>

NoShape == <<>>

Init == /\ st    = [b \in Backends |-> EmptyStore(b)]
        /\ env   = [b \in Backends |-> [x \in Slots |-> Empty]]
        /\ tok   = [b \in Backends |-> NullToken]
        /\ shape = NoShape
        /\ prog \in Programs

\* An error in either store ends both runs.
Running == \A b \in Backends : st[b].err = "none"

Free(x)  == x \in prog.slots /\ env["abs"][x] = Empty
Held(x)  == env["abs"][x] # Empty
Boxed(x) == IsCounted(env["abs"][x])
\* An arena value does not escape: it enters no cell.
Escapes(x) == Held(x) /\ ~IsArena(env["abs"][x], st["abs"])
NodeAt(b, x) == st[b].cells[env[b][x]].node

\* The fields of a new cell: owned slots, each moved at most once, or literals.
Storable(x, lits) == Escapes(x) /\ (env["abs"][x][1] = "lit" => env["abs"][x][2] \in lits)
Sources(n, lits) ==
  {as \in [1 .. n -> {x \in Slots : Storable(x, lits)} \cup lits] :
     \A i, j \in 1 .. n : (i # j /\ as[i] \in Slots) => as[i] # as[j]}
Atom(w)       == IF w = "nullary" THEN Inline ELSE Lit(w)
Value(b, a)   == IF a \in Slots THEN env[b][a] ELSE Atom(a)
Values(b, as) == [i \in DOMAIN as |-> Value(b, as[i])]
Moved(as)     == {as[i] : i \in DOMAIN as} \cap Slots

\* The static class of a field, as the pairing pass sees its type: a literal
\* of either width is an integer.
StaticClass(v) == IF v[1] # "lit" THEN "ptr"
                  ELSE IF v[2] = "char" THEN "char" ELSE "int"
StaticClasses(vs) == [i \in DOMAIN vs |-> StaticClass(vs[i])]

\* Give every backend's result to slot x and take the moved slots away.
Deliver(x, as, r) ==
  /\ st'  = [b \in Backends |-> r[b].s]
  /\ env' = [b \in Backends |->
              [y \in Slots |-> IF y = x THEN r[b].a
                               ELSE IF y \in Moved(as) THEN Empty ELSE env[b][y]]]

CanAlloc == st["abs"].stats.allocs < prog.maxAllocs
CanTake(x, as) == Free(x) \/ x \in Moved(as)

\* let x = c as
MakeCon(x) ==
  /\ Running /\ CanAlloc
  /\ \E c \in Constructors : \E as \in Sources(ArityOf[c], prog.lits) :
       /\ CanTake(x, as)
       /\ Deliver(x, as, [b \in Backends |-> Alloc(Con(c, Values(b, as)), st[b])])
  /\ UNCHANGED <<tok, shape, prog>>

\* __rc_dup, into a second slot (of a value with no address, it does nothing).
Dup(x, y) ==
  /\ Running /\ Boxed(x) /\ Free(y)
  /\ st'  = [b \in Backends |-> Incref(env[b][x], st[b])]
  /\ env' = [b \in Backends |-> [env[b] EXCEPT ![y] = env[b][x]]]
  /\ UNCHANGED <<tok, shape, prog>>

\* __rc_drop.
Drop(x) ==
  /\ Running /\ Held(x)
  /\ st'  = [b \in Backends |-> DropAddr(env[b][x], st[b])]
  /\ env' = [b \in Backends |-> [env[b] EXCEPT ![x] = Empty]]
  /\ UNCHANGED <<tok, shape, prog>>

\* A field read out of a matched cell, and its own reference taken.
Project(x, y) ==
  /\ Running /\ Boxed(x) /\ Free(y)
  /\ \E i \in DOMAIN NodeAt("abs", x).fs :
       LET v(b) == FieldsOf(env[b][x], st[b])[i]
       IN /\ st'  = [b \in Backends |-> Incref(v(b), st[b])]
          /\ env' = [b \in Backends |-> [env[b] EXCEPT ![y] = v(b)]]
  /\ UNCHANGED <<tok, shape, prog>>

\* The drop of a matched constructor that the pairing pass turned into a
\* donor; one pair at a time.
Donate(x) ==
  /\ Running /\ Boxed(x) /\ shape = NoShape
  /\ NodeAt("abs", x).con \in Constructors
  /\ LET R(b) == DropReuse(env[b][x], st[b])
     IN /\ st'  = [b \in Backends |-> R(b).s]
        /\ tok' = [b \in Backends |-> R(b).tok]
  /\ UNCHANGED prog
  /\ env'   = [b \in Backends |-> [env[b] EXCEPT ![x] = Empty]]
  /\ shape' = <<NodeAt("abs", x).con, StaticClasses(NodeAt("abs", x).fs)>>

\* The paired allocation: same constructor, same static classes.
Reuse(x) ==
  /\ Running /\ shape # NoShape /\ CanAlloc
  /\ \E as \in Sources(Len(shape[2]), prog.lits) :
       /\ StaticClasses(Values("abs", as)) = shape[2]
       /\ CanTake(x, as)
       /\ Deliver(x, as, [b \in Backends |->
            AllocAt(tok[b], Con(shape[1], Values(b, as)), st[b])])
  /\ tok'   = [b \in Backends |-> NullToken]
  /\ shape' = NoShape
  /\ UNCHANGED prog

\* Array.new 2 v: one reference moved in, one more taken.
ArrayNew(x) ==
  /\ Running /\ CanAlloc
  /\ \E as \in Sources(1, prog.news) :
       /\ CanTake(x, as)
       /\ Deliver(x, as, [b \in Backends |->
            LET v == Value(b, as[1])
            IN Alloc(Array(<<v, v>>), Incref(v, st[b]))])
  /\ UNCHANGED <<tok, shape, prog>>

\* Array.set: in place when the array is unique and the element fits a slot;
\* otherwise a copy, every other element retained, and the array dropped.
\* Mutant: the copy forgets to retain the element it shares with the old array.
MutSetElement(a, i, v, s) ==
  LET old  == FieldsOf(a, s)
      new  == [old EXCEPT ![i] = v]
      s1   == [s EXCEPT !.cells[a].node.fs = new]
      kept == Alloc(Array(new), s)
  IN IF s.cells[a].rc = 1 /\ Encodable(<<v>>)
       THEN IF a[1] = "C" /\ SlotKind(v) # SlotKind(old[1])
              THEN [a |-> a, s |-> Fail("arraySetSlotInPlace: slot kind", s)]
            ELSE [a |-> a, s |-> DropAddr(old[i], s1)]
     ELSE [kept EXCEPT !.s = IF kept.s.err = "none" THEN DropAddr(a, @) ELSE @]
SetElement(a, i, v, s) ==
  LET old  == FieldsOf(a, s)
      new  == [old EXCEPT ![i] = v]
      s1   == [s EXCEPT !.cells[a].node.fs = new]
      kept == Alloc(Array(new), Incref(old[3 - i], s))
  IN IF s.cells[a].rc = 1 /\ Encodable(<<v>>)
       THEN IF a[1] = "C" /\ SlotKind(v) # SlotKind(old[1])
              THEN [a |-> a, s |-> Fail("arraySetSlotInPlace: slot kind", s)]
            ELSE [a |-> a, s |-> DropAddr(old[i], s1)]
     ELSE [kept EXCEPT !.s = IF kept.s.err = "none" THEN DropAddr(a, @) ELSE @]

ArraySet(x) ==
  /\ Running /\ Boxed(x) /\ CanAlloc
  /\ NodeAt("abs", x).con = "Array"
  /\ \E i \in 1 .. 2, as \in Sources(1, prog.sets) :
       /\ as[1] # x
       /\ StaticClass(Value("abs", as[1])) = StaticClass(NodeAt("abs", x).fs[1])
       /\ Deliver(x, as, [b \in Backends |->
            SetElement(env[b][x], i, Value(b, as[1]), st[b])])
  /\ UNCHANGED <<tok, shape, prog>>

\* An activation whose body has arena binders opens a scope on entry, births
\* them there, and on exit closes it; their names are out of scope then.
OpenArena ==
  /\ Running /\ Len(st["abs"].arena) < prog.maxArenas
  /\ st' = [b \in Backends |-> ArenaOpen(st[b])]
  /\ UNCHANGED <<env, tok, shape, prog>>

ArenaBirths == st["abs"].next - st["abs"].stats.allocs
MakeArena(x) ==
  /\ Running /\ st["abs"].arena # <<>> /\ ArenaBirths < prog.maxArenas
  /\ \E c \in Constructors : \E as \in Sources(ArityOf[c], prog.arenas) :
       /\ CanTake(x, as)
       /\ Deliver(x, as, [b \in Backends |-> ArenaAlloc(Con(c, Values(b, as)), st[b])])
  /\ UNCHANGED <<tok, shape, prog>>

CloseArena ==
  /\ Running /\ st["abs"].arena # <<>>
  /\ st'  = [b \in Backends |-> ArenaClose(st[b])]
  /\ env' = [b \in Backends |->
              [x \in Slots |-> IF env["abs"][x] \in Head(st["abs"].arena)
                               THEN Empty ELSE env[b][x]]]
  /\ UNCHANGED <<tok, shape, prog>>

Next == \/ \E x \in Slots : \/ MakeCon(x) \/ Drop(x) \/ Donate(x) \/ Reuse(x)
                            \/ ArrayNew(x) \/ ArraySet(x) \/ MakeArena(x)
                            \/ \E y \in Slots : Dup(x, y) \/ Project(x, y)
        \/ OpenArena \/ CloseArena

Spec == Init /\ [][Next]_vars

-----------------------------------------------------------------------------
Arena(b)   == {a \in DOMAIN st[b].cells : IsArena(a, st[b])}
Counted(b) == DOMAIN st[b].cells \ Arena(b)

\* No balanced program meets a double free, a dead cell, a shell reclaimed
\* twice or an element that cannot be stored: the loud guards of
\* RC/Value.hs (dropAddr, incref, allocNArray, reuseCConAt) stay silent.
NoError == \A b \in Backends : st[b].err = "none"

\* One backend stops on an error exactly when the other does.
ErrorsAgree == st["abs"].err = st["c"].err

\* A counted cell's count is the number of its owners: the program's slots
\* and the fields of live cells, those of the uncounted arena included.
Owners(b, a) ==
  LET cells == st[b].cells
  IN Cardinality({x \in Slots : env[b][x] = a})
       + Cardinality({p \in Places(cells) : cells[p[1]].node.fs[p[2]] = a})
RcExact == \A b \in Backends : \A a \in Counted(b) : st[b].cells[a].rc = Owners(b, a)

\* The books: the live count is the counted cells and the reserved shells,
\* the live bytes are theirs, the arena's bytes are the arena's cells'.
BooksExact ==
  \A b \in Backends :
    LET s == st[b]
        Bytes(as) == SumFunction([a \in as |-> s.cells[a].bytes])
    IN /\ s.stats.live  = Cardinality(Counted(b)) + Cardinality(s.reserved)
       /\ s.stats.cur   = Bytes(Counted(b)) + tok[b].bytes
       /\ s.stats.arena = Bytes(Arena(b))

\* Exactly the shell of the token in flight is reserved (stReserved), off the
\* cell map and not handed out again.
ReservedHeld ==
  \A b \in Backends :
    /\ st[b].reserved = {tok[b].a} \ {Empty}
    /\ st[b].reserved \cap DOMAIN st[b].cells = {}
    /\ \A n \in DOMAIN st[b].pool : \A i \in DOMAIN st[b].pool[n] :
         st[b].pool[n][i] \notin st[b].reserved \cup DOMAIN st[b].cells
=============================================================================
