------------------------------- MODULE RcCont -------------------------------
(***************************************************************************)
(* Effect handlers on the reference-counted heap                           *)
(* (src/src/Wok/Interp/RC/Machine.hs): what a performed operation captures *)
(* becomes a heap cell that owns the captured frames, and the cell is      *)
(* resumed, dropped, or parked in a continuation cell.  A program is any   *)
(* sequence of steps a reference-balanced, paired and admitted one may     *)
(* take; how activations choose among them is left open.                   *)
(*                                                                         *)
(* Left out: operation arguments (they move as call arguments do),         *)
(* handlers in value position, and an arm that neither resumes, stores nor *)
(* drops its continuation (the repository documents that leak).            *)
(***************************************************************************)
EXTENDS RcStore, Integers, Sequences, FiniteSets
LOCAL INSTANCE FiniteSetsExt

CONSTANTS Slots,  \* the variables of an activation
          Labels, \* effect labels
          Modes   \* the classes of runs: [backend, park: whether continuations may be
                  \* parked in cells, alias: whether one binder may own one value in two
                  \* captured frames, labels: the effects in use, and the bounds
                  \* allocs: cells ever allocated, depth: frames on the continuation]

VARIABLES st,    \* the store
          cur,   \* the running activation
          kont,  \* the frames below it, innermost first
          mode   \* the class of the run
vars == <<st, cur, kont, mode>>

Box == Con("Box", <<Lit("small")>>)

\* An activation, and the "let" frame it leaves when it waits: what it still
\* owns, the reuse tokens in its scope, the one not yet spent, the continuation
\* cells it made itself, whether the pairing pass has been over its body and
\* whether its function may be active again; of a handler arm, the label, the
\* slot of the handler's parameter and the resume binder.
NoValues == [x \in Slots |-> Empty]
Body(own, again) ==
  [k |-> "let", own |-> own, toks |-> {}, pend |-> NullToken, fresh |-> {},
   paired |-> TRUE, again |-> again, label |-> "", par |-> {}, resume |-> Empty]
\* The return arm gets a value, an operation's arm the continuation.
Arm(h, x, v, y) ==
  [Body([NoValues EXCEPT ![x] = v, ![y] = h.param], FALSE) EXCEPT
     !.paired = FALSE, !.label = h.label, !.par = IF h.param = Empty THEN {} ELSE {y}]
OpArm(h, x, v, y) == [Arm(h, x, v, y) EXCEPT !.resume = v]
HandleFrame(label, param) == [k |-> "handle", label |-> label, param |-> param]

Init == /\ mode \in Modes
        /\ st   = EmptyStore(mode.backend)
        /\ cur  = Body(NoValues, FALSE)
        /\ kont = <<>>

Running == st.err = "none"
CanAlloc == st.stats.allocs < mode.allocs
Held(x)  == cur.own[x] # Empty
Vacant(x) == cur.own[x] = Empty
Kind(x)  == IF Held(x) THEN st.cells[cur.own[x]].node.con ELSE "none"
Windowless == cur.pend = NullToken

\* The activation with slot x given value v, or with slots emptied.
With(act, x, v) == [act EXCEPT !.own[x] = v]
Without(act, moved) ==
  [act EXCEPT !.own    = [x \in Slots |-> IF x \in moved THEN Empty ELSE @[x]],
              !.fresh  = @ \ {act.own[x] : x \in moved \cap Slots},
              !.par    = @ \ moved,
              !.resume = IF \E x \in moved \cap Slots : act.own[x] = @ THEN Empty ELSE @]
\* The frame an activation leaves when it waits, none when it has no more to do.
Waiting(act) == IF act.own = NoValues /\ act.pend = NullToken THEN <<>> ELSE <<act>>

\* The references a list of frames holds.
Edges(fs) == {<<i, x>> \in Let(fs) \X Slots : fs[i].own[x] # Empty}
             \cup {<<i>> : i \in {i \in DOMAIN fs \ Let(fs) : fs[i].param # Empty}}

\* let x = Box 1
NewBox(x) ==
  /\ Running /\ CanAlloc /\ Vacant(x)
  /\ LET r == Alloc(Box, st)
     IN st' = r.s /\ cur' = With(cur, x, r.a)
  /\ UNCHANGED <<kont, mode>>

\* __rc_dup: only of data; continuations and cells are affine.
Dup(x, y) ==
  /\ Running /\ Kind(x) = "Box" /\ Vacant(y)
  /\ st'  = Incref(cur.own[x], st)
  /\ cur' = With(cur, y, cur.own[x])
  /\ UNCHANGED <<kont, mode>>

\* __rc_drop: of data, of a cell, or of a continuation (the abort).
Drop(x) ==
  /\ Running /\ Held(x)
  /\ st'  = DropAddr(cur.own[x], st)
  /\ cur' = Without(cur, {x})
  /\ UNCHANGED <<kont, mode>>

\* __rc_drop_reuse.  The pairing pass leaves handler arms alone.
Donate(x) ==
  /\ Running /\ cur.paired /\ Windowless /\ Kind(x) = "Box"
  /\ LET r == DropReuse(cur.own[x], st)
     IN /\ st'  = r.s
        /\ cur' = [Without(cur, {x}) EXCEPT
                     !.pend = r.tok,
                     !.toks = IF r.tok = NullToken THEN @ ELSE @ \cup {r.tok}]
  /\ UNCHANGED <<kont, mode>>

\* alloc_at: the token is spent, and stays in scope.
Reuse(x) ==
  /\ Running /\ ~Windowless /\ Vacant(x)
  /\ LET r == AllocAt(cur.pend, Box, st)
     IN st' = r.s /\ cur' = [With(cur, x, r.a) EXCEPT !.pend = NullToken]
  /\ UNCHANGED <<kont, mode>>

\* A call moves its arguments; a continuation is no argument.  The caller's
\* frame is elided when the call is its last act.
Call ==
  /\ Running /\ Len(kont) < mode.depth
  /\ \E args \in SUBSET {x \in Slots : Kind(x) \in {"Box", "NContCell"}} :
       /\ cur'  = Body([x \in Slots |-> IF x \in args THEN cur.own[x] ELSE Empty],
                       mode.alias)
       /\ kont' = Waiting(Without(cur, args)) \o kont
  /\ UNCHANGED <<st, mode>>

\* The activation ends owning at most its result, a box, which goes to the
\* caller or through the handler's return arm.
Results == {Empty} \cup {cur.own[x] : x \in {x \in Slots : Kind(x) = "Box"}}
Owns(act, vs) ==
  /\ \A x \in Slots : act.own[x] \in vs \cup {Empty}
  /\ \A v \in vs \ {Empty} : Cardinality({x \in Slots : act.own[x] = v}) = 1
Return ==
  /\ Running /\ Windowless /\ kont # <<>>
  /\ \E v \in Results, x \in Slots :
       /\ Owns(cur, {v})
       /\ IF Head(kont).k = "let"
            THEN Head(kont).own[x] = Empty /\ cur' = With(Head(kont), x, v)
            ELSE \E y \in Slots \ {x} : cur' = Arm(Head(kont), x, v, y)
  /\ kont' = Tail(kont)
  /\ UNCHANGED <<st, mode>>

\* Handle: the frame takes the handler's parameter.
Install(label) ==
  /\ Running /\ Len(kont) < mode.depth /\ Windowless /\ label \in mode.labels
  /\ \E moved \in {{}} \cup {{x} : x \in {x \in Slots : Kind(x) = "Box"}} :
       /\ kont' = <<HandleFrame(label, IF moved = {} THEN Empty
                                       ELSE cur.own[CHOOSE x \in moved : TRUE])>> \o kont
       /\ cur'  = Without(cur, moved)
  /\ UNCHANGED <<st, mode>>

\* An operation: the frames above the nearest handler of its label move into
\* a continuation cell, and the handler's arm runs below with the cell and
\* the parameter.  No reuse window spans an operation.
Handlers(label) == {i \in DOMAIN kont : kont[i].k = "handle" /\ kont[i].label = label}
Aliased(fs) == Cardinality(OwnedEdges(fs)) # Cardinality(Edges(fs))
Perform(label) ==
  /\ Running /\ CanAlloc /\ Windowless /\ Handlers(label) # {}
  /\ LET i  == Min(Handlers(label))
         fs == <<cur>> \o SubSeq(kont, 1, i - 1)
         r  == Alloc(Cont(fs, kont[i]), st)
     IN /\ mode.alias \/ ~Aliased(fs)
        /\ st'   = r.s
        /\ kont' = SubSeq(kont, i + 1, Len(kont))
        /\ \E x \in Slots : \E y \in Slots \ {x} : cur' = OpArm(kont[i], x, r.a, y)
  /\ UNCHANGED mode

\* resume newParam result: the frames go back, under the handler again, above
\* the arm's own frame.  The arm's frame is a call frame, elided like one.
Resume(x) ==
  /\ Running /\ Kind(x) = "NCont"
  /\ LET node == st.cells[cur.own[x]].node
         s1   == MoveOutCont(cur.own[x], st)
         top  == Head(node.fs)
     IN /\ st' = s1
        /\ \E p, v \in {Empty} \cup {y \in Slots : Kind(y) = "Box"}, z \in Slots :
             /\ p = v => p = Empty
             /\ (p = Empty) = (node.h.param = Empty)
             /\ top.own[z] = Empty
             /\ LET Val(y) == IF y = Empty THEN Empty ELSE cur.own[y]
                    h      == [node.h EXCEPT !.param = Val(p)]
                IN /\ cur'  = With(top, z, Val(v))
                   /\ kont' = Tail(node.fs) \o <<h>> \o Waiting(Without(cur, {x, p, v})) \o kont
  /\ Len(kont') <= mode.depth
  /\ UNCHANGED mode

\* __cont_cell_new
CellNew(x) ==
  /\ Running /\ mode.park /\ CanAlloc /\ Vacant(x)
  /\ LET r == Alloc(ContCell(<<>>), st)
     IN st' = r.s /\ cur' = [With(cur, x, r.a) EXCEPT !.fresh = @ \cup {r.a}]
  /\ UNCHANGED <<kont, mode>>

\* __cont_store: an arm's own resume goes into a cell the arm itself made
\* (m3CarrierWallViolations); nothing restricts one taken from a cell.
CellStore(x, y) ==
  /\ Running /\ Kind(x) = "NContCell" /\ Kind(y) = "NCont"
  /\ st.cells[cur.own[x]].node.fs = <<>>
  /\ cur.own[y] = cur.resume => cur.own[x] \in cur.fresh
  /\ st'  = ContStore(cur.own[x], cur.own[y], st)
  /\ cur' = Without(cur, {y})
  /\ UNCHANGED <<kont, mode>>

\* __cont_take borrows the cell.
CellTake(x, y) ==
  /\ Running /\ Kind(x) = "NContCell" /\ Vacant(y)
  /\ st.cells[cur.own[x]].node.fs # <<>>
  /\ LET r == ContTake(cur.own[x], st)
     IN st' = r.s /\ cur' = With(cur, y, r.a)
  /\ UNCHANGED <<kont, mode>>

Next == \/ \E x \in Slots : \/ NewBox(x) \/ Drop(x) \/ Donate(x) \/ Reuse(x)
                            \/ Resume(x) \/ CellNew(x)
                            \/ \E y \in Slots \ {x} :
                                 Dup(x, y) \/ CellStore(x, y) \/ CellTake(x, y)
        \/ \E label \in Labels : Install(label) \/ Perform(label)
        \/ Call \/ Return

Spec == Init /\ [][Next]_vars

-----------------------------------------------------------------------------
\* The frames of the machine and of every continuation on the heap.
Conts  == {a \in DOMAIN st.cells : st.cells[a].node.con = "NCont"}
Frames == <<cur>> \o kont
AllFrames == {Frames} \cup {st.cells[a].node.fs : a \in Conts}
Target(fs, e) == IF Len(e) = 2 THEN fs[e[1]].own[e[2]] ELSE fs[e[1]].param
Count(a, fs)  == Cardinality({e \in Edges(fs) : Target(fs, e) = a})

\* No run meets one of the interpreter's loud errors: a double free, a dead
\* cell, a shell reclaimed twice, a second resume of one continuation
\* (dropAddr, moveOutCont, freeReservation, contStore).
NoError == st.err = "none"

\* A cell's count is the number of its owners: slots of the running
\* activation, of waiting ones and of those captured on the heap, handler
\* parameters, and continuation cells.
Owners(a) ==
  LET OnHeap(b) ==
        LET n == st.cells[b].node
        IN CASE n.con = "NCont"     -> Count(a, n.fs)
             [] n.con = "NContCell" -> Cardinality({i \in DOMAIN n.fs : n.fs[i] = a})
             [] OTHER               -> 0
  IN Count(a, Frames) + MapThenSumSet(OnHeap, DOMAIN st.cells)
RcExact == \A a \in DOMAIN st.cells : st.cells[a].rc = Owners(a)

\* Nothing leaks and nothing dangles: the cells on the heap are those the
\* machine's frames reach, through captured frames and parked ones.  A cycle between a cell and
\* the continuation parked in it would be such a leak: the two-cell one that
\* contStore's own check does not see (the carrier wall) included.
TargetsOf(fs) == {Target(fs, e) : e \in Edges(fs)}
Below(a) ==
  LET n == st.cells[a].node
  IN CASE n.con = "NCont"     -> TargetsOf(n.fs)
       [] n.con = "NContCell" -> {n.fs[i] : i \in DOMAIN n.fs}
       [] OTHER               -> {}
RECURSIVE Closure(_)
Closure(as) ==
  LET more == as \cup UNION {Below(a) : a \in as \cap DOMAIN st.cells}
  IN IF more = as THEN as ELSE Closure(more)
NoOrphans == DOMAIN st.cells = Closure(TargetsOf(Frames))

\* Every reserved shell is held by exactly one unspent token, of the running
\* activation, a waiting one or a captured one, and is neither a cell nor
\* free memory meanwhile: what continuationReservations must tell from spent
\* tokens when a continuation is dropped.
Pending == UNION {{<<fs, i>> : i \in {i \in Let(fs) : fs[i].pend # NullToken}} : fs \in AllFrames}
TokensHeld ==
  /\ st.reserved = {p[1][p[2]].pend.a : p \in Pending}
  /\ Cardinality(st.reserved) = Cardinality(Pending)
  /\ st.reserved \cap DOMAIN st.cells = {}
  /\ \A n \in DOMAIN st.pool : \A i \in DOMAIN st.pool[n] :
       st.pool[n][i] \notin st.reserved \cup DOMAIN st.cells
=============================================================================
