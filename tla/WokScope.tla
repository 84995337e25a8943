------------------------------ MODULE WokScope ------------------------------
(***************************************************************************)
(* Write-locality (D27) in the C front end, wok_resolve.c: the walk that     *)
(* decides whether `x := e` writes a slot of the handler whose clause the    *)
(* write stands in.  The walk goes down a program that is chosen as it goes: *)
(* a step enters a construct with the context the code gives it (sc_node,   *)
(* sc_handler, sc_bind, sc_block), binds a name in a block, or leaves a      *)
(* construct, which brings the context back to what it was around it.        *)
(*                                                                         *)
(* trail is the program's own account of where the walk stands: the          *)
(* binders and the functions around it.  The code does not keep it; the      *)
(* properties ask it what a write means.                                    *)
(***************************************************************************)
EXTENDS Integers, Sequences, FiniteSets, SequencesExt

CONSTANTS Names,
          MaxDepth, MaxBinders, MaxHandlers   \* bounds

VARIABLES
  env,       \* SC.env: what is in scope, innermost last
  frame,     \* SC.frame: the activation whose clause the walk is directly in
  nframe,    \* SC.nframe: activations numbered so far
  initb,     \* SC.init_batons
  stack,     \* the constructs entered, with what each restores
  trail      \* the binders and boundaries around the walk

vars == <<env, frame, nframe, initb, stack, trail>>

Value(x)    == [name |-> x, baton |-> FALSE, frame |-> 0]
Baton(x, f) == [name |-> x, baton |-> TRUE, frame |-> f]
Values(xs)  == [i \in DOMAIN xs |-> Value(xs[i])]

\* Sequences of at most n names: what a pattern or a list of arguments binds.
UpTo(n) == UNION {[1 .. k -> Names] : k \in 0 .. n}

-----------------------------------------------------------------------------
(* The trail.  A part is "fun" (a lambda, an equation), "clause" (of the     *)
(* handler that declares vars), "init" (an initialiser of one) or "scope";   *)
(* binds are its names, where those of its where block.                     *)

Part(kind, vars_, binds, where) ==
  [kind |-> kind, vars |-> vars_, binds |-> binds, where |-> where]

-----------------------------------------------------------------------------
(* Entering and leaving.                                                   *)

Top == stack[Len(stack)]
\* Expressions are read everywhere but between the clauses of a handler.
InExpr == stack # <<>> => Top.kind # "handler"
Room(n) == Len(stack) < MaxDepth /\ Len(env) + n <= MaxBinders

Enter(kind, name, part) ==
  /\ stack' = Append(stack, [kind |-> kind, name |-> name, env |-> env, frame |-> frame,
                             initb |-> initb, nframe |-> nframe])
  /\ trail' = Append(trail, part)

\* E_Lambda, D_Equation: a boundary that binds its arguments.
EnterFunction(args) ==
  /\ InExpr /\ Room(Len(args))
  /\ Enter("fun", "", Part("fun", {}, ToSet(args), {}))
  /\ env' = env \o Values(args)
  /\ frame' = 0
  /\ UNCHANGED <<nframe, initb>>

\* sc_bind, a local function: it is in scope in its own body.
EnterLetFunction(f, args) ==
  /\ stack # <<>> => Top.kind = "scope"
  /\ stack # <<>> /\ Room(1 + Len(args))
  /\ Enter("letfun", f, Part("fun", {}, {f} \cup ToSet(args), {}))
  /\ env' = Append(env, Value(f)) \o Values(args)
  /\ frame' = 0
  /\ UNCHANGED <<nframe, initb>>

\* sc_block, E_LetIn, E_HandleIn, E_UseIn, H_Alt: a scope, no boundary.  The
\* equations of a where block are walked before the body, their names not
\* pushed; bound: only a scope has one here, an equation's is treated alike.
EnterScope(binds, where) ==
  /\ InExpr /\ Room(Len(binds))
  /\ Enter("scope", "", Part("scope", {}, ToSet(binds), where))
  /\ env' = env \o Values(binds)
  /\ UNCHANGED <<frame, nframe, initb>>

\* A `let` of a value or of a pattern, a `handle` label, a `use ... as`: in
\* scope for the rest of the block.
BindHere(x) ==
  /\ stack # <<>> => Top.kind = "scope"
  /\ stack # <<>> /\ Len(env) < MaxBinders
  /\ env' = Append(env, Value(x))
  /\ trail' = [trail EXCEPT ![Len(trail)].binds = @ \cup {x}, ![Len(trail)].where = @ \ {x}]
  /\ UNCHANGED <<frame, nframe, initb, stack>>

\* sc_handler: the slots of the literal are in scope in all its clauses.
EnterHandler(xs) ==
  /\ InExpr /\ Room(Len(xs)) /\ nframe < MaxHandlers
  /\ Enter("handler", "", Part("handler", ToSet(xs), {}, {}))
  /\ nframe' = nframe + 1
  /\ env' = env \o [i \in DOMAIN xs |-> Baton(xs[i], nframe')]
  /\ UNCHANGED <<frame, initb>>

\* The frame of the literal being walked: its number when it was entered.
OwnFrame == Top.nframe + 1

\* A clause: arguments, and the continuation as one more.
EnterClause(args) ==
  /\ ~InExpr /\ Room(Len(args))
  /\ Enter("clause", "", Part("clause", trail[Len(trail)].vars, ToSet(args), {}))
  /\ env' = env \o Values(args)
  /\ frame' = OwnFrame
  /\ UNCHANGED <<nframe, initb>>

\* A var clause: its initialiser is walked where the literal stands.
EnterInit ==
  /\ ~InExpr /\ Room(0) /\ trail[Len(trail)].vars # {}
  /\ Enter("init", "", Part("init", trail[Len(trail)].vars, {}, {}))
  /\ env' = Top.env
  /\ frame' = Top.frame
  /\ initb' = env
  /\ UNCHANGED nframe

\* The context around comes back; the numbering goes on.
MutFrameOf(top) == IF top.kind = "letfun" THEN frame ELSE top.frame
FrameOf(top) == top.frame
Leave ==
  /\ stack # <<>>
  /\ env' = IF Top.kind = "letfun" THEN Append(Top.env, Value(Top.name)) ELSE Top.env
  /\ frame' = FrameOf(Top)
  /\ initb' = Top.initb
  /\ stack' = Front(stack)
  /\ trail' = LET up == Front(trail) IN
       IF Top.kind = "letfun"
         THEN [up EXCEPT ![Len(up)].binds = @ \cup {Top.name}, ![Len(up)].where = @ \ {Top.name}]
         ELSE up
  /\ UNCHANGED nframe

-----------------------------------------------------------------------------
(* A write: check_assign.                                                  *)

Found(P(_)) == LET hits == {i \in DOMAIN env : P(env[i])}
               IN  IF hits = {} THEN [name |-> "", baton |-> FALSE, frame |-> -1]
                   ELSE env[CHOOSE i \in hits : \A j \in hits : j <= i]
Lookup(x)      == Found(LAMBDA s : s.name = x)
LookupBaton(x) == Found(LAMBDA s : s.name = x /\ s.baton)
None(s) == s.frame = -1
Here(s) == s.baton /\ s.frame = frame /\ frame # 0

Verdict(x) ==
  LET found == Lookup(x)
      baton == LookupBaton(x)
  IN  CASE Here(found)  -> "written"
        [] ~Here(found) /\ ~None(found) /\ ~found.baton ->
             IF Here(baton) THEN "shadowed"
             ELSE IF ~None(baton) THEN "outside" ELSE "value"
        [] ~Here(found) /\ found.baton -> "outside"
        [] None(found) -> IF \E i \in DOMAIN initb : initb[i].baton /\ initb[i].name = x
                          THEN "init" ELSE "unbound"

-----------------------------------------------------------------------------
Init ==
  /\ env = <<>> /\ initb = <<>> /\ stack = <<>> /\ trail = <<>>
  /\ frame = 0 /\ nframe = 0

\* Bounds: a construct has one binder, a scope that has none may have a name in
\* its where block; a local function has an argument.
Heads == {[args |-> xs, where |-> {}] : xs \in UpTo(1)}
         \cup {[args |-> <<>>, where |-> {x}] : x \in Names}

Next ==
  \/ \E args \in UpTo(1) : EnterFunction(args)
  \/ \E h \in Heads : EnterScope(h.args, h.where)
  \/ \E f, x \in Names : EnterLetFunction(f, <<x>>)
  \/ \E x \in Names : BindHere(x)
  \/ \E xs \in UpTo(1) : EnterHandler(xs)
  \/ \E args \in UpTo(1) : EnterClause(args)
  \/ EnterInit
  \/ Leave

Spec == Init /\ [][Next]_vars

-----------------------------------------------------------------------------
(* What a write means.                                                     *)

\* The innermost part of the trail that binds x; a clause's own slots lie just
\* outside its arguments.
BoundAt(x) == {i \in DOMAIN trail : x \in trail[i].binds \cup trail[i].where}
SlotAt(x)  == {i \in DOMAIN trail : trail[i].kind = "clause" /\ x \in trail[i].vars}
Innermost(S) == CHOOSE i \in S \cup {0} : \A j \in S : j <= i
IsValue(x) == Innermost(BoundAt(x)) >= Innermost(SlotAt(x)) /\ BoundAt(x) # {}
\* The clause of the nearest function-forming construct, if that is one.
Boundary == Innermost({i \in DOMAIN trail : trail[i].kind \in {"fun", "clause"}})
Starting(x) == \E i \in DOMAIN trail : trail[i].kind = "init" /\ x \in trail[i].vars

Meaning(x) ==
  CASE ~IsValue(x) /\ SlotAt(x) # {} /\ Innermost(SlotAt(x)) = Boundary -> "written"
    [] ~IsValue(x) /\ SlotAt(x) # {} /\ Innermost(SlotAt(x)) # Boundary -> "outside"
    [] IsValue(x) /\ SlotAt(x) = {}                                      -> "value"
    [] IsValue(x) /\ SlotAt(x) # {} /\ Innermost(SlotAt(x)) = Boundary  -> "shadowed"
    [] IsValue(x) /\ SlotAt(x) # {} /\ Innermost(SlotAt(x)) # Boundary  -> "outside"
    [] OTHER -> IF Starting(x) THEN "init" ELSE "unbound"

InWhere(x) == \E i \in DOMAIN trail : x \in trail[i].where

\* A write is accepted exactly where its name means a slot of the handler whose
\* clause is the nearest function around it (check_assign, sc_handler), and a
\* refused one is refused for the reason that holds.  Names of where blocks and
\* initialisers inside initialisers aside.
WritesAreLocal ==
  InExpr => \A x \in Names : ~InWhere(x) =>
    \/ Verdict(x) = Meaning(x)
    \/ Meaning(x) = "init" /\ Verdict(x) = "unbound"
         /\ Cardinality({i \in DOMAIN trail : trail[i].kind = "init"}) > 1

\* The name of a where block shadows a slot like any other binding: "without
\* this a capability that shadows a `var` baton is invisible and a later write
\* to the name is blessed against the baton".
ShadowsSeen == InExpr => \A x \in Names : Verdict(x) = "written" => Meaning(x) = "written"
=============================================================================
