------------------------------ MODULE WokParse -------------------------------
(***************************************************************************)
(* The parser (grammar/c/wok_parse.c) behind the layout filter: how blocks  *)
(* are opened and closed, how a separator is passed from an inner block to  *)
(* the outer one, and how a damaged item is abandoned and its block gone on *)
(* with.  Recursive descent is an agenda: what is left to do, innermost     *)
(* first; a step does the first of it.  A fault does not unwind: the code   *)
(* goes on with panic set until the item loop resynchronises.               *)
(*                                                                         *)
(* The grammar is cut down to what differs in control: equations, modules,  *)
(* where blocks, let, if, case, chains of names and brackets; patterns are  *)
(* names and brackets.  Nesting is counted at declarations, statements and  *)
(* expressions.                                                            *)
(***************************************************************************)
EXTENDS Integers, Sequences, FiniteSets

CONSTANTS Inputs,   \* token sequences, before layout
          MaxNest   \* WOK_PARSE_MAX_DEPTH, 256 in the build

VARIABLES
  input,                                    \* what the filter has not read
  stack, bracket, blockCol, first, ended, layFaults, excess, chk,  \* the filter
  stream,  \* its output, what the parser reads
  i,       \* position of the parser
  sep,     \* an inner block's end left a separator behind
  panic,   \* the current item is damaged
  bare,    \* the last statement is no expression
  todo,    \* the agenda
  kept     \* where the declarations begin that came out whole

filter == <<stack, bracket, blockCol, first, ended, layFaults, excess, chk>>
vars   == <<input, filter, stream, i, sep, panic, bare, todo, kept>>

L == INSTANCE WokLayout WITH
       Columns <- 1 .. 20, Kinds <- {"item", "lead", "open", "close"},
       MaxDepth <- 64, MaxBracket <- 9, faults <- layFaults

-----------------------------------------------------------------------------
(* The filter feeds the parser.                                            *)

DeclWords == {"module"}
Keywords  == DeclWords \cup {"let", "in", "if", "then", "else", "case", "of", "where"}
Leads     == {"eq", "arrow", "op", "close", "in", "then", "else", "of", "where"}
Mark(kind, col) == [kind |-> kind, line |-> FALSE, col |-> col, whole |-> FALSE]
Repeat(t, n) == [k \in 1 .. n |-> t]
Laid(e, t) ==
  Repeat(Mark("newline", t.col), IF e.newline THEN 1 ELSE 0)
  \o Repeat(Mark("dedent", t.col), e.dedents)
  \o Repeat(Mark("indent", t.col), IF e.indent THEN 1 ELSE 0) \o <<t>>

Feed ==
  LET t == Head(input)
      u == [kind |-> IF t.kind \in {"open", "close"} THEN t.kind
                     ELSE IF t.kind \in Leads THEN "lead" ELSE "item",
            line |-> t.line, col |-> t.col]
  IN
  /\ input # <<>>
  /\ L!Token(u)
  /\ stream' = stream \o Laid(L!Emission(u), t)
  /\ input' = Tail(input)
  /\ UNCHANGED <<i, sep, panic, bare, todo, kept>>

FeedEnd ==
  /\ input = <<>> /\ L!Eof
  /\ stream' = stream \o Laid([L!Quiet EXCEPT !.newline = ~first, !.dedents = Len(stack) - 1],
                              Mark("eof", 1))
  /\ UNCHANGED <<input, i, sep, panic, bare, todo, kept>>

-----------------------------------------------------------------------------
(* The cursor and the agenda.                                              *)

Least(a, b) == IF a < b THEN a ELSE b
Kind(j)   == stream[Least(j, Len(stream))].kind
At(k)     == Kind(i) = k
AtOne(ks) == Kind(i) \in ks
Then(k)   == Kind(i + 1) = k
ParenOp   == At("open") /\ Then("op") /\ Kind(i + 2) = "close"

\* A part of the agenda: its name, a detail, the INDENT of its block (0 when
\* the block is on one line) and a position to remember.
Part(op, arg, at, from) == [op |-> op, arg |-> arg, at |-> at, from |-> from]
Do(op)        == Part(op, "", 0, 0)
Expect(k)     == Part("expect", k, 0, 0)
Block(arg)    == Part("block", arg, 0, 0)
List(item, at) == Part("list", item, at, 0)
End(at)       == Part("end", "", at, 0)

Op(op) == ended /\ todo # <<>> /\ Head(todo).op = op
Rest   == Tail(todo)
Deep   == Len(SelectSeq(todo, LAMBDA s : s.op = "leave")) >= MaxNest

Same == UNCHANGED <<input, filter, stream>>
\* bump n times, go on with syms.
Go(n, syms) ==
  /\ i' = Least(i + n, Len(stream))
  /\ todo' = syms \o Rest
  /\ UNCHANGED <<sep, panic, bare, kept>> /\ Same
\* perr_expect: nothing is consumed.
Blame(syms) ==
  /\ panic' = TRUE
  /\ todo' = syms \o Rest
  /\ UNCHANGED <<i, sep, bare, kept>> /\ Same

Accept == Op("expect") /\ IF At(Head(todo).arg) THEN Go(1, <<>>) ELSE Blame(<<>>)
Leave  == Op("leave") /\ Go(0, <<>>)

-----------------------------------------------------------------------------
(* Recovery.                                                               *)

\* resync_to_boundary from j on: the boundary, and whether a separator was
\* taken on the way.  br brackets and ind blocks have been skipped into.
DedentsAfter(j) ==
  CHOOSE d \in 0 .. Len(stream) :
    /\ Kind(j + d + 1) # "dedent"
    /\ \A k \in 1 .. d : Kind(j + k) = "dedent"
Boundary(start) ==
  LET B[j \in 1 .. Len(stream), br \in 0 .. Len(stream), ind \in 0 .. Len(stream)] ==
        LET k == Kind(j)
            b == IF k = "open" THEN br + 1
                 ELSE IF k = "close" /\ br > 0 THEN br - 1 ELSE br
        IN CASE k = "eof" -> [at |-> j, sep |-> FALSE]
             [] br = 0 /\ k = "indent" -> B[j + 1, br, ind + 1]
             [] br = 0 /\ k = "dedent" ->
                  IF ind = 0 THEN [at |-> j, sep |-> FALSE] ELSE B[j + 1, br, ind - 1]
             [] br = 0 /\ k = "newline" /\ ind = 0 -> [at |-> j, sep |-> FALSE]
             [] br = 0 /\ k = "newline" /\ ind > 0 ->
                  IF DedentsAfter(j) >= ind
                    THEN [at |-> j + 1 + ind, sep |-> Kind(j + 1 + ind) # "dedent"]
                    ELSE B[j + 1, br, ind]
             [] OTHER -> B[j + 1, b, ind]
  IN B[start, 0, 0]

\* at_decl_anchor, resync_decl.
MutAnchor(j) == j <= Len(stream) /\ stream[j].kind \in DeclWords
Anchor(j) ==
  /\ j <= Len(stream)
  /\ IF stream[j].kind \in Keywords THEN stream[j].kind \in DeclWords
     ELSE stream[j].kind \notin Leads
DeclBoundary(start) ==
  LET D[j \in 1 .. Len(stream)] ==
        LET b == Boundary(j)
        IN IF Kind(b.at) # "newline" \/ Kind(b.at + 1) = "dedent" \/ Anchor(b.at + 1) THEN b
           ELSE LET next == D[b.at + 1]
                IN [next EXCEPT !.sep = @ \/ b.sep]
  IN D[start]

Resync(decl) ==
  IF ~panic THEN [at |-> i, sep |-> FALSE]
  ELSE IF decl THEN DeclBoundary(i) ELSE Boundary(i)

-----------------------------------------------------------------------------
(* Blocks.                                                                 *)

Opens == At("newline") /\ Then("indent")

\* What a block holds: the body of an equation or an alternative may have a
\* where block behind it.
Contents(arg, at) ==
  (IF arg \in {"body", "body where"}
     THEN IF at > 0 THEN <<List("stmt", at)>> ELSE <<Do("stmt"), Part("inline", "", 0, stream[i].col)>>
     ELSE <<List(arg, at)>>)
  \o (IF arg = "body where" THEN <<Do("where")>> ELSE <<>>) \o <<End(at)>>

\* block_begin and what follows it.
Begin ==
  /\ Op("block")
  /\ IF ~panic /\ Opens THEN Go(2, Contents(Head(todo).arg, i + 1))
     ELSE IF AtOne({"newline", "dedent", "eof"}) THEN Blame(Contents(Head(todo).arg, 0))
     ELSE Go(0, Contents(Head(todo).arg, 0))

\* parse_block_list: one round.
Round ==
  /\ Op("list")
  /\ LET s == Head(todo)
     IN Go(0, <<Do(s.arg), Part("done", s.arg, s.at, i)>>)

\* The rest of a round, and block_next.
ItemDone ==
  LET s == Head(todo)
      r == Resync(s.arg = "equation")
      j == IF r.at = s.from /\ Kind(r.at) \notin {"eof", "newline", "dedent"}
             THEN r.at + 1 ELSE r.at
      held  == sep \/ r.sep
      more  == s.at > 0 /\ Kind(j) # "dedent"
      steps == more /\ ~held /\ Kind(j) = "newline" /\ Kind(j + 1) # "dedent"
  IN
  /\ Op("done")
  /\ i' = IF steps THEN j + 1 ELSE j
  /\ sep' = (held /\ ~more)
  /\ panic' = FALSE
  /\ todo' = (IF more /\ (held \/ steps) THEN <<List(s.arg, s.at)>> ELSE <<>>) \o Rest
  /\ UNCHANGED <<bare, kept>> /\ Same

\* block_end.  A NEWLINE before the DEDENT separates the outer items too.
MutEndBlock ==
  LET at == Head(todo).at
      j  == IF At("newline") /\ Then("dedent") THEN i + 1 ELSE i
  IN
  /\ Op("end")
  /\ IF at = 0 THEN Go(0, <<>>)
     ELSE /\ i' = IF Kind(j) = "dedent" THEN j + 1 ELSE j
          /\ panic' = (panic \/ Kind(j) \notin {"dedent", "eof"})
          /\ todo' = Rest
          /\ UNCHANGED <<sep, bare, kept>> /\ Same
EndBlock ==
  LET at == Head(todo).at
      j  == IF At("newline") /\ Then("dedent") THEN i + 1 ELSE i
  IN
  /\ Op("end")
  /\ IF at = 0 THEN Go(0, <<>>)
     ELSE /\ i' = IF Kind(j) = "dedent" THEN j + 1 ELSE j
          /\ sep' = (sep \/ j > i)
          /\ panic' = (panic \/ Kind(j) \notin {"dedent", "eof"})
          /\ todo' = Rest
          /\ UNCHANGED <<bare, kept>> /\ Same

\* parse_block_body on one line: lines indented under the first statement, in
\* its own column, belong to it.
Inline ==
  /\ Op("inline")
  /\ IF ~panic /\ Opens /\ stream[i + 2].col = Head(todo).from
       THEN Go(2, <<List("stmt", i + 1), End(i + 1)>>)
     ELSE IF ~panic /\ bare THEN Blame(<<>>)
     ELSE Go(0, <<>>)

Where == Op("where") /\ IF At("where") THEN Go(1, <<Block("equation")>>) ELSE Go(0, <<>>)

-----------------------------------------------------------------------------
(* Patterns, expressions, statements.                                      *)

\* parse_atompat, parse_pat.
Pattern ==
  /\ Op("pattern")
  /\ IF At("name") THEN Go(1, <<>>)
     ELSE IF At("open") /\ Then("close") THEN Go(2, <<>>)
     ELSE IF At("open") THEN Go(1, <<Do("pattern"), Expect("close")>>)
     ELSE Blame(<<>>)
Patterns ==
  /\ Op("patterns")
  /\ IF ~panic /\ AtOne({"name", "open"}) THEN Go(0, <<Do("pattern"), Do("patterns")>>)
     ELSE Go(0, <<>>)

\* parse_app and parse_atom; then the arguments and operators of parse_chain.
Chain ==
  /\ Op("chain")
  /\ IF At("op") THEN Go(1, <<Do("chain")>>)
     ELSE IF At("name") THEN Go(1, <<Do("more")>>)
     ELSE IF At("open") /\ Then("close") THEN Go(2, <<Do("more")>>)
     ELSE IF ParenOp THEN Go(3, <<Do("more")>>)
     ELSE IF At("open") THEN Go(1, <<Do("expr"), Expect("close"), Do("more")>>)
     ELSE Blame(<<>>)
More ==
  /\ Op("more")
  /\ IF panic THEN Go(0, <<>>)
     ELSE IF AtOne({"name", "open"}) THEN Go(0, <<Do("chain")>>)
     ELSE IF At("op") THEN Go(1, <<Do("chain")>>)
     ELSE Go(0, <<>>)

\* parse_expr.
TooDeep ==
  /\ ended /\ todo # <<>> /\ Head(todo).op \in {"expr", "stmt", "decl"} /\ Deep
  /\ Blame(<<>>)
Expr ==
  /\ Op("expr") /\ ~Deep
  /\ LET leave == <<Do("leave")>> IN
     CASE At("let")  -> Go(1, <<Do("bind"), Expect("in"), Block("body")>> \o leave)
       [] At("if")   -> Go(1, <<Do("expr"), Expect("then"), Block("body"),
                                Expect("else"), Block("body")>> \o leave)
       [] At("case") -> Go(1, <<Do("expr"), Expect("of"), Block("alt")>> \o leave)
       [] OTHER      -> Go(0, <<Do("chain")>> \o leave)

\* parse_bind: a name with its arguments, or a pattern.
Bind ==
  /\ Op("bind")
  /\ LET tail == <<Expect("eq"), Block("body")>>
     IN IF At("name") THEN Go(1, <<Do("patterns")>> \o tail) ELSE Go(0, <<Do("pattern")>> \o tail)

\* parse_stmt: `let` with no `in` is a statement and nothing else.
Stmt ==
  /\ Op("stmt") /\ ~Deep
  /\ IF At("let") THEN Go(1, <<Do("bind"), Do("in"), Do("leave")>>)
     ELSE Go(0, <<Do("expr"), Part("bare", "no", 0, 0), Do("leave")>>)
In ==
  /\ Op("in")
  /\ IF At("in") THEN Go(1, <<Block("body"), Part("bare", "no", 0, 0)>>)
     ELSE Go(0, <<Part("bare", "yes", 0, 0)>>)
Bare ==
  /\ Op("bare")
  /\ bare' = (Head(todo).arg = "yes") /\ todo' = Rest
  /\ UNCHANGED <<i, sep, panic, kept>> /\ Same

\* parse_alt.
Alt == Op("alt") /\ Go(0, <<Do("pattern"), Expect("arrow"), Block("body where")>>)

\* parse_lhs: `(op) args`, `f args` or `arg op arg`; parse_equation.
Equation ==
  /\ Op("equation")
  /\ LET tail  == <<Expect("eq"), Block("body where")>>
     IN IF ParenOp THEN Go(3, <<Do("patterns")>> \o tail)
        ELSE IF At("name") /\ ~Then("op") THEN Go(1, <<Do("patterns")>> \o tail)
        ELSE Go(0, <<Do("pattern"), Expect("op"), Do("pattern")>> \o tail)

-----------------------------------------------------------------------------
(* Declarations and the file.                                              *)

Decl ==
  /\ Op("decl") /\ ~Deep
  /\ IF At("module") THEN Go(1, <<Expect("name"), Do("leave")>>)
     ELSE IF AtOne(Keywords) THEN Blame(<<Do("leave")>>)
     ELSE Go(0, <<Do("equation"), Do("leave")>>)

File ==
  /\ Op("file")
  /\ IF At("eof") THEN Go(0, <<>>)
     ELSE IF AtOne({"newline", "dedent"}) THEN Go(1, <<Do("file")>>)
     ELSE Go(0, <<Do("decl"), Part("declared", "", 0, i)>>)

\* The rest of a round of parse_file.
Declared ==
  LET from == Head(todo).from
      r    == Resync(TRUE)
      held == sep \/ r.sep
      stray == ~held /\ Kind(r.at) \notin {"newline", "eof"}
      s    == IF stray THEN DeclBoundary(r.at) ELSE r
      j    == IF ~held /\ Kind(s.at) = "newline" THEN s.at + 1 ELSE s.at
  IN
  /\ Op("declared")
  /\ kept' = IF panic THEN kept ELSE kept \cup {from}
  /\ i' = IF j = from /\ Kind(j) # "eof" THEN j + 1 ELSE j
  /\ sep' = FALSE /\ panic' = FALSE
  /\ todo' = <<Do("file")>> \o Rest
  /\ UNCHANGED bare /\ Same

Start ==
  /\ L!Init
  /\ stream = <<>> /\ i = 1 /\ sep = FALSE /\ panic = FALSE /\ bare = FALSE
  /\ todo = <<Do("file")>> /\ kept = {}
Init == input \in Inputs /\ Start

Next ==
  \/ Feed \/ FeedEnd
  \/ Accept \/ Leave \/ Begin \/ Round \/ ItemDone \/ EndBlock \/ Inline \/ Where
  \/ Pattern \/ Patterns \/ Chain \/ More \/ TooDeep \/ Expr \/ Bind
  \/ Stmt \/ In \/ Bare \/ Alt \/ Equation \/ Decl \/ File \/ Declared

Spec == Init /\ [][Next]_vars

-----------------------------------------------------------------------------
(* Properties.                                                              *)

\* The blocks of the layout that no DEDENT before the cursor has closed.
Marks(kind) == {m \in 1 .. i - 1 : stream[m].kind = kind}
BlocksOpen ==
  LET ins == Marks("indent")
      des == Marks("dedent")
  IN {m \in ins : \A d \in des :
        d > m => Cardinality({k \in ins : k >= m /\ k < d}) > Cardinality({k \in des : k > m /\ k <= d})}

\* "A damaged item can never swallow its block": while the parser is in a block
\* it has not passed the DEDENT that closes it; and in a declaration without
\* damage, whatever was before it, the blocks it is in are exactly those the
\* layout has open (block_begin, block_next, block_end, resync_to_boundary).
OpenBlocks == {todo[k].at : k \in {k \in DOMAIN todo : todo[k].op = "end" /\ todo[k].at > 0}}
InWhole    == \E k \in DOMAIN todo : todo[k].op = "declared" /\ stream[todo[k].from].whole
BlocksHold ==
  ended => OpenBlocks \subseteq BlocksOpen /\ (InWhole => OpenBlocks = BlocksOpen)

\* "A damaged item can never swallow its block": a fault in one declaration
\* leaves every other one whole (the comments at resync_to_boundary, at
\* resync_decl and in test_parse_corpus.c).
Survives(j) == stream[j].whole => j \in kept
DamageContained == ended /\ todo = <<>> => \A j \in DOMAIN stream : Survives(j)

\* What the recovery does keep to: the damage reaches at most the next
\* declaration, wherever in the item it is, as long as the layout filter had no
\* bracket to abandon.
Heads == {j \in DOMAIN stream : stream[j].line /\ stream[j].col = 1 /\ stream[j].kind \notin Leads}
DeclsSurvive ==
  ended /\ todo = <<>> /\ "bracket" \notin layFaults =>
    \A j \in Heads : (\A k \in Heads : k < j /\ (\A h \in Heads : h <= k \/ h >= j) => stream[k].whole)
                      => Survives(j)
=============================================================================
