----------------------------- MODULE MCPrograms ------------------------------
(* Inputs of the parser for TLC: programs of three declarations, all whole   *)
(* but the first, which has one damage to its tokens: one left out, put in   *)
(* or exchanged, or a line moved to another column.                          *)
EXTENDS Integers, Sequences
LOCAL INSTANCE SequencesExt

\* A line of tokens two columns apart.
Line(col, kinds) ==
  [k \in DOMAIN kinds |-> [kind |-> kinds[k], line |-> k = 1, col |-> col + 2 * (k - 1),
                           whole |-> FALSE]]
Simple == [Line(1, <<"name", "eq", "name">>) EXCEPT ![1].whole = TRUE]
Bodied == [Line(1, <<"name", "eq">>) \o Line(3, <<"case", "name", "of">>)
           \o Line(5, <<"name", "arrow", "name">>) EXCEPT ![1].whole = TRUE]

TwoCases ==
  Line(1, <<"name", "name", "eq">>) \o Line(3, <<"case", "name", "of">>)
  \o Line(5, <<"name", "arrow", "case", "name", "of">>) \o Line(7, <<"name", "arrow", "name">>)
  \o Line(3, <<"name", "op", "name">>)
Wheres ==
  Line(1, <<"name", "eq">>) \o Line(3, <<"let", "name", "eq", "name">>)
  \o Line(3, <<"open", "name", "close">>)
  \o Line(3, <<"where">>) \o Line(5, <<"name", "op", "name", "eq", "name">>)
Hanging ==
  Line(1, <<"name", "eq">>) \o Line(3, <<"case", "name", "of">>)
  \o Line(5, <<"name", "arrow", "let", "name", "eq", "name">>) \o Line(9, <<"name">>)
  \o Line(5, <<"open", "name", "close", "arrow", "name", "where", "open", "op", "close", "name", "eq", "name">>)
Branches ==
  Line(1, <<"name", "eq", "if", "name">>) \o Line(3, <<"then", "let", "name", "eq", "name">>)
  \o Line(5, <<"in">>) \o Line(7, <<"name">>) \o Line(3, <<"else", "open", "op", "name", "close">>)
Programs == {TwoCases, Wheres, Hanging, Branches, Line(1, <<"module", "name">>)}

Spelled == {"name", "eq", "let", "in", "case", "of", "arrow", "where", "open", "close", "op",
            "if", "then", "else", "module"}
Strays == {"name", "eq", "let", "case", "of", "arrow", "where", "open", "close", "op"}
Moved(s, k, c) ==
  [j \in DOMAIN s |-> IF j >= k /\ \A m \in k + 1 .. j : ~s[m].line
                      THEN [s[j] EXCEPT !.col = @ + c - s[k].col] ELSE s[j]]
\* The first token still begins a declaration: no lead, not indented; as part
\* of the declaration before it, it would damage that one.
Begins == {"name", "open", "let", "case", "if", "module"}
Damages(s) ==
  {s} \cup {RemoveAt(s, k) : k \in {k \in DOMAIN s : ~s[k].line}}
  \cup {[s EXCEPT ![k].kind = x] : k \in DOMAIN s \ {1}, x \in Spelled}
  \cup {[s EXCEPT ![1].kind = x] : x \in Begins}
  \cup {InsertAt(s, k, [s[k] EXCEPT !.kind = x, !.line = FALSE]) :
           k \in {k \in DOMAIN s : ~s[k].line}, x \in Strays}
  \cup {Moved(s, k, c) : k \in {k \in DOMAIN s \ {1} : s[k].line}, c \in {1, 3, 4, 5, 7, 9}}

Around(s) == s \o Simple \o Bodied
Damaged == {Around(s) : s \in UNION {Damages(p) : p \in Programs}}
             \cup {Around([p EXCEPT ![1].whole = TRUE]) : p \in Programs}

\* A case expression in a block, with one token left out.
Cases == Line(1, <<"name", "eq">>) \o Line(3, <<"case", "name", "of">>)
         \o Line(5, <<"name", "arrow", "name">>)
Forgotten == {Around(RemoveAt(Cases, k)) : k \in DOMAIN Cases \ {1, 3, 6}}
=============================================================================
