----------------------------- MODULE WokLayout ------------------------------
(***************************************************************************)
(* The layout filter (grammar/c/wok_layout.c): one token in, then the       *)
(* separators it calls for and the token itself out; with it the checker    *)
(* the debug build runs over every emitted stream (wok_layout_check), fed   *)
(* token by token.  A step is one turn of the filter's loop; any token may  *)
(* come next, so every stream of tokens is an input.                       *)
(***************************************************************************)
EXTENDS Integers, Sequences

CONSTANTS Columns,    \* columns a line may start at
          Kinds,      \* kinds of token the filter tells apart
          MaxDepth,   \* WOK_LAYOUT_MAX_DEPTH, 64 in the build
          MaxBracket  \* bound: brackets open at once

ASSUME LayoutAssumption ==
  /\ Columns \subseteq Nat \ {0}
  /\ Kinds \subseteq {"item", "lead", "open", "close"}
  /\ MaxDepth \in Nat \ {0} /\ MaxBracket \in Nat

VARIABLES
  stack,     \* open indentation levels; the bottom one is column 1
  bracket,   \* nesting inside a bracket group
  blockCol,  \* bracket_block_col: the level the outermost bracket opened at
  first,     \* first_logical
  ended,     \* WT_EOF went through
  faults,    \* the kinds of fault reported
  excess,    \* output so far less three per input token
  chk        \* wok_layout_check: its columns, brackets and verdicts

vars == <<stack, bracket, blockCol, first, ended, faults, excess, chk>>

\* A closer is a lead; an opener never is.  A token not first on its line has
\* a column nothing reads.
Tokens == [kind : Kinds, line : {TRUE}, col : Columns]
          \cup [kind : Kinds, line : {FALSE}, col : {1}]
IsLead(t) == t.kind \in {"lead", "close"}

Top(s) == s[Len(s)]

\* pop_to: levels deeper than c go, the bottom one stays.
Keep(s, c) ==
  CHOOSE k \in 1 .. Len(s) : (k = 1 \/ s[k] <= c) /\ \A j \in k + 1 .. Len(s) : s[j] > c

\* What one input token has the filter emit before it.
Quiet == [newline |-> FALSE, dedents |-> 0, indent |-> FALSE, fault |-> "none"]

\* L4, L5: a continuation closes deeper levels and matches none.
Continue(t) == [Quiet EXCEPT !.dedents = Len(stack) - Keep(stack, t.col)]

\* L3, L6: a new item; a dedent to no open level opens one.
MutPush(kept, c) ==
  IF kept[Len(kept)] = c THEN [indent |-> FALSE, fault |-> FALSE]
  ELSE [indent |-> TRUE, fault |-> FALSE]
Push(kept, c) ==
  IF kept[Len(kept)] = c THEN [indent |-> FALSE, fault |-> FALSE]
  ELSE [indent |-> Len(kept) < MaxDepth, fault |-> Len(kept) >= MaxDepth]
Item(t) ==
  LET kept == SubSeq(stack, 1, Keep(stack, t.col))
      p    == Push(kept, t.col)
      deeper == t.col > Top(stack)
  IN [newline |-> ~first, dedents |-> Len(stack) - Len(kept), indent |-> p.indent,
      fault |-> IF Top(kept) = t.col THEN "none"
                ELSE IF ~deeper THEN "dedent"
                ELSE IF p.fault THEN "depth" ELSE "none"]

\* L7: an item at or left of the block the bracket opened in abandons it.
Abandons(t) == bracket > 0 /\ t.line /\ ~IsLead(t) /\ t.col <= blockCol

MutStartsLine(t) == t.line /\ (bracket <= 1 \/ Abandons(t))
StartsLine(t) == t.line /\ (bracket = 0 \/ Abandons(t))

Emission(t) ==
  IF ~StartsLine(t) THEN Quiet ELSE IF IsLead(t) THEN Continue(t) ELSE Item(t)

Length(e) == (IF e.newline THEN 1 ELSE 0) + e.dedents + (IF e.indent THEN 1 ELSE 0) + 1

StackAfter(e, c) ==
  LET kept == SubSeq(stack, 1, Len(stack) - e.dedents)
  IN IF e.indent THEN Append(kept, c) ELSE kept

\* A closer with no opener counts nothing.
Count(kind, b) ==
  IF kind = "open" THEN b + 1 ELSE IF kind = "close" /\ b > 0 THEN b - 1 ELSE b

\* The checker reads the separators, then the token; it keeps its own stack
\* and its own count of brackets.
Judge(e, c, kind) ==
  LET base == Len(chk.cols) - e.dedents
      laid == e.newline \/ e.indent \/ e.dedents > 0
      ok   == /\ base >= 1
              /\ e.indent => base <= MaxDepth /\ c > chk.cols[base]
  IN [cols |-> IF ~ok THEN chk.cols
               ELSE IF e.indent THEN Append(SubSeq(chk.cols, 1, base), c)
               ELSE SubSeq(chk.cols, 1, base),
      ok       |-> chk.ok /\ ok,
      inside   |-> chk.inside \/ (chk.bracket > 0 /\ laid),
      balanced |-> chk.balanced /\ ~(kind = "close" /\ chk.bracket = 0),
      bracket  |-> Count(kind, chk.bracket)]

Init ==
  /\ stack = <<1>> /\ bracket = 0 /\ blockCol = 0 /\ first = TRUE
  /\ ended = FALSE /\ faults = {} /\ excess = 0
  /\ chk = [cols |-> <<1>>, ok |-> TRUE, inside |-> FALSE, balanced |-> TRUE, bracket |-> 0]

\* Brackets are counted after the line is laid out, from the level it is in.
Token(t) ==
  LET e == Emission(t)
      b == IF Abandons(t) THEN 0 ELSE bracket
  IN
  /\ ~ended
  /\ t.kind = "open" => chk.bracket < MaxBracket
  /\ stack'  = StackAfter(e, t.col)
  /\ first'  = (first /\ ~StartsLine(t))
  /\ bracket' = Count(t.kind, b)
  /\ blockCol' = IF t.kind = "open" /\ b = 0 THEN Top(stack') ELSE blockCol
  /\ faults' = (faults \cup (IF Abandons(t) THEN {"bracket"} ELSE {}) \cup {e.fault}) \ {"none"}
  /\ excess' = excess + Length(e) - 3
  /\ chk' = Judge(e, t.col, t.kind)
  /\ UNCHANGED ended

\* L8: WT_EOF closes every level.
Eof ==
  LET e == [Quiet EXCEPT !.newline = ~first, !.dedents = Len(stack) - 1]
  IN
  /\ ~ended /\ ended' = TRUE
  /\ stack' = StackAfter(e, 1)
  /\ faults' = faults \cup (IF bracket > 0 THEN {"bracket"} ELSE {})
  /\ excess' = excess + Length(e) - 3
  /\ chk' = Judge(e, 1, "eof")
  /\ UNCHANGED <<bracket, blockCol, first>>

Next == (\E t \in Tokens : Token(t)) \/ Eof

Spec == Init /\ [][Next]_vars

-----------------------------------------------------------------------------
(* Properties.                                                              *)

\* Invariants 1 and 2 of wok_layout.h, as the checker tests them: however
\* damaged the input, DEDENTs match INDENTs, pushed columns increase within
\* MaxDepth and nothing is open after WT_EOF.  Invariant 3, no INDENT before a
\* DEDENT, is the order an Emission has.
Nested == chk.ok /\ chk.cols = stack /\ (ended => chk.cols = <<1>>)

\* Invariant 4: no separator falls inside a bracket group, unless a fault was
\* reported; and while no group was abandoned the filter and the checker
\* agree on what is open.
BracketsOpaque ==
  /\ "bracket" \notin faults => bracket = chk.bracket /\ ~chk.inside
  /\ bracket > 0 /\ ~ended => blockCol = Top(stack)

\* Invariant 5 and the comment "proved, not hoped for" in put(): the output
\* is at most three per input token, MaxDepth and eight.
Bounded3n == excess <= MaxDepth + 8
=============================================================================
