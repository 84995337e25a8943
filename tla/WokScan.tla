------------------------------ MODULE WokScan -------------------------------
(***************************************************************************)
(* The scanner (grammar/c/wok_token.c, wok_scan).  A text is a sequence of  *)
(* character classes, one per byte; a step is one turn of the scan loop.    *)
(* A token or comment is the half-open span of positions it covers; the     *)
(* spelling of names and operators is left out.                            *)
(***************************************************************************)
EXTENDS Integers, Sequences

CONSTANT Texts    \* the inputs

VARIABLES
  text,
  i,          \* next position, one past the last byte when all is read
  col,
  pending,    \* line_pending: no token yet on this line
  tabbed,     \* tab_reported_this_line
  toks, coms, \* spans so far
  faults

vars == <<text, i, col, pending, tabbed, toks, coms, faults>>

Blank  == {"space", "newline", "tab"}
Symbol == {"dash", "symbol"}
Letter == {"letter", "x"}
Quotes == {"string", "char"}             \* the two quotes
NameStart == Letter \cup {"underscore"}
NameCont  == NameStart \cup {"digit", "char"}
Known     == {"backslash", "digit"} \cup Quotes   \* escapes, \0 for the digits

Size == Len(text)
End  == Size + 1
At(k) == IF k \in 1 .. Size THEN text[k] ELSE "none"
Pair(k, a, b) == At(k) = a /\ At(k + 1) = b

\* Where the maximal run of classes C from k ends.
RunEnd(k, C) ==
  CHOOSE j \in k .. End : At(j) \notin C /\ \A m \in k .. j - 1 : text[m] \in C
Least(a, b) == IF a < b THEN a ELSE b

Newlines(j) == {k \in i .. j - 1 : text[k] = "newline"}
LastOf(S) == CHOOSE k \in S : \A m \in S : m <= k

\* advance, up to j.
Advance(j) ==
  /\ i' = j
  /\ col' = IF Newlines(j) = {} THEN col + (j - i) ELSE j - LastOf(Newlines(j))
  /\ tabbed' = (tabbed /\ Newlines(j) = {})
MutSkip(j) == Advance(j) /\ UNCHANGED pending
Skip(j) == Advance(j) /\ pending' = (pending \/ Newlines(j) # {})

\* The flag is what line_pending says once the token has been read.
Emit(j, bad) ==
  /\ Advance(j)
  /\ toks' = Append(toks, [off |-> i, end |-> j, col |-> col,
                           first |-> pending \/ Newlines(j) # {}])
  /\ pending' = FALSE
  /\ faults' = faults \cup bad
  /\ UNCHANGED <<text, coms>>

MutComment(j, bad) ==
  /\ Skip(j)
  /\ coms' = Append(coms, [off |-> i + 2, end |-> j])
  /\ faults' = faults \cup bad
  /\ UNCHANGED <<text, toks>>
Comment(j, bad) ==
  /\ Skip(j)
  /\ coms' = Append(coms, [off |-> i, end |-> j])
  /\ faults' = faults \cup bad
  /\ UNCHANGED <<text, toks>>

\* The end of a nested block comment read from k at depth d.
BlockEnd ==
  LET B[k \in 1 .. End + 1, d \in 0 .. Size] ==
        IF k >= End THEN [end |-> End, closed |-> FALSE]
        ELSE IF Pair(k, "lbrace", "dash") THEN B[k + 2, d + 1]
        ELSE IF Pair(k, "dash", "rbrace")
             THEN IF d = 1 THEN [end |-> k + 2, closed |-> TRUE] ELSE B[k + 2, d - 1]
        ELSE B[k + 1, d]
  IN B[i, 0]

\* Past the escape whose backslash is at k: \xhh, a known or an unknown one,
\* which may be a newline.
HexEnd(k) == Least(RunEnd(k, {"digit"}), k + 2)
EscapeEnd(k) == IF At(k + 1) = "x" THEN HexEnd(k + 2) ELSE Least(k + 2, End)
EscapeOk(k) == At(k + 1) \in Known \/ (At(k + 1) = "x" /\ EscapeEnd(k) = k + 4)

LiteralEnd ==
  LET L[k \in 1 .. End] ==
        IF At(k) \in {"none", "newline"} THEN [end |-> k, bad |-> {"unterminated"}]
        ELSE IF At(k) = text[i] THEN [end |-> k + 1, bad |-> {}]
        ELSE IF At(k) # "backslash" THEN L[k + 1]
        ELSE IF k = Size THEN [end |-> End, bad |-> {"unterminated"}]
        ELSE LET r == L[EscapeEnd(k)]
             IN [r EXCEPT !.bad = @ \cup (IF EscapeOk(k) THEN {} ELSE {"escape"})]
  IN L[i + 1]

-----------------------------------------------------------------------------
Begin ==
  /\ i = 1 /\ col = 1 /\ pending = TRUE /\ tabbed = FALSE
  /\ toks = <<>> /\ coms = <<>> /\ faults = {}
Init == text \in Texts /\ Begin

Whitespace ==
  /\ At(i) \in Blank
  /\ Skip(i + 1)
  /\ UNCHANGED <<text, toks, coms, faults>>

\* A tab before the first token of a line is reported once per line.
TabFault ==
  /\ At(i) = "tab" /\ pending /\ ~tabbed
  /\ i' = i + 1 /\ col' = col + 1 /\ tabbed' = TRUE
  /\ faults' = faults \cup {"tab"}
  /\ UNCHANGED <<text, pending, toks, coms>>

BlockComment ==
  /\ Pair(i, "lbrace", "dash")
  /\ Comment(BlockEnd.end, IF BlockEnd.closed THEN {} ELSE {"unterminated"})

\* The maximal run of symbols first, and only then whether it is all dashes.
DashRun(j) == j >= i + 2 /\ \A k \in i .. j - 1 : text[k] = "dash"
Symbols ==
  /\ At(i) \in Symbol
  /\ LET j == RunEnd(i, Symbol)
     IN IF DashRun(j)
        THEN Comment(CHOOSE e \in j .. End : /\ At(e) \in {"newline", "none"}
                                             /\ \A k \in j .. e - 1 : text[k] # "newline", {})
        ELSE Emit(j, {})

Name    == At(i) \in NameStart /\ Emit(RunEnd(i, NameCont), {})
Number  == At(i) = "digit" /\ Emit(RunEnd(i, {"digit", "underscore"}), {})
Literal == At(i) \in Quotes /\ Emit(LiteralEnd.end, LiteralEnd.bad)
Dots    == At(i) = "dot" /\ Emit(IF At(i + 1) = "dot" THEN i + 2 ELSE i + 1, {})

\* Brackets, comma, backtick, lambda; `;` and any other byte are reported.
Single ==
  /\ At(i) \in {"lbrace", "rbrace", "backslash", "stray"} /\ ~Pair(i, "lbrace", "dash")
  /\ Emit(i + 1, IF At(i) = "stray" THEN {"stray"} ELSE {})

Next ==
  \/ At(i) = "tab" /\ ~(pending /\ ~tabbed) /\ Whitespace
  \/ At(i) # "tab" /\ Whitespace
  \/ TabFault \/ BlockComment \/ Symbols \/ Name \/ Number \/ Literal \/ Dots \/ Single

Spec == Init /\ [][Next]_vars

-----------------------------------------------------------------------------
(* Properties.                                                              *)

Spans == {toks[k] : k \in DOMAIN toks} \cup {coms[k] : k \in DOMAIN coms}
Covering(k) == {s \in Spans : k \in s.off .. s.end - 1}

\* Every byte read is in exactly one token or comment, or is blank and in
\* none; spans are never empty and come in order: nothing is lost, read twice
\* or split, across runs, nested comments, escapes and files that end early.
Tiled ==
  /\ \A k \in 1 .. i - 1 :
       IF text[k] \in Blank THEN \A s, t \in Covering(k) : s = t
       ELSE \E s \in Covering(k) : Covering(k) = {s}
  /\ \A s \in Spans : s.off < s.end /\ s.end <= i
  /\ \A k \in 1 .. Len(toks) - 1 : toks[k].end <= toks[k + 1].off
  /\ \A k \in 1 .. Len(coms) - 1 : coms[k].end <= coms[k + 1].off

\* What layout is built on (WOK_TF_FIRST_ON_LINE, "this token opens its
\* physical line"; col "is exact"): a token's column counts from the newline
\* before it, and it is marked exactly when no token stands between.  An
\* escaped newline, which is reported, leaves its literal marked.
LineStart(o) == IF \E k \in 1 .. o - 1 : text[k] = "newline"
                THEN LastOf({k \in 1 .. o - 1 : text[k] = "newline"}) ELSE 0
PositionsExact ==
  \A k \in DOMAIN toks :
    LET t == toks[k] IN
    /\ t.col = t.off - LineStart(t.off)
    /\ "escape" \notin faults => t.first = (k = 1 \/ toks[k - 1].end <= LineStart(t.off))
=============================================================================
