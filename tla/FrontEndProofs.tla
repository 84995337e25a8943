---------------------------- MODULE FrontEndProofs ----------------------------
(***************************************************************************)
(* Four passes of the C front end.                                          *)
(*                                                                         *)
(* The layout filter (WokLayout): the stream it emits is balanced, and      *)
(* opaque to brackets, for every set of columns and every depth limit.  The  *)
(* open levels strictly increase from column 1, the checker holds the same  *)
(* ones, and nothing moves while a bracket is open.                         *)
(*                                                                         *)
(* wokfmt -w on a file that is edited while it is formatted (WokWrite),     *)
(* for every set of texts, every printer, and any number of saves, runs     *)
(* and crashes.  The argument follows the formatter's locals: what it read  *)
(* is what it stamped unless an edit fell in between, what it stamped is    *)
(* still there unless an edit came after, and from the moment the           *)
(* temporary is opened it belongs to the run and holds what is written.     *)
(*                                                                         *)
(* Write-locality in the resolver's walk (WokScope), for every set of names, *)
(* every depth and every number of handlers.  Where the walk stands is told  *)
(* level by level: level k is the context within the first k - 1 constructs, *)
(* saved by the k-th when it was entered, and the walk's own is one more.    *)
(* At each level the environment finds the name the trail means, the frame   *)
(* is the number of the nearest boundary, and the batons kept for an         *)
(* initialiser are its handler's.  Entering a construct adds a level and     *)
(* leaves those around it; leaving it brings one of them back.               *)
(*                                                                         *)
(* Operator fixity (WokFixity), for every set of operators, any number of   *)
(* declarations and chains of any length.  The table is followed stage by   *)
(* stage: what is kept of the declarations read, the edges drawn, the rows  *)
(* closed.  For chains, which occurrence may lie under which is a partial   *)
(* order of the occurrences, and the check, the scan and the split rule     *)
(* each ask whether every two of them are ordered or meet in between.       *)
(***************************************************************************)
EXTENDS MCFrontEnd, CountProofs

-----------------------------------------------------------------------------
(* The layout filter.                                                      *)

\* pop_to finds the level it stops at.
LEMMA KeepFinds ==
  ASSUME NEW s \in Seq(Nat), Len(s) >= 1, NEW c \in Nat
  PROVE  LET k == Keep(s, c)
         IN k \in 1 .. Len(s) /\ (k = 1 \/ s[k] <= c) /\ \A j \in k + 1 .. Len(s) : s[j] > c
<1> DEFINE Stops == {k \in 1 .. Len(s) : k = 1 \/ s[k] <= c}
           Above == {n \in 0 .. Len(s) : Len(s) - n \in Stops}
<1>1. Len(s) \in Nat /\ \A k \in 1 .. Len(s) : s[k] \in Nat
  OBVIOUS
<1>2. Len(s) - 1 \in Above
  BY <1>1
<1>3. PICK n \in Above : \A m \in Above : n <= m
  <2>1. Above \subseteq Nat
    BY <1>1
  <2>2. Above # {}
    BY <1>2, Zenon
  <2> HIDE DEF Above
  <2> QED BY <2>1, <2>2, LeastExists
<1> DEFINE top == Len(s) - n
<1>4. top \in Stops
  BY <1>3
<1>5. \A j \in top + 1 .. Len(s) : s[j] > c
  <2> SUFFICES ASSUME NEW j \in top + 1 .. Len(s), ~(s[j] > c) PROVE FALSE
    OBVIOUS
  <2>1. j \in 1 .. Len(s) /\ s[j] \in Nat
    BY <1>1, <1>4
  <2>2. Len(s) - j \in 0 .. Len(s) /\ Len(s) - (Len(s) - j) = j
    BY <1>1, <2>1
  <2>3. Len(s) - j \in Above
    BY <2>1, <2>2
  <2>4. n <= Len(s) - j
    BY <1>3, <2>3
  <2> QED BY <1>1, <1>3, <2>1, <2>4
<1>6. top \in 1 .. Len(s) /\ (top = 1 \/ s[top] <= c)
  BY <1>4
<1> HIDE DEF top
<1> QED BY <1>5, <1>6 DEF Keep

-----------------------------------------------------------------------------
Increasing(s) == \A j, k \in 1 .. Len(s) : j < k => s[j] < s[k]

\* The levels of the filter.
Levels(s) == s \in Seq(Nat \ {0}) /\ Len(s) \in 1 .. MaxDepth /\ s[1] = 1 /\ Increasing(s)

LayoutInv ==
  /\ Levels(stack)
  /\ chk.cols = stack /\ chk.ok
  /\ ended => stack = <<1>>

\* Levels dropped from the top leave levels.
LEMMA CutLevels ==
  ASSUME NEW s, Levels(s), NEW k \in 1 .. Len(s)
  PROVE  Levels(SubSeq(s, 1, k)) /\ Len(SubSeq(s, 1, k)) = k
         /\ \A j \in 1 .. k : SubSeq(s, 1, k)[j] = s[j]
BY LayoutAssumption DEF Levels, Increasing, LayoutAssumption

\* A deeper level on top of them, below the limit, does too.
LEMMA PushLevels ==
  ASSUME NEW s, Levels(s), NEW c \in Nat \ {0}, s[Len(s)] < c, Len(s) < MaxDepth
  PROVE  Levels(Append(s, c))
<1>1. Append(s, c) \in Seq(Nat \ {0}) /\ Len(Append(s, c)) = Len(s) + 1
  BY DEF Levels
<1>2. \A j \in 1 .. Len(s) : Append(s, c)[j] = s[j] /\ s[j] \in Nat \ {0}
  BY DEF Levels
<1>3. Append(s, c)[Len(s) + 1] = c
  BY DEF Levels
<1>4. \A j \in 1 .. Len(s) : s[j] <= s[Len(s)]
  BY <1>2 DEF Levels, Increasing
<1>5. Increasing(Append(s, c))
  BY <1>1, <1>2, <1>3, <1>4 DEF Levels, Increasing
<1> QED BY <1>1, <1>2, <1>5, LayoutAssumption DEF Levels, LayoutAssumption

-----------------------------------------------------------------------------
\* Every column a token carries is positive.
LEMMA ColType == ASSUME NEW t \in Tokens PROVE t.col \in Nat \ {0}
<1>1. CASE t \in [kind : Kinds, line : {TRUE}, col : Columns]
  <2>1. t.col \in Columns
    BY <1>1, Zenon
  <2> QED BY <2>1, LayoutAssumption DEF LayoutAssumption
<1>2. CASE t \in [kind : Kinds, line : {FALSE}, col : {1}]
  <2>1. t.col \in {1}
    BY <1>2, Zenon
  <2> QED BY <2>1
<1> QED BY <1>1, <1>2, Zenon DEF Tokens

\* What the filter lays out before a token: levels dropped from the top, and
\* perhaps one deeper one put there within the limit.
LEMMA EmissionFits ==
  ASSUME Levels(stack), NEW t \in Tokens
  PROVE  LET e == Emission(t)
         IN /\ e.dedents \in 0 .. Len(stack) - 1
            /\ e.indent => /\ Len(stack) - e.dedents < MaxDepth
                           /\ stack[Len(stack) - e.dedents] < t.col
<1> DEFINE k == Keep(stack, t.col)
           under == SubSeq(stack, 1, k)
<1>1. t.col \in Nat \ {0}
  BY ColType
<1>2. stack \in Seq(Nat) /\ Len(stack) \in Nat \ {0} /\ Len(stack) >= 1
  BY LayoutAssumption DEF Levels, LayoutAssumption
<1>3. k \in 1 .. Len(stack) /\ (k = 1 \/ stack[k] <= t.col)
  BY <1>1, <1>2, KeepFinds
<1>4. Len(under) = k /\ under[k] = stack[k] /\ stack[k] \in Nat /\ stack[1] = 1
  BY <1>2, <1>3, CutLevels DEF Levels
<1> HIDE DEF k
<1>5. CASE ~StartsLine(t)
  BY <1>2, <1>5 DEF Emission, Quiet
<1>6. CASE StartsLine(t) /\ IsLead(t)
  BY <1>2, <1>3, <1>6 DEF Emission, Quiet, Continue, k
<1>7. CASE StartsLine(t) /\ ~IsLead(t)
  <2>1. Emission(t) = Item(t)
    BY <1>7 DEF Emission
  <2>2. Item(t).dedents = Len(stack) - k
    BY <1>4 DEF Item, k
  <2>3. Item(t).indent = Push(under, t.col).indent
    BY DEF Item, k
  <2>4. Push(under, t.col).indent => k < MaxDepth /\ stack[k] # t.col
    BY <1>4 DEF Push
  <2>5. Len(stack) - (Len(stack) - k) = k
    BY <1>2, <1>3
  <2> QED BY <1>1, <1>2, <1>3, <1>4, <2>1, <2>2, <2>3, <2>4, <2>5
<1> QED BY <1>5, <1>6, <1>7

\* An emission that fits leaves levels, and the checker follows it.
LEMMA FollowsEmission ==
  ASSUME LayoutInv, NEW e, NEW c \in Nat \ {0}, NEW kind,
         e.dedents \in 0 .. Len(stack) - 1,
         e.indent => /\ Len(stack) - e.dedents < MaxDepth
                     /\ stack[Len(stack) - e.dedents] < c
  PROVE  /\ Levels(StackAfter(e, c))
         /\ Judge(e, c, kind).ok /\ Judge(e, c, kind).cols = StackAfter(e, c)
<1> DEFINE n == Len(stack) - e.dedents
<1>1. n \in 1 .. Len(stack) /\ Len(stack) \in Nat
  BY DEF LayoutInv, Levels
<1>2. Levels(SubSeq(stack, 1, n)) /\ Len(SubSeq(stack, 1, n)) = n
      /\ SubSeq(stack, 1, n)[n] = stack[n]
  BY <1>1, CutLevels DEF LayoutInv
<1>3. CASE e.indent
  <2>1. Levels(Append(SubSeq(stack, 1, n), c))
    BY <1>1, <1>2, <1>3, PushLevels
  <2>2. n <= MaxDepth /\ c > stack[n] /\ n >= 1
    BY <1>1, <1>3, LayoutAssumption DEF LayoutInv, Levels, LayoutAssumption
  <2> QED BY <1>3, <2>1, <2>2 DEF StackAfter, Judge, LayoutInv
<1>4. CASE ~e.indent
  <2>1. StackAfter(e, c) = SubSeq(stack, 1, n)
    BY <1>4 DEF StackAfter
  <2>2. chk.cols = stack /\ chk.ok
    BY DEF LayoutInv
  <2>3. Len(chk.cols) - e.dedents = n
    BY <2>2
  <2>4. Len(chk.cols) - e.dedents >= 1
    BY <1>1, <2>3
  <2> HIDE DEF n
  <2>5. Judge(e, c, kind).ok
    BY <1>4, <2>2, <2>4, Zenon DEF Judge
  <2>6. Judge(e, c, kind).cols = SubSeq(stack, 1, n)
    BY <1>4, <2>2, <2>3, <2>4, Zenon DEF Judge
  <2> QED BY <1>2, <2>1, <2>5, <2>6
<1> QED BY <1>3, <1>4

\* The filter starts at column 1, in step with the checker.
LEMMA LayoutInit == Init => LayoutInv
<1> SUFFICES ASSUME Init PROVE LayoutInv
  OBVIOUS
<1>1. Levels(<<1>>)
  BY LayoutAssumption DEF Levels, Increasing, LayoutAssumption
<1> QED BY <1>1 DEF Init, LayoutInv

\* A token.
LEMMA TokenStep == ASSUME LayoutInv, NEW t \in Tokens, Token(t) PROVE LayoutInv'
<1> DEFINE e == Emission(t)
<1>1. t.col \in Nat \ {0}
  BY ColType
<1>2. /\ e.dedents \in 0 .. Len(stack) - 1
      /\ e.indent => /\ Len(stack) - e.dedents < MaxDepth
                     /\ stack[Len(stack) - e.dedents] < t.col
  BY EmissionFits DEF LayoutInv
<1>3. stack' = StackAfter(e, t.col) /\ chk' = Judge(e, t.col, t.kind) /\ ~ended'
  BY DEF Token
<1> HIDE DEF e
<1>4. /\ Levels(StackAfter(e, t.col))
      /\ Judge(e, t.col, t.kind).ok
      /\ Judge(e, t.col, t.kind).cols = StackAfter(e, t.col)
  BY <1>1, <1>2, FollowsEmission
<1> QED BY <1>3, <1>4 DEF LayoutInv, Levels, Increasing

\* The end of the file closes every level.
LEMMA EofStep == ASSUME LayoutInv, Eof PROVE LayoutInv'
<1> DEFINE e == [Quiet EXCEPT !.newline = ~first, !.dedents = Len(stack) - 1]
<1>1. Len(stack) \in Nat \ {0} /\ stack \in Seq(Nat \ {0}) /\ stack[1] = 1
  BY LayoutAssumption DEF LayoutInv, Levels, LayoutAssumption
<1>2. e.dedents = Len(stack) - 1 /\ ~e.indent
  BY DEF Quiet
<1>3. stack' = StackAfter(e, 1) /\ chk' = Judge(e, 1, "eof")
  BY DEF Eof
<1> HIDE DEF e
<1>4. StackAfter(e, 1) = SubSeq(stack, 1, 1)
  BY <1>1, <1>2 DEF StackAfter
<1>5. SubSeq(stack, 1, 1) = <<1>>
  <2> DEFINE bottom == SubSeq(stack, 1, 1)
  <2>1. Len(bottom) = 1 /\ bottom[1] = 1 /\ bottom \in Seq(Nat \ {0})
    BY <1>1
  <2> HIDE DEF bottom
  <2>2. bottom = <<bottom[1]>>
    BY <2>1
  <2>3. bottom = <<1>>
    BY <2>1, <2>2
  <2> QED BY <2>3 DEF bottom
<1>6. Levels(StackAfter(e, 1)) /\ Judge(e, 1, "eof").ok
      /\ Judge(e, 1, "eof").cols = StackAfter(e, 1)
  <2>1. e.dedents \in 0 .. Len(stack) - 1
    BY <1>1, <1>2
  <2>2. 1 \in Nat \ {0}
    OBVIOUS
  <2>3. e.indent => /\ Len(stack) - e.dedents < MaxDepth
                    /\ stack[Len(stack) - e.dedents] < 1
    BY <1>2
  <2> QED BY <2>1, <2>2, <2>3, FollowsEmission, Zenon
<1> QED BY <1>3, <1>4, <1>5, <1>6 DEF LayoutInv, Levels, Increasing

\* Every step keeps the levels.
LEMMA LayoutStep == LayoutInv /\ [Next]_vars => LayoutInv'
<1> SUFFICES ASSUME LayoutInv, [Next]_vars PROVE LayoutInv'
  OBVIOUS
<1>1. CASE \E t \in Tokens : Token(t)
  BY <1>1, TokenStep
<1>2. CASE Eof
  BY <1>2, EofStep
<1>3. CASE UNCHANGED vars
  BY <1>3 DEF vars, LayoutInv, Levels, Increasing
<1> QED BY <1>1, <1>2, <1>3 DEF Next

\* Whatever the input, the stream is balanced: DEDENTs match INDENTs, pushed
\* columns increase within the limit, nothing stays open (wok_layout_check).
THEOREM Balanced == Spec => []Nested
<1>1. LayoutInv => Nested
  BY DEF LayoutInv, Nested
<1> QED BY <1>1, LayoutInit, LayoutStep, PTL DEF Spec

-----------------------------------------------------------------------------
BracketInv == bracket \in Nat /\ chk.bracket \in Nat /\ BracketsOpaque

\* While a bracket is open, a token lays nothing out unless it abandons the
\* group.
LEMMA QuietInside ==
  ASSUME NEW t \in Tokens, bracket > 0, bracket \in Nat, ~Abandons(t)
  PROVE  ~StartsLine(t) /\ Emission(t) = Quiet
<1>1. ~StartsLine(t)
  BY DEF StartsLine
<1> QED BY <1>1, Zenon DEF Emission

\* Brackets are counted in naturals.
LEMMA CountType ==
  ASSUME NEW kind, NEW b \in Nat
  PROVE  /\ Count(kind, b) \in Nat
         /\ Count(kind, b) > 0 => b > 0 \/ kind = "open"
BY DEF Count

\* A token keeps the two counts of open brackets in step.
LEMMA BracketTokenStep ==
  ASSUME LayoutInv, BracketInv, NEW t \in Tokens, Token(t) PROVE BracketInv'
<1> DEFINE e == Emission(t)
           b == IF Abandons(t) THEN 0 ELSE bracket
<1>1. bracket \in Nat /\ chk.bracket \in Nat /\ BracketsOpaque
  BY DEF BracketInv
<1>2. /\ ~ended
      /\ bracket' = Count(t.kind, b)
      /\ stack' = StackAfter(e, t.col)
      /\ blockCol' = IF t.kind = "open" /\ b = 0 THEN Top(stack') ELSE blockCol
      /\ faults' = (faults \cup (IF Abandons(t) THEN {"bracket"} ELSE {}) \cup {e.fault}) \ {"none"}
      /\ chk' = Judge(e, t.col, t.kind)
  BY DEF Token
<1>3. b \in Nat
  BY <1>1
<1>4. chk'.bracket = Count(t.kind, chk.bracket)
  BY <1>2 DEF Judge
<1>5. bracket' \in Nat /\ chk'.bracket \in Nat
  BY <1>1, <1>2, <1>3, <1>4, CountType
<1>6. ASSUME "bracket" \notin faults' PROVE bracket' = chk'.bracket /\ ~chk'.inside
  <2>1. ~Abandons(t)
    BY <1>2, <1>6
  <2>2. "bracket" \notin faults
    BY <1>2, <1>6
  <2>3. b = bracket /\ bracket = chk.bracket /\ ~chk.inside
    BY <1>1, <2>1, <2>2 DEF BracketsOpaque
  <2>4. chk'.inside = (chk.inside \/ (chk.bracket > 0 /\ (e.newline \/ e.indent \/ e.dedents > 0)))
    BY <1>2, Zenon DEF Judge
  <2>5. CASE bracket > 0
    <3>1. e = Quiet
      BY <1>1, <2>1, <2>5, QuietInside
    <3>2. ~e.newline /\ ~e.indent /\ ~(e.dedents > 0)
      BY <3>1 DEF Quiet
    <3> QED BY <1>2, <1>4, <2>3, <2>4, <3>2, Zenon
  <2>6. CASE ~(bracket > 0)
    BY <1>2, <1>4, <2>3, <2>4, <2>6, Zenon
  <2> QED BY <2>5, <2>6
<1>7. ASSUME bracket' > 0 PROVE blockCol' = Top(stack')
  <2>1. CASE t.kind = "open" /\ b = 0
    BY <1>2, <2>1
  <2>2. CASE ~(t.kind = "open" /\ b = 0)
    <3>1. b > 0
      BY <1>2, <1>3, <1>7, <2>2, CountType
    <3>2. bracket > 0 /\ ~Abandons(t)
      BY <3>1
    <3>3. e = Quiet
      BY <1>1, <3>2, QuietInside
    <3>4. stack' = SubSeq(stack, 1, Len(stack) - 0)
      BY <1>2, <3>3 DEF StackAfter, Quiet
    <3>5. stack' = stack
      BY <3>4 DEF LayoutInv, Levels
    <3> QED BY <1>1, <1>2, <2>2, <3>2, <3>5 DEF BracketsOpaque
  <2> QED BY <2>1, <2>2
<1> QED BY <1>5, <1>6, <1>7 DEF BracketInv, BracketsOpaque

\* So does the end of the file.
LEMMA BracketEofStep == ASSUME BracketInv, Eof PROVE BracketInv'
<1> DEFINE e == [Quiet EXCEPT !.newline = ~first, !.dedents = Len(stack) - 1]
<1>1. /\ ended' /\ bracket' = bracket
      /\ faults' = faults \cup (IF bracket > 0 THEN {"bracket"} ELSE {})
      /\ chk' = Judge(e, 1, "eof")
  BY DEF Eof
<1> HIDE DEF e
<1>2. chk'.bracket = chk.bracket
  BY <1>1 DEF Judge, Count
<1>3. ASSUME "bracket" \notin faults' PROVE bracket' = chk'.bracket /\ ~chk'.inside
  <2>1. "bracket" \notin faults /\ ~(bracket > 0)
    BY <1>1, <1>3
  <2>2. bracket = chk.bracket /\ ~chk.inside
    BY <2>1 DEF BracketInv, BracketsOpaque
  <2>3. chk'.inside = (chk.inside \/ (chk.bracket > 0 /\ (e.newline \/ e.indent \/ e.dedents > 0)))
    BY <1>1, Zenon DEF Judge
  <2> QED BY <1>1, <1>2, <2>1, <2>2, <2>3, Zenon
<1> QED BY <1>1, <1>2, <1>3 DEF BracketInv, BracketsOpaque

\* So does every step.
LEMMA BracketStep == LayoutInv /\ BracketInv /\ [Next]_vars => BracketInv'
<1> SUFFICES ASSUME LayoutInv, BracketInv, [Next]_vars PROVE BracketInv'
  OBVIOUS
<1>1. CASE \E t \in Tokens : Token(t)
  BY <1>1, BracketTokenStep
<1>2. CASE Eof
  BY <1>2, BracketEofStep
<1>3. CASE UNCHANGED vars
  BY <1>3 DEF vars, BracketInv, BracketsOpaque, Top
<1> QED BY <1>1, <1>2, <1>3 DEF Next

\* No separator falls inside a bracket group unless an unclosed bracket was
\* reported, and an open group remembers the level it was opened in.
THEOREM Opaque == Spec => []BracketsOpaque
<1>1. Init => BracketInv
  BY DEF Init, BracketInv, BracketsOpaque
<1>2. BracketInv => BracketsOpaque
  BY DEF BracketInv
<1> QED BY <1>1, <1>2, BracketStep, LayoutInit, LayoutStep, PTL DEF Spec

-----------------------------------------------------------------------------
(* The formatter's write.                                                  *)

\* The run, and the moments an edit came at since it began.
Run   == fm["f"]
Edits == missed["f"]

AnyText == Sources \cup {"torn"}
Pcs == {"idle", "stamp", "format", "check", "open", "write", "chmod", "recheck",
        "rename", "unlink", "done"}
Results == {"none", "unparsed", "moved", "unchanged", "failed", "ok"}
Locals == [pc : Pcs, src : AnyText, at : AnyText, fd : Inodes \cup {0},
           result : Results, runs : 0..MaxRuns]
Inode  == [text : AnyText, mode : {"own", "umask"}]

\* The moments at which the run holds a text that parses, holds the
\* temporary, and has written it.
Parsed  == {"check", "open", "write", "chmod", "recheck", "rename", "unlink"}
Writing == {"write", "chmod", "recheck", "rename", "unlink"}
Written == {"chmod", "recheck", "rename"}
Stamped == {"format", "check", "open", "write", "chmod", "recheck", "rename", "unlink"}

WriteShape ==
  /\ DOMAIN fm = {"f"} /\ Run \in Locals
  /\ DOMAIN missed = {"f"} /\ Edits \subseteq Pcs
  /\ DOMAIN dir = {"path", "tmp"}
  /\ dir["path"] \in Inodes
  /\ dir["tmp"] \in Inodes \cup {0}
  /\ dir["tmp"] # dir["path"]
  /\ disk \in [Inodes -> Inode]

\* What the path holds, whole and with the user's permissions.
PathWhole ==
  /\ disk[dir["path"]].text \in Sources
  /\ disk[dir["path"]].mode = "own"

\* The temporary, from its opening on.
TmpHeld ==
  /\ Run.pc \in Writing => dir["tmp"] \in Inodes /\ Run.fd = dir["tmp"]
  /\ Run.pc \notin Writing => Run.fd = 0
  /\ Run.pc = "write" => disk[dir["tmp"]].text = "torn"
  /\ Run.pc \in Written => disk[dir["tmp"]].text = Canonical(Run.src)
  /\ Run.pc \in {"recheck", "rename"} => disk[dir["tmp"]].mode = "own"

\* What the run knows of the path.
Known ==
  /\ Run.pc # "idle" => Run.runs > 0
  /\ Run.pc \in Parsed => Run.src \in Parses
  /\ Run.pc = "stamp" => Run.src = disk[dir["path"]].text \/ "stamp" \in Edits
  /\ Run.pc \in Stamped => /\ Run.src = Run.at \/ "stamp" \in Edits
                           /\ Run.at = disk[dir["path"]].text \/ Edits \ {"done"} # {}
  /\ Run.pc = "rename" => Run.at = disk[dir["path"]].text \/ "rename" \in Edits

\* What the run reported.
Reported ==
  /\ Run.pc # "done" => Run.result = "none"
  /\ Run.result \in {"ok", "unchanged"} /\ "done" \notin Edits
       => disk[dir["path"]].text = Canonical(Run.src)
  /\ Run.result = "moved" => Edits \ {"done"} # {}

WriteInv == WriteShape /\ PathWhole /\ TmpHeld /\ Known /\ Reported

-----------------------------------------------------------------------------
(* At the start the path holds what the user saved.                       *)
LEMMA WriteInit == Write!Init => WriteInv
<1> SUFFICES ASSUME Write!Init PROVE WriteInv
  OBVIOUS
<1>1. 1 \in Inodes
  BY WriteAssumption
<1>2. PICK t \in Sources :
        disk = [i_ \in Inodes |-> [text |-> IF i_ = 1 THEN t ELSE "torn", mode |-> "own"]]
  BY DEF Write!Init, Write!Torn, Write!OwnMode
<1>3. /\ dir = [path |-> 1, tmp |-> 0]
      /\ Run = [pc |-> "idle", src |-> "torn", at |-> "torn", fd |-> 0,
                result |-> "none", runs |-> 0]
      /\ DOMAIN fm = {"f"} /\ DOMAIN missed = {"f"} /\ Edits = {}
  BY DEF Write!Init, Write!Idle, Write!Torn, Write!None, Run, Edits
<1>4. WriteShape
  <2>1. Run \in Locals
    BY <1>3, WriteAssumption DEF Locals, Pcs, Results, AnyText
  <2>2. disk \in [Inodes -> Inode]
    BY <1>2 DEF Inode, AnyText
  <2>3. QED
    BY <1>1, <1>3, <2>1, <2>2, WriteAssumption DEF WriteShape
<1>5. PathWhole /\ TmpHeld /\ Known /\ Reported
  BY <1>1, <1>2, <1>3 DEF PathWhole, TmpHeld, Known, Reported, Writing, Written, Parsed, Stamped
<1>6. QED
  BY <1>4, <1>5 DEF WriteInv
-----------------------------------------------------------------------------
\* The run is at pc and its other locals are kept, but for those given.
Moves(pc, src, at_, fd, result) ==
  /\ DOMAIN fm' = {"f"} /\ Run' \in Locals
  /\ Run'.pc = pc /\ Run'.src = src /\ Run'.at = at_ /\ Run'.fd = fd
  /\ Run'.result = result /\ Run'.runs = Run.runs

Went(pc) == Moves(pc, Run.src, Run.at, Run.fd, Run.result)
Ended(r) == Moves("done", Run.src, Run.at, 0, r)

(* Going on to the next call changes nothing else.                         *)
LEMMA GotoMoves ==
  ASSUME WriteShape, NEW pc \in Pcs, fm' = Write!Goto("f", pc)
  PROVE  Went(pc)
<1>1. Run \in Locals /\ Run' = [Run EXCEPT !.pc = pc] /\ DOMAIN fm' = {"f"}
  BY DEF Write!Goto, Run, WriteShape
<1> HIDE DEF Run
<1>2. QED
  BY <1>1 DEF Went, Moves, Locals

(* A run that ends lets go of its handle.                                  *)
LEMMA FinishMoves ==
  ASSUME WriteShape, NEW r \in Results, fm' = Write!Finish("f", r)
  PROVE  Ended(r)
<1>1. /\ Run \in Locals /\ DOMAIN fm' = {"f"}
      /\ Run' = [[[Run EXCEPT !.pc = "done"] EXCEPT !.result = r] EXCEPT !.fd = 0]
  BY DEF Write!Finish, Write!None, Run, WriteShape
<1>2. "done" \in Pcs
  BY DEF Pcs
<1> HIDE DEF Run
<1>3. QED
  BY <1>1, <1>2 DEF Ended, Moves, Locals

\* Nothing but the run's locals moved.
AllStill == UNCHANGED <<dir, disk, missed>>

(* Reading the file.                                                       *)
LEMMA SlurpStep == WriteInv /\ Write!Slurp("f") => WriteInv'
<1> SUFFICES ASSUME WriteInv, Write!Slurp("f") PROVE WriteInv'
  OBVIOUS
<1> DEFINE t == disk[dir["path"]].text
<1>1. t \in Sources /\ Run \in Locals /\ Run.pc = "idle" /\ Run.runs < MaxRuns
  BY DEF WriteInv, WriteShape, PathWhole, Write!Slurp, Run
<1>2. /\ UNCHANGED <<dir, disk>> /\ DOMAIN fm' = {"f"} /\ DOMAIN missed' = {"f"}
      /\ Edits' = {}
      /\ Run' = [pc |-> "stamp", src |-> t, at |-> "torn", fd |-> 0,
                 result |-> "none", runs |-> Run.runs + 1]
  BY DEF WriteInv, WriteShape, Write!Slurp, Write!Idle, Write!Holds, Write!Torn,
     Write!None, Run, Edits
<1>3. Run.runs \in Nat /\ Run.runs + 1 \in 0..MaxRuns /\ Run.runs + 1 > 0
  BY <1>1, WriteAssumption DEF Locals
<1>4. Run' \in Locals
  BY <1>1, <1>2, <1>3 DEF Locals, Pcs, Results, AnyText
<1> HIDE DEF t
<1>5. WriteShape'
  BY <1>2, <1>4 DEF WriteInv, WriteShape
<1>6. PathWhole'
  BY <1>2 DEF WriteInv, PathWhole
<1>7. TmpHeld' /\ Reported'
  BY <1>2 DEF TmpHeld, Reported, Writing, Written
<1>8. Known'
  BY <1>2, <1>3 DEF Known, Parsed, Stamped, t
<1>9. QED
  BY <1>5, <1>6, <1>7, <1>8 DEF WriteInv

(* Stamping it.                                                            *)
LEMMA StampStep == WriteInv /\ Write!Stamp("f") => WriteInv'
<1> SUFFICES ASSUME WriteInv, Write!Stamp("f") PROVE WriteInv'
  OBVIOUS
<1> DEFINE t == disk[dir["path"]].text
<1>1. t \in Sources /\ Run \in Locals /\ Run.pc = "stamp"
  BY DEF WriteInv, WriteShape, PathWhole, Write!Stamp, Run
<1>2. /\ AllStill /\ DOMAIN fm' = {"f"}
      /\ Run' = [[Run EXCEPT !.pc = "format"] EXCEPT !.at = t]
  BY DEF WriteInv, WriteShape, Write!Stamp, Write!Goto, Write!Holds, Run, AllStill
<1> HIDE DEF t
<1>3. Moves("format", Run.src, t, Run.fd, Run.result)
  <2> HIDE DEF Run
  <2>1. QED
    BY <1>1, <1>2 DEF Moves, Locals, Pcs, AnyText
<1>4. QED
  BY <1>1, <1>2, <1>3 DEF WriteInv, WriteShape, PathWhole, TmpHeld, Known, Reported,
     Moves, AllStill, Parsed, Stamped, Writing, Written, Edits, t

(* A text with no canonical form is left alone.                            *)
LEMMA FormatStep == WriteInv /\ Write!Format("f") => WriteInv'
<1> SUFFICES ASSUME WriteInv, Write!Format("f") PROVE WriteInv'
  OBVIOUS
<1>1. AllStill /\ Run.pc = "format" /\ WriteShape
  BY DEF Write!Format, Run, AllStill, WriteInv
<1>2. CASE Run.src \in Parses
  <2>1. Went("check")
    BY <1>1, <1>2, GotoMoves DEF Write!Format, Run, Pcs
  <2>2. QED
    BY <1>1, <1>2, <2>1 DEF WriteInv, WriteShape, PathWhole, TmpHeld, Known, Reported,
       Went, Moves, AllStill, Parsed, Stamped, Writing, Written, Edits
<1>3. CASE Run.src \notin Parses
  <2>1. Ended("unparsed")
    BY <1>1, <1>3, FinishMoves DEF Write!Format, Run, Results
  <2>2. QED
    BY <1>1, <2>1 DEF WriteInv, WriteShape, PathWhole, TmpHeld, Known, Reported,
       Ended, Moves, AllStill, Parsed, Stamped, Writing, Written, Edits
<1>4. QED
  BY <1>2, <1>3

(* The first check: an edited file is left to the user, a canonical one is *)
(* not written.                                                            *)
LEMMA CheckStep == WriteInv /\ Write!Check("f") => WriteInv'
<1> SUFFICES ASSUME WriteInv, Write!Check("f") PROVE WriteInv'
  OBVIOUS
<1> DEFINE t == disk[dir["path"]].text
<1>1. AllStill /\ Run.pc = "check" /\ WriteShape
  BY DEF Write!Check, Run, AllStill, WriteInv
<1>2. fm' = IF Run.at # t THEN Write!Finish("f", "moved")
            ELSE IF Canonical(Run.src) = t THEN Write!Finish("f", "unchanged")
            ELSE Write!Goto("f", "open")
  BY DEF Write!Check, Write!Permitted, Write!Holds, Write!Data, Run
<1>3. CASE Run.at # t
  <2>1. Ended("moved")
    BY <1>1, <1>2, <1>3, FinishMoves DEF Results
  <2>2. QED
    BY <1>1, <1>3, <2>1 DEF WriteInv, WriteShape, PathWhole, TmpHeld, Known, Reported,
       Ended, Moves, AllStill, Parsed, Stamped, Writing, Written, Edits
<1>4. CASE Run.at = t /\ Canonical(Run.src) = t
  <2>1. Ended("unchanged")
    BY <1>1, <1>2, <1>4, FinishMoves DEF Results
  <2>2. QED
    BY <1>1, <1>4, <2>1 DEF WriteInv, WriteShape, PathWhole, TmpHeld, Known, Reported,
       Ended, Moves, AllStill, Parsed, Stamped, Writing, Written, Edits
<1>5. CASE Run.at = t /\ Canonical(Run.src) # t
  <2>1. Went("open")
    BY <1>1, <1>2, <1>5, GotoMoves DEF Pcs
  <2>2. QED
    BY <1>1, <2>1 DEF WriteInv, WriteShape, PathWhole, TmpHeld, Known, Reported,
       Went, Moves, AllStill, Parsed, Stamped, Writing, Written, Edits
<1>6. QED
  BY <1>3, <1>4, <1>5

(* Opening the temporary truncates it and never the path's inode.          *)
LEMMA OpenStep == WriteInv /\ Write!Open("f") => WriteInv'
<1> SUFFICES ASSUME WriteInv, Write!Open("f") PROVE WriteInv'
  OBVIOUS
<1>1. /\ Run.pc = "open" /\ WriteShape /\ missed' = missed
      /\ Run.src \in Parses /\ Run.result = "none"
  BY DEF Write!Open, Run, WriteInv, Known, Reported, Parsed
<1>2. CASE fm' = Write!Finish("f", "failed") /\ UNCHANGED <<dir, disk>>
  <2>1. Ended("failed")
    BY <1>1, <1>2, FinishMoves DEF Results
  <2>2. QED
    BY <1>1, <1>2, <2>1 DEF WriteInv, WriteShape, PathWhole, TmpHeld, Known, Reported,
       Ended, Moves, Parsed, Stamped, Writing, Written, Edits
<1>3. ASSUME ~(fm' = Write!Finish("f", "failed") /\ UNCHANGED <<dir, disk>>)
      PROVE  WriteInv'
  <2> DEFINE n == IF dir["tmp"] = 0 THEN Write!NewInode ELSE dir["tmp"]
             m == IF dir["tmp"] = 0 THEN "umask" ELSE disk[n].mode
  <2>1. /\ dir' = [dir EXCEPT !["tmp"] = n]
        /\ disk' = [disk EXCEPT ![n] = [text |-> "torn", mode |-> m]]
        /\ fm' = [Write!Goto("f", "write") EXCEPT !["f"].fd = n]
    BY <1>3 DEF Write!Open, Write!None, Write!Torn, Write!Umask
  <2>2. /\ dir["path"] \in Inodes /\ dir["tmp"] \in Inodes \cup {0}
        /\ dir["tmp"] # dir["path"] /\ Run.fd = 0
    BY <1>1 DEF WriteInv, WriteShape, TmpHeld, Writing
  <2>3. n \in Inodes /\ n # dir["path"]
    <3>1. CASE dir["tmp"] = 0
      <4>1. \E i_ \in Inodes : i_ \notin {dir["path"], dir["tmp"]} \cup {fm[p].fd : p \in {"f"}}
        BY <2>2, <3>1, WriteAssumption DEF Run
      <4>2. Write!NewInode \in Inodes /\ Write!NewInode # dir["path"]
        BY <4>1 DEF Write!NewInode
      <4>3. QED
        BY <3>1, <4>2
    <3>2. CASE dir["tmp"] # 0
      BY <2>2, <3>2
    <3>3. QED
      BY <3>1, <3>2
  <2>4. m \in {"own", "umask"}
    BY <1>1, <2>3 DEF WriteShape, Inode
  <2> HIDE DEF n, m
  <2>5. /\ Run \in Locals /\ DOMAIN fm' = {"f"}
        /\ Run' = [[Run EXCEPT !.pc = "write"] EXCEPT !.fd = n]
    BY <1>1, <2>1 DEF WriteShape, Write!Goto, Run
  <2>6. Moves("write", Run.src, Run.at, n, Run.result)
    <3> HIDE DEF Run
    <3>1. QED
      BY <2>3, <2>5 DEF Moves, Locals, Pcs
  <2>7. /\ DOMAIN dir' = {"path", "tmp"} /\ dir'["path"] = dir["path"] /\ dir'["tmp"] = n
    BY <1>1, <2>1 DEF WriteShape
  <2>8. /\ disk' \in [Inodes -> Inode] /\ disk'[dir["path"]] = disk[dir["path"]]
        /\ disk'[n].text = "torn"
    BY <1>1, <2>1, <2>2, <2>3, <2>4 DEF WriteShape, Inode, AnyText
  <2>9. QED
    BY <1>1, <2>2, <2>3, <2>6, <2>7, <2>8 DEF WriteInv, WriteShape, PathWhole, TmpHeld,
       Known, Reported, Moves, Parsed, Stamped, Writing, Written, Edits
<1>4. QED
  BY <1>2, <1>3

\* The text of the temporary changed, the path's inode did not.
Wrote(t) ==
  /\ dir' = dir /\ missed' = missed
  /\ disk' \in [Inodes -> Inode]
  /\ disk'[dir["path"]] = disk[dir["path"]]
  /\ disk'[dir["tmp"]].text = t

(* Writing it, whole or in part.                                           *)
LEMMA WriteStep == WriteInv /\ Write!Write("f") => WriteInv'
<1> SUFFICES ASSUME WriteInv, Write!Write("f") PROVE WriteInv'
  OBVIOUS
<1>1. /\ Run.pc = "write" /\ WriteShape /\ UNCHANGED <<dir, missed>>
      /\ Run.src \in Parses /\ Run.result = "none"
      /\ dir["tmp"] \in Inodes /\ Run.fd = dir["tmp"]
      /\ dir["path"] \in Inodes /\ dir["tmp"] # dir["path"]
  BY DEF Write!Write, Run, WriteInv, WriteShape, Known, TmpHeld, Reported, Parsed, Writing
<1>2. PICK ok \in BOOLEAN :
        /\ disk' = [disk EXCEPT ![dir["tmp"]].text =
                      IF ok /\ @ \in {"torn", Canonical(Run.src)}
                      THEN Canonical(Run.src) ELSE "torn"]
        /\ fm' = Write!Goto("f", IF ok THEN "chmod" ELSE "unlink")
  BY <1>1 DEF Write!Write, Write!Data, Write!Torn, Run
<1>3. Canonical(Run.src) \in AnyText /\ "torn" \in AnyText
  BY <1>1, WriteAssumption DEF AnyText
<1>4. ASSUME NEW t \in AnyText, disk' = [disk EXCEPT ![dir["tmp"]].text = t]
      PROVE  Wrote(t)
  BY <1>1, <1>4 DEF WriteShape, Inode, Wrote
<1>5. CASE ~ok
  <2>1. Went("unlink")
    BY <1>1, <1>2, <1>5, GotoMoves DEF Pcs
  <2>2. \E t \in AnyText : Wrote(t)
    BY <1>2, <1>3, <1>4, <1>5
  <2>3. QED
    BY <1>1, <2>1, <2>2 DEF WriteInv, WriteShape, PathWhole, TmpHeld, Known, Reported,
       Went, Moves, Wrote, Parsed, Stamped, Writing, Written, Edits
<1>6. CASE ok
  <2>1. Went("chmod")
    BY <1>1, <1>2, <1>6, GotoMoves DEF Pcs
  <2>2. PICK t \in AnyText : Wrote(t) /\ t = IF disk[dir["tmp"]].text \in {"torn", Canonical(Run.src)}
                                          THEN Canonical(Run.src) ELSE "torn"
    BY <1>2, <1>3, <1>4, <1>6
  <2>3. disk[dir["tmp"]].text = "torn"
    BY <1>1 DEF WriteInv, TmpHeld
  <2>4. QED
    BY <1>1, <2>1, <2>2, <2>3 DEF WriteInv, WriteShape, PathWhole, TmpHeld, Known, Reported,
       Went, Moves, Wrote, Parsed, Stamped, Writing, Written, Edits
<1>7. QED
  BY <1>5, <1>6

(* It gets the path's permissions.                                         *)
LEMMA ChmodStep == WriteInv /\ Write!Chmod("f") => WriteInv'
<1> SUFFICES ASSUME WriteInv, Write!Chmod("f") PROVE WriteInv'
  OBVIOUS
<1>1. /\ Run.pc = "chmod" /\ WriteShape /\ UNCHANGED <<dir, missed>>
      /\ Run.src \in Parses /\ Run.result = "none"
      /\ dir["tmp"] \in Inodes /\ dir["tmp"] # 0 /\ Run.fd = dir["tmp"]
      /\ dir["path"] \in Inodes /\ dir["tmp"] # dir["path"]
      /\ disk[dir["path"]].mode = "own"
      /\ disk[dir["tmp"]].text = Canonical(Run.src)
  BY WriteAssumption DEF Write!Chmod, Run, WriteInv, WriteShape, Known, TmpHeld, Reported,
     PathWhole, Parsed, Writing, Written
<1>2. Went("recheck")
  BY <1>1, GotoMoves DEF Write!Chmod, Pcs
<1>3. disk' = [disk EXCEPT ![dir["tmp"]].mode = "own"]
  BY <1>1 DEF Write!Chmod, Write!None
<1>4. /\ disk' \in [Inodes -> Inode] /\ disk'[dir["path"]] = disk[dir["path"]]
      /\ disk'[dir["tmp"]].mode = "own" /\ disk'[dir["tmp"]].text = Canonical(Run.src)
  BY <1>1, <1>3 DEF WriteShape, Inode
<1>5. QED
  BY <1>1, <1>2, <1>4 DEF WriteInv, WriteShape, PathWhole, TmpHeld, Known, Reported,
     Went, Moves, Parsed, Stamped, Writing, Written, Edits

\* The temporary went and the run ended.
Dropped(r) ==
  /\ Ended(r) /\ UNCHANGED <<disk, missed>>
  /\ DOMAIN dir' = {"path", "tmp"} /\ dir'["path"] = dir["path"] /\ dir'["tmp"] = 0

(* Giving up, with the temporary unlinked.                                 *)
LEMMA DroppedStep ==
  ASSUME WriteInv, Run.pc # "idle", NEW r \in {"moved", "failed"}, Dropped(r),
         r = "moved" => Edits \ {"done"} # {}
  PROVE  WriteInv'
<1>1. dir["path"] # 0
  BY WriteAssumption DEF WriteInv, WriteShape
<1>2. /\ DOMAIN fm' = {"f"} /\ Run' \in Locals /\ Run'.pc = "done" /\ Run'.fd = 0
      /\ Run'.result = r /\ Run'.runs = Run.runs /\ UNCHANGED <<disk, missed>>
      /\ DOMAIN dir' = {"path", "tmp"} /\ dir'["path"] = dir["path"] /\ dir'["tmp"] = 0
  BY DEF Dropped, Ended, Moves
<1>3. Edits' = Edits
  BY <1>2 DEF Edits
<1> HIDE DEF Run, Edits
<1>4. WriteShape'
  BY <1>1, <1>2, <1>3 DEF WriteInv, WriteShape
<1>5. PathWhole'
  BY <1>2 DEF WriteInv, PathWhole
<1>6. TmpHeld' /\ Reported'
  BY <1>2, <1>3 DEF TmpHeld, Reported, Writing, Written
<1>7. Known'
  BY <1>2 DEF WriteInv, Known, Parsed, Stamped
<1>8. QED
  BY <1>4, <1>5, <1>6, <1>7 DEF WriteInv

(* The last check.                                                         *)
LEMMA RecheckStep == WriteInv /\ Write!Recheck("f") => WriteInv'
<1> SUFFICES ASSUME WriteInv, Write!Recheck("f") PROVE WriteInv'
  OBVIOUS
<1> DEFINE t == disk[dir["path"]].text
<1>1. Run.pc = "recheck" /\ WriteShape /\ UNCHANGED <<disk, missed>>
  BY DEF Write!Recheck, Run, WriteInv
<1>2. CASE Run.at = t
  <2>1. Went("rename") /\ dir' = dir
    BY <1>1, <1>2, GotoMoves DEF Write!Recheck, Write!Permitted, Write!Holds, Run, Pcs
  <2>2. QED
    BY <1>1, <1>2, <2>1 DEF WriteInv, WriteShape, PathWhole, TmpHeld, Known, Reported,
       Went, Moves, Parsed, Stamped, Writing, Written, Edits
<1>3. CASE Run.at # t
  <2>1. fm' = Write!Finish("f", "moved") /\ dir' = [dir EXCEPT !["tmp"] = 0]
    BY <1>3 DEF Write!Recheck, Write!Permitted, Write!Holds, Write!Unlinked, Write!None, Run
  <2>2. Dropped("moved")
    BY <1>1, <2>1, FinishMoves DEF Dropped, Results, WriteShape
  <2>3. Edits \ {"done"} # {}
    BY <1>1, <1>3 DEF WriteInv, Known, Stamped
  <2>4. QED
    BY <1>1, <2>2, <2>3, DroppedStep
<1>4. QED
  BY <1>2, <1>3

(* The entry now leads to the temporary's inode, whole and with the user's *)
(* permissions, or everything is as it was.                                *)
LEMMA RenameStep == WriteInv /\ Write!Rename("f") => WriteInv'
<1> SUFFICES ASSUME WriteInv, Write!Rename("f") PROVE WriteInv'
  OBVIOUS
<1>1. /\ Run.pc = "rename" /\ WriteShape /\ UNCHANGED <<disk, missed>>
      /\ Run.src \in Parses /\ Run.result = "none"
      /\ dir["tmp"] \in Inodes
      /\ disk[dir["tmp"]].mode = "own" /\ disk[dir["tmp"]].text = Canonical(Run.src)
  BY DEF Write!Rename, Run, WriteInv, Known, TmpHeld, Reported, Parsed, Writing, Written
<1>2. CASE dir' = [path |-> dir["tmp"], tmp |-> 0] /\ fm' = Write!Finish("f", "ok")
  <2>1. Ended("ok")
    BY <1>1, <1>2, FinishMoves DEF Results
  <2>2. DOMAIN dir' = {"path", "tmp"} /\ dir'["path"] = dir["tmp"] /\ dir'["tmp"] = 0
    BY <1>2
  <2>3. Canonical(Run.src) \in Sources /\ dir["tmp"] # 0
    BY <1>1, WriteAssumption
  <2>4. QED
    BY <1>1, <2>1, <2>2, <2>3 DEF WriteInv, WriteShape, PathWhole, TmpHeld, Known, Reported,
       Ended, Moves, Parsed, Stamped, Writing, Written, Edits
<1>3. CASE fm' = Write!Goto("f", "unlink") /\ dir' = dir
  <2>1. Went("unlink")
    BY <1>1, <1>3, GotoMoves DEF Pcs
  <2>2. QED
    BY <1>1, <1>3, <2>1 DEF WriteInv, WriteShape, PathWhole, TmpHeld, Known, Reported,
       Went, Moves, Parsed, Stamped, Writing, Written, Edits
<1>4. QED
  BY <1>2, <1>3 DEF Write!Rename, Write!None

(* Unlinking, after a write or a rename that failed.                       *)
LEMMA UnlinkStep == WriteInv /\ Write!Unlink("f") => WriteInv'
<1> SUFFICES ASSUME WriteInv, Write!Unlink("f") PROVE WriteInv'
  OBVIOUS
<1>1. /\ WriteShape /\ UNCHANGED <<disk, missed>> /\ fm' = Write!Finish("f", "failed")
      /\ dir' = [dir EXCEPT !["tmp"] = 0] /\ Run.pc = "unlink"
  BY DEF Write!Unlink, Write!Unlinked, Write!None, WriteInv, Run
<1>2. Dropped("failed")
  BY <1>1, FinishMoves DEF Dropped, Results, WriteShape
<1>3. QED
  BY <1>1, <1>2, DroppedStep

(* A process that died, and one that is started again, hold nothing; what  *)
(* they left on disk stays.                                                *)
LEMMA RestartStep == WriteInv /\ (Write!Crash("f") \/ Write!Again("f")) => WriteInv'
<1> SUFFICES ASSUME WriteInv, Write!Crash("f") \/ Write!Again("f") PROVE WriteInv'
  OBVIOUS
<1>1. AllStill /\ WriteShape /\ Run \in Locals
  BY DEF Write!Crash, Write!Again, AllStill, WriteInv, WriteShape
<1>2. /\ DOMAIN fm' = {"f"}
      /\ Run' = [pc |-> "idle", src |-> "torn", at |-> "torn", fd |-> 0,
                 result |-> "none", runs |-> Run.runs]
  BY <1>1 DEF Write!Crash, Write!Again, Write!Idle, Write!Torn, Write!None, Run, WriteShape
<1>3. Moves("idle", "torn", "torn", 0, "none")
  <2> HIDE DEF Run
  <2>1. QED
    BY <1>1, <1>2 DEF Moves, Locals, Pcs, Results, AnyText
<1>4. QED
  BY <1>1, <1>3 DEF WriteInv, WriteShape, PathWhole, TmpHeld, Known, Reported,
     Moves, AllStill, Parsed, Stamped, Writing, Written, Edits

(* An edit: the path holds what the user saved, and the run is dated by    *)
(* it.                                                                     *)
LEMMA SaveStep ==
  ASSUME WriteInv, NEW t \in Sources, Write!Save(t)
  PROVE  WriteInv'
<1>1. /\ WriteShape /\ UNCHANGED <<dir, fm>> /\ dir["path"] \in Inodes
      /\ dir["tmp"] # dir["path"]
      /\ disk' = [disk EXCEPT ![dir["path"]].text = t]
      /\ DOMAIN missed' = {"f"} /\ Edits' = Edits \cup {Run.pc}
  BY DEF Write!Save, Write!Holds, WriteInv, WriteShape, Run, Edits
<1>2. Run.pc \in Pcs /\ Run' = Run
  BY <1>1 DEF WriteShape, Locals, Run
<1>3. /\ disk' \in [Inodes -> Inode] /\ disk'[dir["path"]].text = t
      /\ disk'[dir["path"]].mode = disk[dir["path"]].mode
      /\ \A n \in Inodes \ {dir["path"]} : disk'[n] = disk[n]
  BY <1>1 DEF WriteShape, Inode, AnyText
<1> HIDE DEF Run, Edits
<1>4. WriteShape'
  BY <1>1, <1>2, <1>3 DEF WriteShape
<1>5. PathWhole'
  BY <1>1, <1>3 DEF WriteInv, PathWhole
<1>6. TmpHeld'
  BY <1>1, <1>2, <1>3 DEF WriteInv, TmpHeld, Writing, Written
<1>7. Known'
  BY <1>1, <1>2 DEF WriteInv, Known, Parsed, Stamped
<1>8. Reported'
  BY <1>1, <1>2 DEF WriteInv, Reported
<1>9. QED
  BY <1>4, <1>5, <1>6, <1>7, <1>8 DEF WriteInv

(* Every step of the run and of the editor keeps the invariant.            *)
LEMMA WriteNext == WriteInv /\ [Write!Next]_writeVars => WriteInv'
<1> SUFFICES ASSUME WriteInv, [Write!Next]_writeVars PROVE WriteInv'
  OBVIOUS
<1>1. CASE UNCHANGED writeVars
  BY <1>1 DEF writeVars, WriteInv, WriteShape, PathWhole, TmpHeld, Known, Reported, Run, Edits
<1>2. ASSUME NEW t \in Sources, Write!Save(t) PROVE WriteInv'
  BY <1>2, SaveStep
<1>3. CASE \/ Write!Slurp("f") \/ Write!Stamp("f") \/ Write!Format("f") \/ Write!Check("f")
           \/ Write!Open("f") \/ Write!Write("f") \/ Write!Chmod("f") \/ Write!Recheck("f")
           \/ Write!Rename("f") \/ Write!Unlink("f") \/ Write!Crash("f") \/ Write!Again("f")
  BY <1>3, SlurpStep, StampStep, FormatStep, CheckStep, OpenStep, WriteStep, ChmodStep,
     RecheckStep, RenameStep, UnlinkStep, RestartStep
<1>4. QED
  BY <1>1, <1>2, <1>3 DEF Write!Next

(* The invariant, on every behaviour of the front end.                     *)
THEOREM WriteSafe == FSpec => []WriteInv
<1>1. FInit => WriteInv
  BY WriteInit DEF FInit
<1>2. [FNext]_allVars => [Write!Next]_writeVars
  BY DEF FNext, allVars, writeVars
<1>3. QED
  BY <1>1, <1>2, WriteNext, PTL DEF FSpec

(* The path always holds a whole text with the user's permissions; a run   *)
(* that reports success left the canonical form, and one that reports a    *)
(* concurrent change was overtaken by one.                                 *)
THEOREM TargetAlwaysWhole == FSpec => []TargetWhole
<1>1. WriteInv => TargetWhole
  <2> SUFFICES ASSUME WriteInv PROVE TargetWhole
    OBVIOUS
  <2>1. disk[dir["path"]].text # "torn"
    BY WriteAssumption DEF WriteInv, PathWhole
  <2>2. QED
    BY <2>1 DEF WriteInv, PathWhole, Reported, TargetWhole, Write!TargetWhole,
       Write!NeverPartial, Write!Holds, Write!Torn, Write!OwnMode, Run, Edits
<1>2. QED
  BY <1>1, WriteSafe, PTL

(* Replacing the path overwrites only an edit that fell between the read   *)
(* and the stamp, or between the last check and the rename.                *)
THEOREM EditsOnlyMissed == FSpec => EditsKept
<1> DEFINE Kept == \A p \in {"f"} : Write!Replaces(p) /\ Write!Holds("path") # fm[p].src
                     => missed[p] \cap {"stamp", "rename"} # {}
<1>1. WriteInv => Kept
  <2> SUFFICES ASSUME WriteInv, Write!Rename("f"), disk[dir["path"]].text # Run.src
               PROVE  Edits \cap {"stamp", "rename"} # {}
    BY DEF Write!Replaces, Write!Holds, Run, Edits
  <2>1. Run.pc = "rename"
    BY DEF Write!Rename, Run
  <2>2. QED
    BY <2>1 DEF WriteInv, Known, Stamped
<1>2. WriteInv => [Kept]_writeVars
  BY <1>1
<1>3. QED
  BY <1>2, WriteSafe, PTL DEF EditsKept, Write!EditsKept, Write!vars, writeVars

-----------------------------------------------------------------------------
(* The resolver's walk.                                                    *)

Entry == [name : Names, baton : BOOLEAN, frame : Nat]
ScopeKinds == {"fun", "letfun", "scope", "handler", "clause", "init"}

\* The last member of a set of positions, 0 if there is none.
IsLast(S, b) == (S = {} /\ b = 0) \/ (b \in S /\ \A j \in S : j <= b)

Hits(e, x)   == {j \in DOMAIN e : e[j].name = x}
Batons(e, x) == {j \in DOMAIN e : e[j].name = x /\ e[j].baton}

\* Of the first k - 1 parts: those that bind x, the clauses x is a slot of,
\* the boundaries, the initialisers, those that hide x in a where block.
Binding(tr, k, x) == {j \in 1..k-1 : x \in tr[j].binds}
Slots(tr, k, x)   == {j \in 1..k-1 : tr[j].kind = "clause" /\ x \in tr[j].vars}
Fences(tr, k)     == {j \in 1..k-1 : tr[j].kind \in {"fun", "clause"}}
Starts(tr, k)     == {j \in 1..k-1 : tr[j].kind = "init"}
Hides(tr, k, x)   == \E j \in 1..k-1 : x \in tr[j].where

\* The number of the handler a clause belongs to: its literal was entered just
\* before the clause.
NumberOf(sc, s) == sc[s - 1].nframe + 1

\* The environment finds the right slot, and the right name.
SeesSlot(e, x, s, sc) ==
  /\ Batons(e, x) = {} <=> s = 0
  /\ \A h : IsLast(Batons(e, x), h) /\ h # 0 => e[h].frame = NumberOf(sc, s)
SeesName(e, x, b, s) ==
  /\ Hits(e, x) = {} <=> (b = 0 /\ s = 0)
  /\ \A h : IsLast(Hits(e, x), h) /\ h # 0 => (e[h].baton <=> s > b)

Sees(e, sc, tr, k, x) ==
  \A s : IsLast(Slots(tr, k, x), s) =>
    /\ SeesSlot(e, x, s, sc)
    /\ ~Hides(tr, k, x) => \A b : IsLast(Binding(tr, k, x), b) => SeesName(e, x, b, s)

\* Between the clauses of a handler: the environment around it, then its slots.
SeesHandler(e, sc, tr, k) ==
  \E xs \in Scope!UpTo(1) :
    /\ tr[k-1].vars = Scope!ToSet(xs)
    /\ e = sc[k-1].env \o [j \in DOMAIN xs |-> Scope!Baton(xs[j], sc[k-1].nframe + 1)]

SeesFrame(f, sc, tr, k) ==
  \A b : IsLast(Fences(tr, k), b) =>
    f = IF b = 0 \/ tr[b].kind = "fun" THEN 0 ELSE NumberOf(sc, b)

\* The batons of the initialiser being walked, if it is the only one.
SeesInit(ib, tr, k, x) ==
  Slots(tr, k, x) = {} =>
    /\ Batons(ib, x) # {} => \E j \in Starts(tr, k) : x \in tr[j].vars
    /\ (\E j \in Starts(tr, k) : x \in tr[j].vars) /\ (\A j, h \in Starts(tr, k) : j = h)
         => Batons(ib, x) # {}

InHandler(sc, k) == k > 1 /\ sc[k-1].kind = "handler"

Level(e, f, ib, m, sc, tr, k) ==
  /\ e \in Seq(Entry) /\ ib \in Seq(Entry) /\ f \in Nat /\ m \in Nat
  /\ \A j \in 1..k-1 : sc[j].nframe <= m /\ (sc[j].kind = "handler" => sc[j].nframe < m)
  /\ SeesFrame(f, sc, tr, k)
  /\ \A x \in Names : SeesInit(ib, tr, k, x)
  /\ IF InHandler(sc, k) THEN SeesHandler(e, sc, tr, k)
     ELSE \A x \in Names : Sees(e, sc, tr, k, x)

TrailPart  == [kind : {"fun", "scope", "handler", "clause", "init"}, vars : SUBSET Names,
               binds : SUBSET Names, where : SUBSET Names]
Labels == Names \cup {""}
ScopeEntry == [kind : ScopeKinds, name : Labels, env : Seq(Entry), frame : Nat,
               initb : Seq(Entry), nframe : Nat]

KindOf(kind) == IF kind = "letfun" THEN "fun" ELSE kind

\* Each construct has its part of the trail; the constructs of a handler are
\* its clauses and initialisers, with its slots, and stand nowhere else; a
\* local function stands in a scope.
ShapeAt(sc, tr, k) ==
  /\ tr[k].kind = KindOf(sc[k].kind)
  /\ InHandler(sc, k) <=> sc[k].kind \in {"clause", "init"}
  /\ sc[k].kind \in {"clause", "init"} => tr[k].vars = tr[k-1].vars
  /\ sc[k].kind \in {"handler", "init"} => tr[k].binds = {}
  /\ sc[k].kind = "letfun" => k > 1 /\ sc[k-1].kind = "scope" /\ sc[k].name \in Names
ScopeShape(sc, tr) ==
  /\ sc \in Seq(ScopeEntry) /\ tr \in Seq(TrailPart) /\ Len(tr) = Len(sc)
  /\ \A k \in 1..Len(sc) : ShapeAt(sc, tr, k)

ScopeLevels(e, f, ib, m, sc, tr) ==
  /\ \A k \in 1..Len(sc) : Level(sc[k].env, sc[k].frame, sc[k].initb, sc[k].nframe, sc, tr, k)
  /\ Level(e, f, ib, m, sc, tr, Len(sc) + 1)

Walks(e, f, ib, m, sc, tr) == ScopeShape(sc, tr) /\ ScopeLevels(e, f, ib, m, sc, tr)

ScopeInv == Walks(env, frame, initb, nframe, scopes, trail)

-----------------------------------------------------------------------------
(* Positions.                                                              *)

(* A set of positions has a last one.                                      *)
LEMMA LastExists ==
  ASSUME NEW n \in Nat, NEW S, \A j_ \in S : j_ \in 1..n
  PROVE  \E b \in 0..n : IsLast(S, b)
<1>1. CASE S = {}
  BY <1>1 DEF IsLast
<1>2. CASE S # {}
  <2> DEFINE T == {m \in Nat : n - m \in S}
  <2>1. PICK j \in S : TRUE
    BY <1>2
  <2>2. n - j \in T /\ T \subseteq Nat
    BY <2>1
  <2> HIDE DEF T
  <2>4. PICK m \in T : \A l \in T : m <= l
    BY <2>2, LeastExists
  <2>5. m \in Nat /\ n - m \in S
    BY DEF T
  <2>6. ASSUME NEW l \in S PROVE l <= n - m
    <3>1. n - l \in T
      BY DEF T
    <3>2. QED
      BY <2>2, <2>4, <2>5, <3>1
  <2>9. QED
    BY <2>5, <2>6 DEF IsLast
<1>3. QED
  BY <1>1, <1>2

(* It is what Innermost yields.                                            *)
LEMMA InnermostLast ==
  ASSUME NEW n \in Nat, NEW S, \A j_ \in S : j_ \in 1..n
  PROVE  IsLast(S, Scope!Innermost(S)) /\ Scope!Innermost(S) \in 0..n
<1>1. PICK b \in 0..n : IsLast(S, b)
  BY LastExists
<1>2. b \in S \cup {0} /\ \A j \in S : j <= b
  BY <1>1 DEF IsLast
<1>3. ASSUME NEW c, c = Scope!Innermost(S) PROVE IsLast(S, c) /\ c \in 0..n
  <2>1. c \in S \cup {0} /\ \A j \in S : j <= c
    BY <1>2, <1>3 DEF Scope!Innermost
  <2>2. QED
    BY <2>1 DEF IsLast
<1>4. QED
  BY <1>3

-----------------------------------------------------------------------------
(* Pushing an entry.                                                       *)

(* The entries of a name, one entry more.                                  *)
LEMMA PushHits ==
  ASSUME NEW e \in Seq(Entry), NEW ent \in Entry, NEW x
  PROVE  LET e2 == Append(e, ent) IN
         /\ e2 \in Seq(Entry)
         /\ Hits(e2, x) = IF ent.name = x THEN Hits(e, x) \cup {Len(e) + 1} ELSE Hits(e, x)
         /\ Batons(e2, x) = IF ent.name = x /\ ent.baton THEN Batons(e, x) \cup {Len(e) + 1}
                           ELSE Batons(e, x)
         /\ \A j \in DOMAIN e : e2[j] = e[j]
         /\ e2[Len(e) + 1] = ent
<1> DEFINE e2 == Append(e, ent)
<1>1. /\ e2 \in Seq(Entry) /\ DOMAIN e2 = DOMAIN e \cup {Len(e) + 1}
      /\ \A j \in DOMAIN e : e2[j] = e[j]
      /\ e2[Len(e) + 1] = ent
  OBVIOUS
<1> HIDE DEF e2
<1>2. Hits(e2, x) = IF ent.name = x THEN Hits(e, x) \cup {Len(e) + 1} ELSE Hits(e, x)
  BY <1>1 DEF Hits
<1>3. Batons(e2, x) = IF ent.name = x /\ ent.baton THEN Batons(e, x) \cup {Len(e) + 1}
                      ELSE Batons(e, x)
  BY <1>1 DEF Batons
<1>4. QED
  BY <1>1, <1>2, <1>3 DEF e2

(* The entries of a name are positions of the environment.                 *)
LEMMA HitsIn ==
  ASSUME NEW e \in Seq(Entry), NEW x
  PROVE  /\ Len(e) \in Nat
         /\ \A j_ \in Hits(e, x) : j_ \in 1..Len(e)
         /\ \A j_ \in Batons(e, x) : j_ \in 1..Len(e)
  BY DEF Hits, Batons

(* An entry that is no slot of x leaves x's slot to be found.               *)
LEMMA SlotStays ==
  ASSUME NEW e \in Seq(Entry), NEW ent \in Entry, NEW x, NEW s, NEW sc,
         ~(ent.name = x /\ ent.baton), SeesSlot(e, x, s, sc)
  PROVE  SeesSlot(Append(e, ent), x, s, sc)
<1> DEFINE e2 == Append(e, ent)
<1>1. Batons(e2, x) = Batons(e, x) /\ \A j \in DOMAIN e : e2[j] = e[j]
  BY PushHits
<1> HIDE DEF e2
<1>2. ASSUME NEW h, IsLast(Batons(e, x), h), h # 0 PROVE h \in DOMAIN e
  BY <1>2 DEF IsLast, Batons
<1>3. SeesSlot(e2, x, s, sc)
  BY <1>1, <1>2 DEF SeesSlot
<1>4. QED
  BY <1>3 DEF e2

(* A slot of x that is pushed is the one found.                            *)
LEMMA SlotComes ==
  ASSUME NEW e \in Seq(Entry), NEW ent \in Entry, NEW x, NEW s, NEW sc,
         ent.name = x, ent.baton, s # 0, ent.frame = NumberOf(sc, s)
  PROVE  SeesSlot(Append(e, ent), x, s, sc)
<1> DEFINE e2 == Append(e, ent)
<1>1. Batons(e2, x) = Batons(e, x) \cup {Len(e) + 1} /\ e2[Len(e) + 1] = ent
  BY PushHits
<1> HIDE DEF e2
<1>2. ASSUME NEW h, IsLast(Batons(e2, x), h) PROVE h = Len(e) + 1
  <2>1. Len(e) \in Nat /\ \A j_ \in Batons(e, x) : j_ \in 1..Len(e)
    BY HitsIn
  <2>2. QED
    BY <1>1, <1>2, <2>1 DEF IsLast
<1>3. SeesSlot(e2, x, s, sc)
  BY <1>1, <1>2 DEF SeesSlot
<1>4. QED
  BY <1>3 DEF e2

(* An entry of another name leaves x to be found.                          *)
LEMMA NameStays ==
  ASSUME NEW e \in Seq(Entry), NEW ent \in Entry, NEW x, NEW b, NEW s,
         ent.name # x, SeesName(e, x, b, s)
  PROVE  SeesName(Append(e, ent), x, b, s)
<1> DEFINE e2 == Append(e, ent)
<1>1. Hits(e2, x) = Hits(e, x) /\ \A j \in DOMAIN e : e2[j] = e[j]
  BY PushHits
<1> HIDE DEF e2
<1>2. ASSUME NEW h, IsLast(Hits(e, x), h), h # 0 PROVE h \in DOMAIN e
  BY <1>2 DEF IsLast, Hits
<1>3. SeesName(e2, x, b, s)
  BY <1>1, <1>2 DEF SeesName
<1>4. QED
  BY <1>3 DEF e2

(* An entry of x that is pushed is the one found.                          *)
LEMMA NameComes ==
  ASSUME NEW e \in Seq(Entry), NEW ent \in Entry, NEW x, NEW b, NEW s,
         ent.name = x, ~(b = 0 /\ s = 0), ent.baton <=> s > b
  PROVE  SeesName(Append(e, ent), x, b, s)
<1> DEFINE e2 == Append(e, ent)
<1>1. Hits(e2, x) = Hits(e, x) \cup {Len(e) + 1} /\ e2[Len(e) + 1] = ent
  BY PushHits
<1> HIDE DEF e2
<1>2. ASSUME NEW h, IsLast(Hits(e2, x), h) PROVE h = Len(e) + 1
  <2>1. Len(e) \in Nat /\ \A j_ \in Hits(e, x) : j_ \in 1..Len(e)
    BY HitsIn
  <2>2. QED
    BY <1>1, <1>2, <2>1 DEF IsLast
<1>3. SeesName(e2, x, b, s)
  BY <1>1, <1>2 DEF SeesName
<1>4. QED
  BY <1>3 DEF e2

(* A construct binds no name or one.                                       *)
LEMMA UpToOne ==
  ASSUME NEW xs \in Scope!UpTo(1)
  PROVE  xs = <<>> \/ \E y \in Names : xs = <<y>>
<1>1. PICK n \in 0..1 : xs \in [1..n -> Names]
  BY DEF Scope!UpTo
<1>2. CASE n = 0
  BY <1>1, <1>2
<1>3. CASE n = 1
  <2>0. xs \in [1..1 -> Names] /\ 1 \in Nat
    BY <1>1, <1>3
  <2>3. xs \in Seq(Names) /\ DOMAIN xs = 1..1
    BY <2>0
  <2>1. Len(xs) = 1 /\ xs[1] \in Names
    BY <2>0, <2>3
  <2>2. xs = <<xs[1]>>
    BY <2>1, <2>3
  <2>4. QED
    BY <2>1, <2>2
<1>4. QED
  BY <1>1, <1>2, <1>3

(* What binds a name or none pushes one value or none.                     *)
LEMMA NamesOf ==
  ASSUME NEW xs \in Scope!UpTo(1), NEW e \in Seq(Entry)
  PROVE  \/ xs = <<>> /\ Scope!ToSet(xs) = {} /\ e \o Scope!Values(xs) = e
         \/ \E y \in Names : /\ xs = <<y>> /\ Scope!ToSet(xs) = {y}
                            /\ e \o Scope!Values(xs) = Append(e, Scope!Value(y))
<1>1. CASE xs = <<>>
  BY <1>1 DEF Scope!ToSet, Scope!Values
<1>2. ASSUME NEW y \in Names, xs = <<y>>
      PROVE  Scope!ToSet(xs) = {y} /\ e \o Scope!Values(xs) = Append(e, Scope!Value(y))
  <2>1. Scope!Value(y) \in Entry
    BY DEF Scope!Value, Entry
  <2>2. Scope!Values(xs) = <<Scope!Value(y)>>
    BY <1>2 DEF Scope!Values
  <2>3. e \o <<Scope!Value(y)>> = Append(e, Scope!Value(y))
    BY <2>1
  <2>4. Scope!ToSet(xs) = {y}
    BY <1>2 DEF Scope!ToSet
  <2>5. QED
    BY <2>2, <2>3, <2>4
<1>3. QED
  BY <1>1, <1>2, UpToOne

(* What the clauses of a handler see: what is around it, then its slots.   *)
LEMMA SlotsOf ==
  ASSUME NEW e, NEW sc, NEW tr, NEW k, SeesHandler(e, sc, tr, k),
         sc[k-1].env \in Seq(Entry), sc[k-1].nframe \in Nat
  PROVE  \/ tr[k-1].vars = {} /\ e = sc[k-1].env
         \/ \E y \in Names, ent \in Entry :
              /\ tr[k-1].vars = {y} /\ e = Append(sc[k-1].env, ent)
              /\ ent.name = y /\ ent.baton /\ ent.frame = NumberOf(sc, k)
<1> DEFINE out == sc[k-1].env
           ent(y) == Scope!Baton(y, sc[k-1].nframe + 1)
<1>1. PICK xs \in Scope!UpTo(1) :
        /\ tr[k-1].vars = Scope!ToSet(xs) /\ e = out \o [j \in DOMAIN xs |-> ent(xs[j])]
  BY DEF SeesHandler
<1>2. out \in Seq(Entry)
  OBVIOUS
<1> HIDE DEF out
<1>3. CASE xs = <<>>
  <2>1. Scope!ToSet(xs) = {} /\ [j \in DOMAIN xs |-> ent(xs[j])] = <<>>
    BY <1>3 DEF Scope!ToSet
  <2>2. QED
    BY <1>1, <1>2, <2>1 DEF out
<1>4. ASSUME NEW y \in Names, xs = <<y>>
      PROVE  /\ tr[k-1].vars = {y} /\ e = Append(out, ent(y))
             /\ ent(y) \in Entry /\ ent(y).name = y /\ ent(y).baton
             /\ ent(y).frame = NumberOf(sc, k)
  <2>1. /\ ent(y) \in Entry /\ ent(y).name = y /\ ent(y).baton
        /\ ent(y).frame = NumberOf(sc, k)
    BY DEF Scope!Baton, Entry, NumberOf
  <2>2. Scope!ToSet(xs) = {y}
    BY <1>4 DEF Scope!ToSet
  <2> HIDE DEF ent
  <2>3. [j \in DOMAIN xs |-> ent(xs[j])] = <<ent(y)>>
    BY <1>4
  <2>4. out \o <<ent(y)>> = Append(out, ent(y))
    BY <1>2, <2>1
  <2>5. QED
    BY <1>1, <2>1, <2>2, <2>3, <2>4
<1>5. QED
  BY <1>3, <1>4, UpToOne DEF out

-----------------------------------------------------------------------------
(* Entering a construct, and binding a name in the innermost one.          *)

\* A clause is never outermost.
ClausesDeep(tr, n) == \A j \in 1..n : tr[j].kind = "clause" => j > 1

\* The first n constructs and parts are the same.
SameBelow(sc, tr, sc2, tr2, n) == \A j \in 1..n : sc2[j] = sc[j] /\ tr2[j] = tr[j]

(* The parts of a level are those around it.                               *)
LEMMA PlacesIn ==
  ASSUME NEW tr, NEW k \in Nat \ {0}, NEW x
  PROVE  /\ k - 1 \in Nat
         /\ \A j_ \in Binding(tr, k, x) : j_ \in 1..k-1
         /\ \A j_ \in Slots(tr, k, x) : j_ \in 1..k-1
         /\ \A j_ \in Fences(tr, k) : j_ \in 1..k-1
  BY DEF Binding, Slots, Fences

(* What a level says depends on the constructs around it only.             *)
LEMMA LevelSame ==
  ASSUME NEW e, NEW f, NEW ib, NEW m, NEW sc, NEW tr, NEW sc2, NEW tr2,
         NEW k \in Nat \ {0}, SameBelow(sc, tr, sc2, tr2, k - 1), ClausesDeep(tr, k - 1),
         Level(e, f, ib, m, sc, tr, k)
  PROVE  Level(e, f, ib, m, sc2, tr2, k)
<1>1. \A j \in 1..k-1 : sc2[j] = sc[j] /\ tr2[j] = tr[j]
  BY DEF SameBelow
<1>2. \A x : /\ Binding(tr2, k, x) = Binding(tr, k, x)
             /\ Slots(tr2, k, x) = Slots(tr, k, x)
             /\ Hides(tr2, k, x) <=> Hides(tr, k, x)
  BY <1>1 DEF Binding, Slots, Hides
<1>3. Fences(tr2, k) = Fences(tr, k) /\ Starts(tr2, k) = Starts(tr, k)
  BY <1>1 DEF Fences, Starts
<1>4. InHandler(sc2, k) <=> InHandler(sc, k)
  BY <1>1 DEF InHandler
<1>5. ASSUME NEW x, NEW s, IsLast(Slots(tr, k, x), s), SeesSlot(e, x, s, sc)
      PROVE  SeesSlot(e, x, s, sc2)
  <2>1. CASE s = 0
    BY <1>5, <2>1 DEF SeesSlot, IsLast
  <2>2. CASE s # 0
    <3>1. s \in 1..k-1 /\ s > 1
      BY <1>5, <2>2 DEF IsLast, Slots, ClausesDeep
    <3>2. NumberOf(sc2, s) = NumberOf(sc, s)
      BY <1>1, <3>1 DEF NumberOf
    <3>3. QED
      BY <1>5, <3>2 DEF SeesSlot
  <2>3. QED
    BY <2>1, <2>2
<1>6. ASSUME NEW x \in Names, Sees(e, sc, tr, k, x) PROVE Sees(e, sc2, tr2, k, x)
  BY <1>2, <1>5, <1>6 DEF Sees
<1>7. InHandler(sc, k) /\ SeesHandler(e, sc, tr, k) => SeesHandler(e, sc2, tr2, k)
  <2>1. InHandler(sc, k) => k - 1 \in 1..k-1
    BY DEF InHandler
  <2>2. InHandler(sc, k) => sc2[k-1] = sc[k-1] /\ tr2[k-1] = tr[k-1]
    BY <1>1, <2>1
  <2>3. QED
    BY <2>2 DEF SeesHandler
<1>8. SeesFrame(f, sc2, tr2, k)
  <2> SUFFICES ASSUME NEW b, IsLast(Fences(tr, k), b)
               PROVE  f = IF b = 0 \/ tr2[b].kind = "fun" THEN 0 ELSE NumberOf(sc2, b)
    BY <1>3 DEF SeesFrame
  <2>1. f = IF b = 0 \/ tr[b].kind = "fun" THEN 0 ELSE NumberOf(sc, b)
    BY DEF Level, SeesFrame
  <2>2. CASE b = 0
    BY <2>1, <2>2
  <2>3. CASE b # 0
    <3>1. b \in 1..k-1 /\ tr[b].kind \in {"fun", "clause"} /\ tr2[b] = tr[b]
      BY <1>1, <2>3 DEF IsLast, Fences
    <3>2. tr[b].kind = "clause" => b - 1 \in 1..k-1
      BY <3>1 DEF ClausesDeep
    <3>3. tr[b].kind = "clause" => NumberOf(sc2, b) = NumberOf(sc, b)
      BY <1>1, <3>2 DEF NumberOf
    <3>4. QED
      BY <2>1, <3>1, <3>3
  <2>4. QED
    BY <2>2, <2>3
<1>9. \A x \in Names : SeesInit(ib, tr2, k, x)
  <2> SUFFICES ASSUME NEW x \in Names PROVE SeesInit(ib, tr2, k, x)
    OBVIOUS
  <2>1. SeesInit(ib, tr, k, x)
    BY DEF Level
  <2>2. \A j \in Starts(tr, k) : tr2[j] = tr[j]
    BY <1>1 DEF Starts
  <2>3. QED
    BY <1>2, <1>3, <2>1, <2>2 DEF SeesInit
<1>10. QED
  BY <1>1, <1>4, <1>6, <1>7, <1>8, <1>9 DEF Level

\* The parts below k are those of tr, and part k - 1 binds y besides.
Binds(tr, tr2, k, y) ==
  /\ \A j \in 1..k-1 : tr2[j].kind = tr[j].kind /\ tr2[j].vars = tr[j].vars
  /\ \A j \in 1..k-2 : tr2[j].binds = tr[j].binds /\ tr2[j].where = tr[j].where
  /\ tr2[k-1].binds = tr[k-1].binds \cup {y} /\ tr2[k-1].where = tr[k-1].where \ {y}

(* A value of y pushed where part k - 1 comes to bind y.                   *)
LEMMA BindSees ==
  ASSUME NEW e \in Seq(Entry), NEW sc, NEW tr, NEW tr2, NEW k \in Nat, k > 1,
         NEW y \in Names, Binds(tr, tr2, k, y), NEW x \in Names, Sees(e, sc, tr, k, x)
  PROVE  Sees(Append(e, Scope!Value(y)), sc, tr2, k, x)
<1> DEFINE ent == Scope!Value(y)
<1>0. ent \in Entry /\ ent.name = y /\ ~ent.baton
  BY DEF Scope!Value, Entry
<1>1. Slots(tr2, k, x) = Slots(tr, k, x)
  BY DEF Slots, Binds
<1> HIDE DEF ent
<1> SUFFICES ASSUME NEW s, IsLast(Slots(tr, k, x), s)
             PROVE  /\ SeesSlot(Append(e, ent), x, s, sc)
                    /\ ~Hides(tr2, k, x) => \A b : IsLast(Binding(tr2, k, x), b)
                          => SeesName(Append(e, ent), x, b, s)
  BY <1>1 DEF Sees, ent
<1>2. SeesSlot(Append(e, ent), x, s, sc)
  BY <1>0, SlotStays DEF Sees
<1>3. ASSUME y # x, ~Hides(tr2, k, x), NEW b, IsLast(Binding(tr2, k, x), b)
      PROVE  SeesName(Append(e, ent), x, b, s)
  <2>1. \A j \in 1..k-1 : /\ x \in tr2[j].binds <=> x \in tr[j].binds
                          /\ x \in tr2[j].where <=> x \in tr[j].where
    <3> SUFFICES ASSUME NEW j \in 1..k-1
                 PROVE  /\ x \in tr2[j].binds <=> x \in tr[j].binds
                        /\ x \in tr2[j].where <=> x \in tr[j].where
      OBVIOUS
    <3>1. CASE j = k - 1
      BY <1>3, <3>1 DEF Binds
    <3>2. CASE j # k - 1
      <4>1. j \in 1..k-2
        BY <3>2
      <4>2. QED
        BY <4>1 DEF Binds
    <3>3. QED
      BY <3>1, <3>2
  <2>2. Binding(tr2, k, x) = Binding(tr, k, x) /\ ~Hides(tr, k, x)
    BY <1>3, <2>1 DEF Binding, Hides
  <2>3. SeesName(e, x, b, s)
    BY <1>3, <2>2 DEF Sees
  <2>4. QED
    BY <1>0, <1>3, <2>3, NameStays
<1>4. ASSUME y = x, NEW b, IsLast(Binding(tr2, k, x), b)
      PROVE  SeesName(Append(e, ent), x, b, s)
  <2>1. k - 1 \in Binding(tr2, k, x)
    BY <1>4 DEF Binding, Binds
  <2>0. k \in Nat \ {0} /\ k - 1 # 0
    OBVIOUS
  <2>2. /\ k - 1 \in Nat /\ k - 1 # 0
        /\ \A j_ \in Binding(tr2, k, x) : j_ \in 1..k-1
        /\ \A j_ \in Slots(tr, k, x) : j_ \in 1..k-1
    BY <2>0, PlacesIn
  <2>3. b = k - 1
    BY <1>4, <2>1, <2>2 DEF IsLast
  <2>4. s \in 0..k-1
    BY <2>2 DEF IsLast
  <2>5. ~(b = 0 /\ s = 0) /\ ~(s > b)
    BY <2>2, <2>3, <2>4
  <2>6. QED
    BY <1>0, <1>4, <2>5, NameComes
<1>5. QED
  BY <1>2, <1>3, <1>4

\* The parts below k are those of tr, and part k binds nothing.
Opens(sc, tr, sc2, tr2, k) == SameBelow(sc, tr, sc2, tr2, k - 1) /\ tr2[k].binds = {}

(* Entering what is no clause hides no name.                               *)
LEMMA OpenSees ==
  ASSUME NEW e, NEW sc, NEW tr, NEW sc2, NEW tr2, NEW k \in Nat \ {0}, NEW x \in Names,
         Opens(sc, tr, sc2, tr2, k), ClausesDeep(tr, k - 1), tr2[k].kind # "clause",
         Sees(e, sc, tr, k, x)
  PROVE  Sees(e, sc2, tr2, k + 1, x)
<1>1. k \in Nat /\ k + 1 - 1 = k /\ 1..k = (1..k-1) \cup {k}
  OBVIOUS
<1>2. \A j \in 1..k-1 : sc2[j] = sc[j] /\ tr2[j] = tr[j]
  BY DEF Opens, SameBelow
<1>3. /\ Binding(tr2, k + 1, x) = Binding(tr, k, x)
      /\ Slots(tr2, k + 1, x) = Slots(tr, k, x)
      /\ Hides(tr, k, x) => Hides(tr2, k + 1, x)
  BY <1>1, <1>2 DEF Binding, Slots, Hides, Opens
<1>4. ASSUME NEW s, IsLast(Slots(tr, k, x), s) PROVE SeesSlot(e, x, s, sc2)
  <2>0. SeesSlot(e, x, s, sc)
    BY <1>4 DEF Sees
  <2>1. CASE s = 0
    BY <1>4, <2>0, <2>1 DEF SeesSlot, IsLast
  <2>2. CASE s # 0
    <3>1. s - 1 \in 1..k-1
      BY <1>4, <2>2 DEF IsLast, Slots, ClausesDeep
    <3>2. NumberOf(sc2, s) = NumberOf(sc, s)
      BY <1>2, <3>1 DEF NumberOf
    <3>3. QED
      BY <2>0, <3>2 DEF SeesSlot
  <2>3. QED
    BY <2>1, <2>2
<1>5. QED
  BY <1>3, <1>4 DEF Sees

(* Entering a clause: its handler's slots, pushed when the handler was, are  *)
(* those a write in it means.  The handler is construct k - 1.              *)
LEMMA ClauseSees ==
  ASSUME NEW e \in Seq(Entry), NEW sc, NEW tr, NEW sc2, NEW tr2, NEW k \in Nat, k > 1,
         NEW x \in Names, Opens(sc, tr, sc2, tr2, k), ClausesDeep(tr, k - 1),
         tr[k-1].kind = "handler", tr[k-1].binds = {},
         tr2[k].kind = "clause", tr2[k].vars = tr[k-1].vars,
         sc[k-1].env \in Seq(Entry), sc[k-1].nframe \in Nat,
         Sees(sc[k-1].env, sc, tr, k - 1, x),
         SeesHandler(e, sc, tr, k)
  PROVE  Sees(e, sc2, tr2, k + 1, x)
<1>1. /\ k + 1 - 1 = k /\ 1..k = (1..k-2) \cup {k-1, k} /\ k - 1 - 1 = k - 2
      /\ k - 1 \in Nat \ {0} /\ k # 0 /\ 1..k-1 = (1..k-2) \cup {k-1} /\ k - 1 \in 1..k-1
  OBVIOUS
<1>2. \A j \in 1..k-1 : sc2[j] = sc[j] /\ tr2[j] = tr[j]
  BY DEF Opens, SameBelow
<1>3. sc2[k-1] = sc[k-1] /\ \A j \in 1..k-2 : sc2[j] = sc[j] /\ tr2[j] = tr[j]
  BY <1>1, <1>2
<1> DEFINE out == sc[k-1].env
<1>4. /\ Binding(tr2, k + 1, x) = Binding(tr, k - 1, x)
      /\ Hides(tr, k - 1, x) => Hides(tr2, k + 1, x)
  BY <1>1, <1>2 DEF Binding, Hides, Opens
<1>5. Slots(tr2, k + 1, x) = IF x \in tr2[k].vars THEN Slots(tr, k - 1, x) \cup {k}
                             ELSE Slots(tr, k - 1, x)
  BY <1>1, <1>2 DEF Slots
<1> HIDE DEF out
<1>7. ASSUME NEW s, IsLast(Slots(tr, k - 1, x), s) PROVE SeesSlot(out, x, s, sc2)
  <2>0. SeesSlot(out, x, s, sc)
    BY <1>7 DEF Sees, out
  <2>1. CASE s = 0
    BY <1>7, <2>0, <2>1 DEF SeesSlot, IsLast
  <2>2. CASE s # 0
    <3>1. s - 1 \in 1..k-2
      BY <1>1, <1>7, <2>2 DEF IsLast, Slots, ClausesDeep
    <3>2. NumberOf(sc2, s) = NumberOf(sc, s)
      BY <1>3, <3>1 DEF NumberOf
    <3>3. QED
      BY <2>0, <3>2 DEF SeesSlot
  <2>3. QED
    BY <2>1, <2>2
<1>8. CASE tr[k-1].vars = {} /\ e = sc[k-1].env
  BY <1>4, <1>5, <1>7, <1>8 DEF Sees, out
<1>9. ASSUME NEW y \in Names, NEW ent \in Entry, tr[k-1].vars = {y}, e = Append(sc[k-1].env, ent),
             ent.name = y, ent.baton, ent.frame = NumberOf(sc, k)
      PROVE  Sees(e, sc2, tr2, k + 1, x)
  <2>1. ent \in Entry /\ ent.name = y /\ ent.baton /\ ent.frame = NumberOf(sc2, k)
    BY <1>3, <1>9 DEF NumberOf
  <2>2. tr2[k].vars = {y} /\ e = Append(out, ent)
    BY <1>9 DEF out
  <2>3. CASE y # x
    <3>1. Slots(tr2, k + 1, x) = Slots(tr, k - 1, x)
      BY <1>5, <2>2, <2>3
    <3>2. \A s : IsLast(Slots(tr, k - 1, x), s) => SeesSlot(e, x, s, sc2)
      BY <1>7, <2>1, <2>2, <2>3, SlotStays DEF out
    <3>3. \A s, b : IsLast(Slots(tr, k - 1, x), s) /\ IsLast(Binding(tr, k - 1, x), b)
              /\ ~Hides(tr, k - 1, x) => SeesName(e, x, b, s)
      BY <2>1, <2>2, <2>3, NameStays DEF Sees, out
    <3>4. QED
      BY <1>4, <3>1, <3>2, <3>3 DEF Sees
  <2>4. CASE y = x
    <3>1. Slots(tr2, k + 1, x) = Slots(tr, k - 1, x) \cup {k}
      BY <1>5, <2>2, <2>4
    <3>2. /\ \A j_ \in Slots(tr, k - 1, x) : j_ \in 1..k-2
          /\ \A j_ \in Binding(tr, k - 1, x) : j_ \in 1..k-2
      BY <1>1, PlacesIn
    <3>3. ASSUME NEW s, IsLast(Slots(tr2, k + 1, x), s) PROVE s = k
      BY <3>1, <3>2, <3>3 DEF IsLast
    <3>4. SeesSlot(e, x, k, sc2)
      BY <1>1, <2>1, <2>2, <2>4, SlotComes DEF out
    <3>5. ASSUME NEW b, IsLast(Binding(tr, k - 1, x), b) PROVE SeesName(e, x, b, k)
      <4>1. ~(b = 0 /\ k = 0) /\ k > b
        BY <1>1, <3>2, <3>5 DEF IsLast
      <4>2. QED
        BY <2>1, <2>2, <2>4, <4>1, NameComes DEF out
    <3>6. QED
      BY <1>4, <3>3, <3>4, <3>5 DEF Sees
  <2>5. QED
    BY <2>3, <2>4
<1>10. QED
  BY <1>8, <1>9, SlotsOf

(* A function resets the frame, a clause sets its handler's, the rest keep it.*)
LEMMA OpenFrame ==
  ASSUME NEW f, NEW f2, NEW sc, NEW tr, NEW sc2, NEW tr2, NEW k \in Nat \ {0},
         Opens(sc, tr, sc2, tr2, k), ClausesDeep(tr2, k), SeesFrame(f, sc, tr, k),
         f2 = CASE tr2[k].kind = "fun" -> 0
                [] tr2[k].kind = "clause" -> NumberOf(sc2, k)
                [] OTHER -> f
  PROVE  SeesFrame(f2, sc2, tr2, k + 1)
<1>1. k \in Nat /\ k + 1 - 1 = k /\ 1..k = (1..k-1) \cup {k} /\ k # 0
  OBVIOUS
<1>2. \A j \in 1..k-1 : sc2[j] = sc[j] /\ tr2[j] = tr[j]
  BY DEF Opens, SameBelow
<1>3. Fences(tr2, k + 1) = IF tr2[k].kind \in {"fun", "clause"} THEN Fences(tr, k) \cup {k}
                           ELSE Fences(tr, k)
  BY <1>1, <1>2 DEF Fences
<1>4. \A j_ \in Fences(tr, k) : j_ \in 1..k-1
  BY <1>1 DEF Fences
<1> SUFFICES ASSUME NEW b, IsLast(Fences(tr2, k + 1), b)
             PROVE  f2 = IF b = 0 \/ tr2[b].kind = "fun" THEN 0 ELSE NumberOf(sc2, b)
  BY DEF SeesFrame
<1>5. CASE tr2[k].kind \in {"fun", "clause"}
  <2>1. b = k
    BY <1>3, <1>4, <1>5 DEF IsLast
  <2>2. QED
    BY <1>1, <1>5, <2>1
<1>6. CASE tr2[k].kind \notin {"fun", "clause"}
  <2>1. IsLast(Fences(tr, k), b) /\ f2 = f
    BY <1>3, <1>6
  <2>2. f = IF b = 0 \/ tr[b].kind = "fun" THEN 0 ELSE NumberOf(sc, b)
    BY <2>1 DEF SeesFrame
  <2>3. b # 0 => b \in 1..k-1 /\ tr[b].kind \in {"fun", "clause"} /\ tr2[b] = tr[b]
    BY <1>2, <2>1 DEF IsLast, Fences
  <2>4. b # 0 /\ tr[b].kind = "clause" => b - 1 \in 1..k-1
    BY <1>1, <2>3 DEF ClausesDeep
  <2>5. b # 0 /\ tr[b].kind = "clause" => NumberOf(sc2, b) = NumberOf(sc, b)
    BY <1>2, <2>4 DEF NumberOf
  <2>6. QED
    BY <2>1, <2>2, <2>3, <2>5
<1>7. QED
  BY <1>5, <1>6

(* What is no initialiser starts no slot.                                  *)
LEMMA OpenInit ==
  ASSUME NEW ib, NEW sc, NEW tr, NEW sc2, NEW tr2, NEW k \in Nat \ {0}, NEW x,
         Opens(sc, tr, sc2, tr2, k), tr2[k].kind # "init", SeesInit(ib, tr, k, x)
  PROVE  SeesInit(ib, tr2, k + 1, x)
<1>1. k \in Nat /\ k + 1 - 1 = k /\ 1..k = (1..k-1) \cup {k}
  OBVIOUS
<1>2. \A j \in 1..k-1 : tr2[j] = tr[j]
  BY DEF Opens, SameBelow
<1>3. Slots(tr2, k + 1, x) = {} => Slots(tr, k, x) = {}
  BY <1>1, <1>2 DEF Slots
<1>4. Starts(tr2, k + 1) = Starts(tr, k) /\ \A j \in Starts(tr, k) : tr2[j] = tr[j]
  BY <1>1, <1>2 DEF Starts
<1>5. QED
  BY <1>3, <1>4 DEF SeesInit

(* An initialiser has the batons of its own handler and of those around it;  *)
(* of these, none is a slot here of a name that has none.                   *)
LEMMA StartInit ==
  ASSUME NEW e \in Seq(Entry), NEW sc, NEW tr, NEW sc2, NEW tr2, NEW k \in Nat, k > 1,
         NEW x \in Names, Opens(sc, tr, sc2, tr2, k),
         tr[k-1].kind = "handler", tr2[k].kind = "init", tr2[k].vars = tr[k-1].vars,
         sc[k-1].env \in Seq(Entry), sc[k-1].nframe \in Nat,
         Sees(sc[k-1].env, sc, tr, k - 1, x), SeesHandler(e, sc, tr, k)
  PROVE  SeesInit(e, tr2, k + 1, x)
<1>1. /\ k + 1 - 1 = k /\ 1..k = (1..k-2) \cup {k-1, k} /\ k - 1 - 1 = k - 2
      /\ k - 1 \in Nat \ {0} /\ k # 0 /\ 1..k-1 = (1..k-2) \cup {k-1} /\ k - 1 \in 1..k-1
  OBVIOUS
<1>2. \A j \in 1..k-1 : sc2[j] = sc[j] /\ tr2[j] = tr[j]
  BY DEF Opens, SameBelow
<1> SUFFICES ASSUME Slots(tr2, k + 1, x) = {}
             PROVE  /\ Batons(e, x) # {} => \E j \in Starts(tr2, k + 1) : x \in tr2[j].vars
                    /\ (\E j \in Starts(tr2, k + 1) : x \in tr2[j].vars)
                       /\ (\A j, h \in Starts(tr2, k + 1) : j = h) => Batons(e, x) # {}
  BY DEF SeesInit
<1>3. Slots(tr, k - 1, x) = {}
  <2>1. \A j \in 1..k-2 : tr2[j] = tr[j] /\ j \in 1..k
    BY <1>1, <1>2
  <2>2. QED
    BY <1>1, <2>1 DEF Slots
<1>4. Batons(sc[k-1].env, x) = {}
  BY <1>3 DEF Sees, SeesSlot, IsLast
<1>5. k \in Starts(tr2, k + 1)
  BY <1>1 DEF Starts
<1> DEFINE out == sc[k-1].env
<1>6. ASSUME tr[k-1].vars = {}, e = out PROVE Batons(e, x) # {} <=> x \in tr2[k].vars
  BY <1>4, <1>6
<1>7. ASSUME NEW y \in Names, NEW ent \in Entry, tr[k-1].vars = {y}, e = Append(out, ent),
             ent.name = y, ent.baton
      PROVE  Batons(e, x) # {} <=> x \in tr2[k].vars
  <2>1. out \in Seq(Entry)
    OBVIOUS
  <2> HIDE DEF out
  <2>2. Batons(e, x) = IF y = x THEN Batons(out, x) \cup {Len(out) + 1} ELSE Batons(out, x)
    BY <1>7, <2>1, PushHits
  <2>3. QED
    BY <1>4, <1>7, <2>2 DEF out
<1>8. Batons(e, x) # {} <=> x \in tr2[k].vars
  BY <1>4, <1>6, <1>7, SlotsOf
<1>9. ASSUME \A j, h \in Starts(tr2, k + 1) : j = h PROVE \A j \in Starts(tr2, k + 1) : j = k
  BY <1>5, <1>9
<1>10. QED
  BY <1>5, <1>8, <1>9

(* Binding a name in the innermost construct.                              *)
LEMMA BindLevel ==
  ASSUME NEW e, NEW f, NEW ib, NEW m, NEW sc, NEW tr, NEW tr2, NEW k \in Nat, k > 1,
         NEW y \in Names, Binds(tr, tr2, k, y), ~InHandler(sc, k),
         Level(e, f, ib, m, sc, tr, k)
  PROVE  Level(Append(e, Scope!Value(y)), f, ib, m, sc, tr2, k)
<1>1. \A j \in 1..k-1 : tr2[j].kind = tr[j].kind /\ tr2[j].vars = tr[j].vars
  BY DEF Binds
<1>2. e \in Seq(Entry) /\ Scope!Value(y) \in Entry
  BY DEF Level, Scope!Value, Entry
<1>3. Append(e, Scope!Value(y)) \in Seq(Entry)
  BY <1>2
<1>4. \A x \in Names : Sees(Append(e, Scope!Value(y)), sc, tr2, k, x)
  BY <1>2, BindSees DEF Level
<1>5. /\ Fences(tr2, k) = Fences(tr, k) /\ Starts(tr2, k) = Starts(tr, k)
      /\ \A x : Slots(tr2, k, x) = Slots(tr, k, x)
  BY <1>1 DEF Fences, Starts, Slots
<1>6. SeesFrame(f, sc, tr2, k)
  <2> SUFFICES ASSUME NEW b, IsLast(Fences(tr, k), b)
               PROVE  f = IF b = 0 \/ tr2[b].kind = "fun" THEN 0 ELSE NumberOf(sc, b)
    BY <1>5 DEF SeesFrame
  <2>1. f = IF b = 0 \/ tr[b].kind = "fun" THEN 0 ELSE NumberOf(sc, b)
    BY DEF Level, SeesFrame
  <2>2. b # 0 => b \in 1..k-1
    BY DEF IsLast, Fences
  <2>3. QED
    BY <1>1, <2>1, <2>2
<1>7. ASSUME NEW x \in Names PROVE SeesInit(ib, tr2, k, x)
  <2>1. SeesInit(ib, tr, k, x)
    BY DEF Level
  <2>2. \A j \in Starts(tr, k) : tr2[j].vars = tr[j].vars
    BY <1>1 DEF Starts
  <2>3. QED
    BY <1>5, <2>1, <2>2 DEF SeesInit
<1>8. QED
  BY <1>3, <1>4, <1>6, <1>7 DEF Level

(* A clause stands in its handler.                                         *)
LEMMA ShapeDeep ==
  ASSUME NEW sc, NEW tr, ScopeShape(sc, tr)
  PROVE  ClausesDeep(tr, Len(sc))
<1> SUFFICES ASSUME NEW k \in 1..Len(sc), tr[k].kind = "clause" PROVE k > 1
  BY DEF ClausesDeep
<1>1. ShapeAt(sc, tr, k)
  BY DEF ScopeShape
<1>2. sc[k].kind = "clause"
  BY <1>1 DEF ShapeAt, KindOf
<1>3. QED
  BY <1>1, <1>2 DEF ShapeAt, InHandler

\* One construct more, with what it saves.
Enters(e, f, ib, m, sc, sc2, tr, tr2) ==
  /\ \E ent \in ScopeEntry : /\ sc2 = Append(sc, ent)
                            /\ ent.env = e /\ ent.frame = f /\ ent.initb = ib /\ ent.nframe = m
  /\ \E p \in TrailPart : tr2 = Append(tr, p)

(* What entering adds, and what it leaves.                                 *)
LEMMA EntersIs ==
  ASSUME NEW e, NEW f, NEW ib, NEW m, NEW sc, NEW sc2, NEW tr, NEW tr2,
         ScopeShape(sc, tr), Enters(e, f, ib, m, sc, sc2, tr, tr2)
  PROVE  /\ sc2 \in Seq(ScopeEntry) /\ tr2 \in Seq(TrailPart)
         /\ Len(sc) \in Nat /\ Len(sc2) = Len(sc) + 1 /\ Len(tr2) = Len(sc) + 1
         /\ SameBelow(sc, tr, sc2, tr2, Len(sc))
         /\ LET k == Len(sc) + 1 IN
              /\ sc2[k].env = e /\ sc2[k].frame = f /\ sc2[k].initb = ib /\ sc2[k].nframe = m
              /\ sc2[k] \in ScopeEntry /\ tr2[k] \in TrailPart
  BY DEF ScopeShape, Enters, SameBelow

(* Entering a construct leaves the levels around it as they are.           *)
LEMMA EnterKeeps ==
  ASSUME NEW e, NEW f, NEW ib, NEW m, NEW sc, NEW sc2, NEW tr, NEW tr2,
         NEW e2, NEW f2, NEW ib2, NEW m2,
         ScopeShape(sc, tr), ScopeLevels(e, f, ib, m, sc, tr),
         Enters(e, f, ib, m, sc, sc2, tr, tr2), NEW d, d = Len(sc) + 1,
         ShapeAt(sc2, tr2, d), Level(e2, f2, ib2, m2, sc2, tr2, d + 1)
  PROVE  ScopeShape(sc2, tr2) /\ ScopeLevels(e2, f2, ib2, m2, sc2, tr2)
<1> DEFINE n == Len(sc)
<1>1. /\ sc2 \in Seq(ScopeEntry) /\ tr2 \in Seq(TrailPart)
      /\ n \in Nat /\ Len(sc2) = n + 1 /\ Len(tr2) = n + 1
      /\ SameBelow(sc, tr, sc2, tr2, n)
      /\ sc2[n+1].env = e /\ sc2[n+1].frame = f /\ sc2[n+1].initb = ib /\ sc2[n+1].nframe = m
  BY EntersIs
<1>2. ClausesDeep(tr, n)
  BY ShapeDeep
<1>3. \A k \in 1..n : ShapeAt(sc, tr, k)
  BY DEF ScopeShape
<1>4. /\ \A k \in 1..n : Level(sc[k].env, sc[k].frame, sc[k].initb, sc[k].nframe, sc, tr, k)
      /\ Level(e, f, ib, m, sc, tr, n + 1)
  BY DEF ScopeLevels
<1> HIDE DEF n
<1>5. ASSUME NEW k \in 1..n PROVE ShapeAt(sc2, tr2, k)
  <2>1. sc2[k] = sc[k] /\ tr2[k] = tr[k]
    BY <1>1 DEF SameBelow
  <2>2. k > 1 => sc2[k-1] = sc[k-1] /\ tr2[k-1] = tr[k-1]
    <3>1. k > 1 => k - 1 \in 1..n
      BY <1>1
    <3>2. QED
      BY <1>1, <3>1 DEF SameBelow
  <2>3. ShapeAt(sc, tr, k)
    BY <1>3
  <2>4. sc[k].kind \in {"clause", "init"} => k > 1
    BY <2>3 DEF ShapeAt, InHandler
  <2>5. QED
    BY <2>1, <2>2, <2>3, <2>4 DEF ShapeAt, InHandler
<1>6. ASSUME NEW k \in 1..n+1 PROVE SameBelow(sc, tr, sc2, tr2, k - 1) /\ ClausesDeep(tr, k - 1)
  <2>1. \A j \in 1..k-1 : j \in 1..n
    BY <1>1
  <2>2. QED
    BY <1>1, <1>2, <2>1 DEF SameBelow, ClausesDeep
<1>7. ASSUME NEW k \in 1..n+1
      PROVE  Level(sc2[k].env, sc2[k].frame, sc2[k].initb, sc2[k].nframe, sc2, tr2, k)
  <2>1. k \in Nat \ {0}
    BY <1>1
  <2>2. CASE k = n + 1
    BY <1>1, <1>4, <1>6, <2>1, <2>2, LevelSame
  <2>3. CASE k # n + 1
    <3>1. k \in 1..n
      BY <1>1, <2>3
    <3>2. sc2[k] = sc[k]
      BY <1>1, <3>1 DEF SameBelow
    <3>3. QED
      BY <1>4, <1>6, <2>1, <3>1, <3>2, LevelSame
  <2>4. QED
    BY <2>2, <2>3
<1>8. ScopeShape(sc2, tr2)
  <2>1. \A k \in 1..n+1 : k \in 1..n \/ k = n + 1
    BY <1>1
  <2>2. QED
    BY <1>1, <1>5, <2>1 DEF ScopeShape, n
<1>9. Len(sc2) + 1 = d + 1
  BY <1>1 DEF n
<1>10. ScopeLevels(e2, f2, ib2, m2, sc2, tr2)
  BY <1>1, <1>7, <1>9 DEF ScopeLevels, n
<1>11. QED
  BY <1>8, <1>10

\* The activations numbered so far number those around the walk.
Numbered(m, sc, k) ==
  \A j \in 1..k-1 : sc[j].nframe <= m /\ (sc[j].kind = "handler" => sc[j].nframe < m)

(* A construct more: a handler takes the next number.                      *)
LEMMA NumberedOn ==
  ASSUME NEW m \in Nat, NEW m2 \in Nat, NEW sc, NEW sc2, NEW k \in Nat \ {0}, Numbered(m, sc, k),
         \A j \in 1..k-1 : sc2[j] = sc[j] /\ sc[j].nframe \in Nat,
         sc2[k].nframe = m, IF sc2[k].kind = "handler" THEN m < m2 ELSE m <= m2
  PROVE  Numbered(m2, sc2, k + 1)
<1> SUFFICES ASSUME NEW j \in 1..k
             PROVE  sc2[j].nframe <= m2 /\ (sc2[j].kind = "handler" => sc2[j].nframe < m2)
  BY DEF Numbered
<1>1. CASE j = k
  BY <1>1
<1>2. CASE j # k
  <2>1. j \in 1..k-1
    BY <1>2
  <2>2. sc2[j] = sc[j] /\ sc[j].nframe <= m /\ sc[j].nframe \in Nat
        /\ (sc[j].kind = "handler" => sc[j].nframe < m)
    BY <2>1 DEF Numbered
  <2>3. m <= m2
    OBVIOUS
  <2>4. QED
    BY <2>2, <2>3
<1>3. QED
  BY <1>1, <1>2

(* Entering a construct that is no handler's, and no handler.              *)
LEMMA OpenLevel ==
  ASSUME NEW e, NEW f, NEW ib, NEW m, NEW f2, NEW sc, NEW tr, NEW sc2, NEW tr2,
         NEW k \in Nat \ {0}, Level(e, f, ib, m, sc, tr, k), Opens(sc, tr, sc2, tr2, k),
         ClausesDeep(tr2, k), ~InHandler(sc, k), tr2[k].kind \in {"fun", "scope"},
         \A j \in 1..k-1 : sc[j].nframe \in Nat,
         sc2[k].kind # "handler", sc2[k].nframe = m,
         f2 = IF tr2[k].kind = "fun" THEN 0 ELSE f
  PROVE  Level(e, f2, ib, m, sc2, tr2, k + 1)
<1>1. e \in Seq(Entry) /\ ib \in Seq(Entry) /\ f \in Nat /\ f2 \in Nat /\ m \in Nat
  BY DEF Level
<1>2. ClausesDeep(tr, k - 1)
  <2>1. \A j \in 1..k-1 : tr2[j] = tr[j] /\ j \in 1..k
    BY DEF Opens, SameBelow
  <2>2. QED
    BY <2>1 DEF ClausesDeep
<1>3. ~InHandler(sc2, k + 1)
  BY DEF InHandler
<1>4. \A x \in Names : Sees(e, sc2, tr2, k + 1, x)
  BY <1>2, OpenSees DEF Level
<1>5. SeesFrame(f2, sc2, tr2, k + 1)
  BY OpenFrame DEF Level
<1>6. \A x \in Names : SeesInit(ib, tr2, k + 1, x)
  BY OpenInit DEF Level
<1>7. Numbered(m, sc2, k + 1)
  <2>1. Numbered(m, sc, k) /\ m <= m
    BY <1>1 DEF Level, Numbered
  <2>2. \A j \in 1..k-1 : sc2[j] = sc[j]
    BY DEF Opens, SameBelow
  <2>3. QED
    BY <1>1, <2>1, <2>2, NumberedOn
<1>8. QED
  BY <1>1, <1>3, <1>4, <1>5, <1>6, <1>7 DEF Level, Numbered

\* The slots xs, vs as a set, pushed with the number after m.
Slotted(e, e2, m, xs, vs) ==
  /\ xs \in Scope!UpTo(1) /\ vs = Scope!ToSet(xs)
  /\ e2 = e \o [j \in DOMAIN xs |-> Scope!Baton(xs[j], m + 1)]

(* Entering the literal of a handler.                                      *)
LEMMA HandlerLevel ==
  ASSUME NEW e, NEW f, NEW ib, NEW m, NEW sc, NEW tr, NEW sc2, NEW tr2,
         NEW k \in Nat \ {0}, Level(e, f, ib, m, sc, tr, k), Opens(sc, tr, sc2, tr2, k),
         ClausesDeep(tr2, k), tr2[k].kind = "handler",
         \A j \in 1..k-1 : sc[j].nframe \in Nat,
         sc2[k].kind = "handler", sc2[k].nframe = m, sc2[k].env = e,
         NEW xs, NEW e2, Slotted(e, e2, m, xs, tr2[k].vars)
  PROVE  Level(e2, f, ib, m + 1, sc2, tr2, k + 1)
<1>0. /\ xs \in Scope!UpTo(1) /\ tr2[k].vars = Scope!ToSet(xs)
      /\ e2 = e \o [j \in DOMAIN xs |-> Scope!Baton(xs[j], m + 1)]
  BY DEF Slotted
<1>1. e \in Seq(Entry) /\ ib \in Seq(Entry) /\ f \in Nat /\ m \in Nat /\ m + 1 \in Nat
  BY DEF Level
<1>2. k \in Nat /\ k + 1 - 1 = k /\ k + 1 > 1
  OBVIOUS
<1>3. InHandler(sc2, k + 1) /\ SeesHandler(e2, sc2, tr2, k + 1)
  <2>1. PICK q \in Nat : q = k + 1
    BY <1>2
  <2>2. q - 1 = k
    BY <1>2, <2>1
  <2>3. /\ tr2[q - 1].vars = Scope!ToSet(xs)
        /\ e2 = sc2[q - 1].env \o [j \in DOMAIN xs |-> Scope!Baton(xs[j], sc2[q - 1].nframe + 1)]
    BY <1>0, <2>2
  <2>4. SeesHandler(e2, sc2, tr2, q)
    BY <1>0, <2>3, Zenon DEF SeesHandler
  <2>5. QED
    BY <1>2, <2>1, <2>4 DEF InHandler
<1>4. e2 \in Seq(Entry)
  <2>1. /\ sc2[k + 1 - 1] = sc2[k]
        /\ sc2[k + 1 - 1].env \in Seq(Entry) /\ sc2[k + 1 - 1].nframe \in Nat
    BY <1>1, <1>2
  <2>2. \/ e2 = sc2[k + 1 - 1].env
        \/ \E y \in Names, ent \in Entry : e2 = Append(sc2[k + 1 - 1].env, ent)
    BY <1>3, <2>1, SlotsOf
  <2>3. e2 = e \/ \E ent \in Entry : e2 = Append(e, ent)
    BY <2>1, <2>2
  <2>4. QED
    BY <1>1, <2>3
<1>5. SeesFrame(f, sc2, tr2, k + 1)
  BY OpenFrame DEF Level
<1>6. \A x \in Names : SeesInit(ib, tr2, k + 1, x)
  BY OpenInit DEF Level
<1>7. Numbered(m + 1, sc2, k + 1)
  <2>1. Numbered(m, sc, k) /\ m < m + 1
    BY <1>1 DEF Level, Numbered
  <2>2. \A j \in 1..k-1 : sc2[j] = sc[j]
    BY DEF Opens, SameBelow
  <2>3. QED
    BY <1>1, <2>1, <2>2, NumberedOn
<1>8. Level(e2, f, ib, m + 1, sc2, tr2, k + 1)
  BY <1>1, <1>3, <1>4, <1>5, <1>6, <1>7 DEF Level, Numbered
<1>9. QED
  BY <1>8

(* Entering a clause.  The handler is construct k - 1.                     *)
LEMMA ClauseLevel ==
  ASSUME NEW e, NEW f, NEW ib, NEW m, NEW sc, NEW tr, NEW sc2, NEW tr2,
         NEW k \in Nat, k > 1, Level(e, f, ib, m, sc, tr, k), Opens(sc, tr, sc2, tr2, k),
         ClausesDeep(tr2, k), InHandler(sc, k), ~InHandler(sc, k - 1),
         tr[k-1].kind = "handler", tr[k-1].binds = {},
         tr2[k].kind = "clause", tr2[k].vars = tr[k-1].vars,
         \A j \in 1..k-1 : sc[j].nframe \in Nat,
         sc2[k].kind = "clause", sc2[k].nframe = m,
         NEW f0, NEW ib0, Level(sc[k-1].env, f0, ib0, sc[k-1].nframe, sc, tr, k - 1)
  PROVE  Level(e, sc[k-1].nframe + 1, ib, m, sc2, tr2, k + 1)
<1>0. k \in Nat \ {0} /\ k + 1 - 1 = k /\ k - 1 \in 1..k-1
  OBVIOUS
<1>1. /\ e \in Seq(Entry) /\ ib \in Seq(Entry) /\ f \in Nat /\ m \in Nat
      /\ sc[k-1].env \in Seq(Entry) /\ sc[k-1].nframe \in Nat
  BY DEF Level
<1>2. ClausesDeep(tr, k - 1)
  <2>1. \A j \in 1..k-1 : tr2[j] = tr[j] /\ j \in 1..k
    BY DEF Opens, SameBelow
  <2>2. QED
    BY <2>1 DEF ClausesDeep
<1>3. ~InHandler(sc2, k + 1)
  BY <1>0 DEF InHandler
<1>4. SeesHandler(e, sc, tr, k) /\ \A x \in Names : Sees(sc[k-1].env, sc, tr, k - 1, x)
  BY DEF Level
<1>5. \A x \in Names : Sees(e, sc2, tr2, k + 1, x)
  BY <1>1, <1>2, <1>4, ClauseSees
<1>6. SeesFrame(sc[k-1].nframe + 1, sc2, tr2, k + 1)
  <2>1. sc[k-1].nframe + 1 = NumberOf(sc2, k)
    BY <1>0 DEF NumberOf, Opens, SameBelow
  <2>2. SeesFrame(f, sc, tr, k)
    BY DEF Level
  <2>3. QED
    BY <1>0, <2>1, <2>2, OpenFrame
<1>7. \A x \in Names : SeesInit(ib, tr2, k + 1, x)
  BY <1>0, OpenInit DEF Level
<1>8. Numbered(m, sc2, k + 1)
  <2>1. Numbered(m, sc, k) /\ m <= m
    BY <1>1 DEF Level, Numbered
  <2>2. \A j \in 1..k-1 : sc2[j] = sc[j]
    BY DEF Opens, SameBelow
  <2>3. QED
    BY <1>0, <1>1, <2>1, <2>2, NumberedOn
<1>9. sc[k-1].nframe + 1 \in Nat
  BY <1>1
<1>10. QED
  BY <1>1, <1>3, <1>5, <1>6, <1>7, <1>8, <1>9 DEF Level, Numbered

(* Entering an initialiser: it is walked where the literal stands.         *)
LEMMA InitLevel ==
  ASSUME NEW e, NEW f, NEW ib, NEW m, NEW sc, NEW tr, NEW sc2, NEW tr2,
         NEW k \in Nat, k > 1, Level(e, f, ib, m, sc, tr, k), Opens(sc, tr, sc2, tr2, k),
         ClausesDeep(tr2, k), InHandler(sc, k), ~InHandler(sc, k - 1),
         tr[k-1].kind = "handler", tr[k-1].binds = {},
         tr2[k].kind = "init", tr2[k].vars = tr[k-1].vars,
         \A j \in 1..k-1 : sc[j].nframe \in Nat,
         sc2[k].kind = "init", sc2[k].nframe = m,
         NEW f0, NEW ib0, Level(sc[k-1].env, f0, ib0, sc[k-1].nframe, sc, tr, k - 1)
  PROVE  Level(sc[k-1].env, f0, e, m, sc2, tr2, k + 1)
<1>0. k \in Nat \ {0} /\ k + 1 - 1 = k /\ k - 1 \in 1..k-1 /\ k - 1 \in Nat \ {0} /\ k - 1 + 1 = k
  OBVIOUS
<1>1. /\ e \in Seq(Entry) /\ ib \in Seq(Entry) /\ f0 \in Nat /\ m \in Nat
      /\ sc[k-1].env \in Seq(Entry) /\ sc[k-1].nframe \in Nat
  BY DEF Level
<1>2. ClausesDeep(tr, k - 1) /\ ClausesDeep(tr, k - 1 - 1)
  <2>1. /\ \A j \in 1..k-1 : tr2[j] = tr[j] /\ j \in 1..k
        /\ \A j \in 1..k-1-1 : j \in 1..k-1
    BY DEF Opens, SameBelow
  <2>2. QED
    BY <2>1 DEF ClausesDeep
<1>3. ~InHandler(sc2, k + 1)
  BY <1>0 DEF InHandler
<1>4. Opens(sc, tr, sc, tr, k - 1)
  BY DEF Opens, SameBelow
<1>5. SeesHandler(e, sc, tr, k) /\ \A x \in Names : Sees(sc[k-1].env, sc, tr, k - 1, x)
  BY DEF Level
<1>6. \A x \in Names : Sees(sc[k-1].env, sc, tr, k, x)
  <2>1. \A x \in Names : Sees(sc[k-1].env, sc, tr, k - 1 + 1, x)
    BY <1>0, <1>2, <1>4, <1>5, OpenSees
  <2>2. QED
    BY <1>0, <2>1
<1>7. \A x \in Names : Sees(sc[k-1].env, sc2, tr2, k + 1, x)
  BY <1>0, <1>2, <1>6, OpenSees
<1>8. SeesFrame(f0, sc, tr, k)
  <2>1. SeesFrame(f0, sc, tr, k - 1)
    BY DEF Level
  <2>2. SeesFrame(f0, sc, tr, k - 1 + 1)
    BY <1>0, <1>2, <1>4, <2>1, OpenFrame
  <2>3. QED
    BY <1>0, <2>2
<1>9. SeesFrame(f0, sc2, tr2, k + 1)
  BY <1>0, <1>8, OpenFrame
<1>10. \A x \in Names : SeesInit(e, tr2, k + 1, x)
  BY <1>1, <1>5, StartInit
<1>11. Numbered(m, sc2, k + 1)
  <2>1. Numbered(m, sc, k) /\ m <= m
    BY <1>1 DEF Level, Numbered
  <2>2. \A j \in 1..k-1 : sc2[j] = sc[j]
    BY DEF Opens, SameBelow
  <2>3. QED
    BY <1>0, <1>1, <2>1, <2>2, NumberedOn
<1>12. QED
  BY <1>1, <1>3, <1>7, <1>9, <1>10, <1>11 DEF Level, Numbered

-----------------------------------------------------------------------------
(* The steps of the walk.                                                  *)

\* What the invariant says of the constructs the walk stands in.
LEMMA ShapeIs ==
  ASSUME NEW sc, NEW tr, ScopeShape(sc, tr)
  PROVE  /\ Len(sc) \in Nat /\ DOMAIN sc = 1..Len(sc) /\ DOMAIN tr = 1..Len(sc)
         /\ \A j \in 1..Len(sc) : /\ sc[j] \in ScopeEntry /\ tr[j] \in TrailPart
                                 /\ sc[j].nframe \in Nat /\ ShapeAt(sc, tr, j)
         /\ \A x \in Seq(ScopeEntry) : x # <<>> <=> Len(x) # 0
<1>1. /\ sc \in Seq(ScopeEntry) /\ tr \in Seq(TrailPart) /\ Len(tr) = Len(sc)
      /\ \A j \in 1..Len(sc) : ShapeAt(sc, tr, j)
  BY DEF ScopeShape
<1>2. \A j \in 1..Len(sc) : sc[j] \in ScopeEntry /\ tr[j] \in TrailPart
  BY <1>1
<1>3. \A j \in 1..Len(sc) : sc[j].nframe \in Nat
  BY <1>2 DEF ScopeEntry
<1>4. QED
  BY <1>1, <1>2, <1>3

\* Construct k is ent with part p, before p binds its names.
Joins(sc, tr, ent, p, sc2, tr2, k) ==
  /\ ScopeShape(sc, tr) /\ ent \in ScopeEntry /\ p \in TrailPart
  /\ p.binds = {} /\ p.kind = KindOf(ent.kind) /\ (p.kind = "clause" => Len(sc) > 0)
  /\ sc2 = Append(sc, ent) /\ tr2 = Append(tr, p) /\ k = Len(sc) + 1

(* What is so of the constructs once one has joined them.                  *)
LEMMA Entering ==
  ASSUME NEW sc, NEW tr, NEW ent, NEW p, NEW sc2, NEW tr2, NEW k,
         Joins(sc, tr, ent, p, sc2, tr2, k)
  PROVE  /\ Enters(ent.env, ent.frame, ent.initb, ent.nframe, sc, sc2, tr, tr2)
         /\ Opens(sc, tr, sc2, tr2, k) /\ SameBelow(sc, tr, sc2, tr2, k - 1)
         /\ ClausesDeep(tr2, k) /\ sc2[k] = ent /\ tr2[k] = p
         /\ k \in Nat \ {0} /\ k - 1 = Len(sc)
<1>0. /\ ScopeShape(sc, tr) /\ ent \in ScopeEntry /\ p \in TrailPart
      /\ p.binds = {} /\ p.kind = KindOf(ent.kind) /\ (p.kind = "clause" => Len(sc) > 0)
      /\ sc2 = Append(sc, ent) /\ tr2 = Append(tr, p) /\ k = Len(sc) + 1
  BY DEF Joins
<1>1. Enters(ent.env, ent.frame, ent.initb, ent.nframe, sc, sc2, tr, tr2)
  BY <1>0 DEF Enters
<1>2. /\ Len(sc) \in Nat /\ SameBelow(sc, tr, sc2, tr2, Len(sc))
  BY <1>0, <1>1, EntersIs
<1>3. sc2[k] = ent /\ tr2[k] = p
  BY <1>0 DEF ScopeShape
<1>4. k \in Nat \ {0} /\ k - 1 = Len(sc) /\ k > Len(sc)
  BY <1>0, <1>2
<1>5. ClausesDeep(tr2, k)
  <2>1. ClausesDeep(tr, Len(sc))
    BY <1>0, ShapeDeep
  <2>2. \A j \in 1..k : j \in 1..Len(sc) \/ j = k
    BY <1>0, <1>2
  <2>3. QED
    BY <1>0, <1>2, <1>3, <1>4, <2>1, <2>2 DEF ClausesDeep, SameBelow
<1>6. Opens(sc, tr, sc2, tr2, k)
  BY <1>0, <1>2, <1>3, <1>4 DEF Opens
<1>7. QED
  BY <1>1, <1>2, <1>3, <1>4, <1>5, <1>6

\* A part that binds y besides.
LEMMA AlsoBinds ==
  ASSUME NEW tr \in Seq(TrailPart), NEW p \in TrailPart, NEW q \in TrailPart, NEW y \in Names,
         q.kind = p.kind, q.vars = p.vars, q.binds = p.binds \cup {y}, q.where = p.where \ {y},
         NEW t1, NEW t2, t1 = Append(tr, p), t2 = Append(tr, q), NEW d, d = Len(tr) + 1
  PROVE  Binds(t1, t2, d + 1, y)
<1> DEFINE n == Len(tr)
<1>1. /\ n \in Nat /\ t1[n+1] = p /\ t2[n+1] = q
      /\ \A j \in 1..n : t1[j] = tr[j] /\ t2[j] = tr[j]
  OBVIOUS
<1>2. PICK k \in Nat : k = n + 2 /\ k = d + 1
  BY <1>1
<1> HIDE DEF n
<1>3. k - 1 = n + 1 /\ k - 2 = n /\ \A j \in 1..n+1 : j \in 1..n \/ j = n + 1
  BY <1>1, <1>2
<1>4. Binds(t1, t2, k, y)
  BY <1>1, <1>3 DEF Binds
<1>5. QED
  BY <1>2, <1>4

(* What the invariant says, at the level k the walk is at.                 *)
LEMMA WalksIs ==
  ASSUME NEW e, NEW f, NEW ib, NEW m, NEW sc, NEW tr, Walks(e, f, ib, m, sc, tr),
         NEW k, k = Len(sc) + 1
  PROVE  /\ ScopeShape(sc, tr) /\ ScopeLevels(e, f, ib, m, sc, tr)
         /\ e \in Seq(Entry) /\ ib \in Seq(Entry) /\ f \in Nat /\ m \in Nat
         /\ Level(e, f, ib, m, sc, tr, k)
         /\ tr \in Seq(TrailPart) /\ sc \in Seq(ScopeEntry) /\ Len(sc) \in Nat /\ k = Len(tr) + 1
         /\ k \in Nat \ {0} /\ k - 1 = Len(sc)
         /\ \A j \in 1..k-1 : /\ sc[j].nframe \in Nat /\ ShapeAt(sc, tr, j) /\ sc[j] \in ScopeEntry
                              /\ Level(sc[j].env, sc[j].frame, sc[j].initb, sc[j].nframe, sc, tr, j)
<1>1. ScopeShape(sc, tr) /\ ScopeLevels(e, f, ib, m, sc, tr)
  BY DEF Walks
<1>2. Level(e, f, ib, m, sc, tr, k)
  BY <1>1 DEF ScopeLevels
<1>3. e \in Seq(Entry) /\ ib \in Seq(Entry) /\ f \in Nat /\ m \in Nat
  BY <1>2 DEF Level
<1>4. /\ tr \in Seq(TrailPart) /\ sc \in Seq(ScopeEntry) /\ Len(sc) \in Nat /\ k = Len(tr) + 1
      /\ k \in Nat \ {0} /\ k - 1 = Len(sc)
  BY <1>1 DEF ScopeShape
<1>5. \A j \in 1..k-1 : /\ sc[j].nframe \in Nat /\ ShapeAt(sc, tr, j) /\ sc[j] \in ScopeEntry
                        /\ Level(sc[j].env, sc[j].frame, sc[j].initb, sc[j].nframe, sc, tr, j)
  BY <1>1, <1>4, ShapeIs DEF ScopeLevels
<1>6. QED
  BY <1>1, <1>2, <1>3, <1>4, <1>5

\* The environment with arguments pushed.
Pushes(e, args) == e \o Scope!Values(args)

\* Part p of construct d, and q, which binds the arguments besides.
Args(e, e2, tr, d, k, kind, vs, bs, ws, args, p, q, t1, t2) ==
  /\ tr \in Seq(TrailPart) /\ d = Len(tr) + 1 /\ k = d + 1
  /\ args \in Scope!UpTo(1) /\ (args # <<>> => ws = {})
  /\ p \in TrailPart /\ p = Scope!Part(kind, vs, bs, ws)
  /\ q = Scope!Part(kind, vs, bs \cup Scope!ToSet(args), ws)
  /\ t1 = Append(tr, p) /\ t2 = Append(tr, q) /\ e2 = Pushes(e, args)

(* A construct's arguments are pushed, and its part comes to bind them.    *)
LEMMA ArgsLevel ==
  ASSUME NEW e, NEW e2, NEW f, NEW ib, NEW m, NEW sc, NEW tr, NEW d, NEW k, NEW kind, NEW vs, NEW bs, NEW ws,
         NEW args, NEW p, NEW q, NEW t1, NEW t2, Args(e, e2, tr, d, k, kind, vs, bs, ws, args, p, q, t1, t2),
         ~InHandler(sc, k), Level(e, f, ib, m, sc, t1, k)
  PROVE  q \in TrailPart /\ Level(e2, f, ib, m, sc, t2, k)
<1>0. /\ tr \in Seq(TrailPart) /\ d = Len(tr) + 1 /\ k = d + 1
      /\ args \in Scope!UpTo(1) /\ (args # <<>> => ws = {})
      /\ p \in TrailPart /\ p = Scope!Part(kind, vs, bs, ws)
      /\ q = Scope!Part(kind, vs, bs \cup Scope!ToSet(args), ws)
      /\ t1 = Append(tr, p) /\ t2 = Append(tr, q) /\ e2 = e \o Scope!Values(args)
  BY DEF Args, Pushes
<1>1. p.kind = kind /\ p.vars = vs /\ p.binds = bs /\ p.where = ws
  BY <1>0 DEF Scope!Part
<1>2. e \in Seq(Entry)
  BY DEF Level
<1>3. CASE Scope!ToSet(args) = {} /\ e \o Scope!Values(args) = e
  <2>1. q = p
    BY <1>0, <1>3 DEF Scope!Part
  <2>2. QED
    BY <1>0, <1>3, <2>1
<1>4. ASSUME NEW y \in Names, args = <<y>>, Scope!ToSet(args) = {y},
             e \o Scope!Values(args) = Append(e, Scope!Value(y))
      PROVE  q \in TrailPart /\ Level(e2, f, ib, m, sc, t2, k)
  <2>1. ws = {}
    BY <1>0, <1>4
  <2>2. q.kind = kind /\ q.vars = vs /\ q.binds = bs \cup {y} /\ q.where = ws
    BY <1>0, <1>4 DEF Scope!Part
  <2>3. q \in TrailPart
    BY <1>0, <1>1, <1>4, <2>1 DEF Scope!Part, TrailPart
  <2>4. Binds(t1, t2, k, y)
    <3>1. Binds(t1, t2, d + 1, y)
      BY <1>0, <1>1, <1>4, <2>1, <2>2, <2>3, AlsoBinds
    <3>2. QED
      BY <1>0, <3>1
  <2>5. k \in Nat /\ k > 1
    BY <1>0
  <2>6. Level(Append(e, Scope!Value(y)), f, ib, m, sc, t2, k)
    <3>1. y \in Names
      BY <1>4
    <3>2. QED
      BY <2>4, <2>5, <3>1, BindLevel
  <2>7. QED
    BY <1>0, <1>4, <2>3, <2>6
<1>5. QED
  BY <1>0, <1>2, <1>3, <1>4, NamesOf

\* Construct d is ent with part p, as its place in the program allows.
Adds(e, f, ib, m, sc, tr, ent, p, sc2, tr2, d) ==
  /\ d = Len(sc) + 1 /\ sc2 = Append(sc, ent) /\ tr2 = Append(tr, p)
  /\ ent \in ScopeEntry /\ ent.env = e /\ ent.frame = f /\ ent.initb = ib /\ ent.nframe = m
  /\ p \in TrailPart /\ p.kind = KindOf(ent.kind)
  /\ InHandler(sc, d) <=> ent.kind \in {"clause", "init"}
  /\ ent.kind \in {"clause", "init"} => p.vars = tr[d-1].vars
  /\ ent.kind \in {"handler", "init"} => p.binds = {}
  /\ ent.kind = "letfun" => d > 1 /\ sc[d-1].kind = "scope" /\ ent.name \in Names

(* The walk goes on in a construct entered as its level asks.              *)
LEMMA EnterStep ==
  ASSUME NEW e, NEW f, NEW ib, NEW m, NEW sc, NEW tr, Walks(e, f, ib, m, sc, tr),
         NEW ent, NEW p, NEW sc2, NEW tr2, NEW d, Adds(e, f, ib, m, sc, tr, ent, p, sc2, tr2, d),
         NEW e2, NEW f2, NEW ib2, NEW m2, Level(e2, f2, ib2, m2, sc2, tr2, d + 1)
  PROVE  Walks(e2, f2, ib2, m2, sc2, tr2)
<1>1. /\ ScopeShape(sc, tr) /\ ScopeLevels(e, f, ib, m, sc, tr)
      /\ d \in Nat \ {0} /\ d - 1 = Len(sc) /\ d = Len(tr) + 1
      /\ sc \in Seq(ScopeEntry) /\ tr \in Seq(TrailPart)
  BY WalksIs DEF Adds
<1>2. Enters(e, f, ib, m, sc, sc2, tr, tr2)
  BY DEF Enters, Adds
<1>3. SameBelow(sc, tr, sc2, tr2, Len(sc))
  BY <1>1, <1>2, EntersIs
<1>4. sc2[d] = ent /\ tr2[d] = p
  BY <1>1 DEF Adds
<1>5. d > 1 => sc2[d-1] = sc[d-1] /\ tr2[d-1] = tr[d-1]
  <2>1. d > 1 => d - 1 \in 1..Len(sc)
    BY <1>1
  <2>2. QED
    BY <1>3, <2>1 DEF SameBelow
<1>6. InHandler(sc2, d) <=> InHandler(sc, d)
  BY <1>5 DEF InHandler
<1>7. InHandler(sc, d) => d > 1
  BY DEF InHandler
<1>8. ShapeAt(sc2, tr2, d)
  BY <1>4, <1>5, <1>6, <1>7 DEF ShapeAt, Adds
<1>9. QED
  BY <1>1, <1>2, <1>8, EnterKeeps DEF Walks, Adds

(* The literal of a handler is around a clause; nothing else has one.       *)
LEMMA HandlerAbove ==
  ASSUME NEW e, NEW f, NEW ib, NEW m, NEW sc, NEW tr, Walks(e, f, ib, m, sc, tr),
         NEW k, k = Len(sc) + 1, InHandler(sc, k)
  PROVE  /\ k > 1 /\ ~InHandler(sc, k - 1) /\ tr[k-1].kind = "handler" /\ tr[k-1].binds = {}
         /\ tr[k-1].vars \in SUBSET Names
         /\ Level(sc[k-1].env, sc[k-1].frame, sc[k-1].initb, sc[k-1].nframe, sc, tr, k - 1)
<1>1. /\ k > 1 /\ sc[k-1].kind = "handler"
  BY DEF InHandler
<1>2. k \in Nat \ {0} /\ k - 1 \in 1..k-1 /\ tr \in Seq(TrailPart) /\ k - 1 = Len(tr)
  BY <1>1, WalksIs
<1>3. /\ ShapeAt(sc, tr, k - 1)
      /\ Level(sc[k-1].env, sc[k-1].frame, sc[k-1].initb, sc[k-1].nframe, sc, tr, k - 1)
  BY <1>2, WalksIs
<1>4. tr[k-1] \in TrailPart
  BY <1>2
<1>5. QED
  BY <1>1, <1>3, <1>4 DEF ShapeAt, KindOf, TrailPart

\* The construct an Enter pushes.
Snapshot(kind, name, e, f, ib, m) ==
  [kind |-> kind, name |-> name, env |-> e, frame |-> f, initb |-> ib, nframe |-> m]
(* A function's arguments, a scope's name.                                 *)
LEMMA PlainStep ==
  ASSUME NEW e, NEW f, NEW ib, NEW m, NEW sc, NEW tr, Walks(e, f, ib, m, sc, tr),
         NEW d, d = Len(sc) + 1, ~InHandler(sc, d),
         NEW args \in Scope!UpTo(1), NEW kind \in {"fun", "scope"},
         NEW ws \in SUBSET Names, args # <<>> => ws = {},
         NEW nm \in Labels, NEW ent, ent = Snapshot(kind, nm, e, f, ib, m),
         NEW q, q = Scope!Part(kind, {}, Scope!ToSet(args), ws),
         NEW sc2, sc2 = Append(sc, ent), NEW tr2, tr2 = Append(tr, q),
         NEW f2, f2 = IF kind = "fun" THEN 0 ELSE f,
         NEW e2, e2 = Pushes(e, args)
  PROVE  Walks(e2, f2, ib, m, sc2, tr2)
<1> DEFINE p == Scope!Part(kind, {}, {}, ws)
           t1 == Append(tr, p)
<1>1. /\ ScopeShape(sc, tr) /\ Level(e, f, ib, m, sc, tr, d) /\ tr \in Seq(TrailPart)
      /\ d = Len(tr) + 1 /\ d \in Nat \ {0} /\ \A j \in 1..d-1 : sc[j].nframe \in Nat
      /\ e \in Seq(Entry) /\ ib \in Seq(Entry) /\ f \in Nat /\ m \in Nat
  BY WalksIs
<1>2. /\ ent \in ScopeEntry /\ ent.kind = kind /\ KindOf(kind) = kind
      /\ ent.env = e /\ ent.frame = f /\ ent.initb = ib /\ ent.nframe = m
  BY <1>1 DEF ScopeEntry, ScopeKinds, KindOf, Snapshot
<1>3. p \in TrailPart /\ p.kind = kind /\ p.binds = {} /\ q.kind = kind
  BY DEF Scope!Part, TrailPart
<1>4. p = Scope!Part(kind, {}, {}, ws) /\ q = Scope!Part(kind, {}, {} \cup Scope!ToSet(args), ws)
  OBVIOUS
<1> HIDE DEF p
<1>5. Opens(sc, tr, sc2, t1, d) /\ ClausesDeep(t1, d) /\ sc2[d] = ent /\ t1[d] = p
  <2>1. Joins(sc, tr, ent, p, sc2, t1, d)
    BY <1>1, <1>2, <1>3 DEF Joins, t1
  <2>2. Opens(sc, tr, sc2, t1, d) /\ ClausesDeep(t1, d)
    BY <2>1, Entering
  <2>3. sc2[d] = ent /\ t1[d] = p
    BY <1>1 DEF ScopeShape, t1
  <2>4. QED
    BY <2>2, <2>3
<1>6. ~InHandler(sc2, d + 1)
  <2>1. d + 1 - 1 = d /\ sc2[d].kind # "handler"
    BY <1>1, <1>2, <1>5
  <2>2. QED
    BY <2>1 DEF InHandler
<1> HIDE DEF t1
<1>7. Level(e, f2, ib, m, sc2, t1, d + 1)
  BY <1>1, <1>2, <1>3, <1>5, OpenLevel
<1>8. q \in TrailPart /\ Level(e2, f2, ib, m, sc2, tr2, d + 1)
  <2>0. PICK k : k = d + 1 /\ ~InHandler(sc2, k)
    BY <1>6
  <2>1. Args(e, e2, tr, d, k, kind, {}, {}, ws, args, p, q, t1, tr2)
    BY <1>1, <1>3, <1>4, <2>0 DEF Args, t1
  <2>2. Level(e, f2, ib, m, sc2, t1, k)
    BY <1>7, <2>0
  <2>3. q \in TrailPart /\ Level(e2, f2, ib, m, sc2, tr2, k)
    BY <2>0, <2>1, <2>2, ArgsLevel
  <2>4. QED
    BY <2>0, <2>3
<1>9. QED
  <2>1. Adds(e, f, ib, m, sc, tr, ent, q, sc2, tr2, d)
    BY <1>2, <1>3, <1>8 DEF Adds
  <2>2. QED
    BY <1>8, <2>1, EnterStep

(* A local function is in scope in its own body, its argument within.       *)
LEMMA LetStep ==
  ASSUME NEW e, NEW f, NEW ib, NEW m, NEW sc, NEW tr, Walks(e, f, ib, m, sc, tr),
         NEW d, d = Len(sc) + 1, d > 1, sc[d-1].kind = "scope",
         NEW g \in Names, NEW args \in Scope!UpTo(1),
         NEW ent, ent = Snapshot("letfun", g, e, f, ib, m),
         NEW q, q = Scope!Part("fun", {}, {g} \cup Scope!ToSet(args), {}),
         NEW sc2, sc2 = Append(sc, ent), NEW tr2, tr2 = Append(tr, q),
         NEW e0, e0 = Append(e, Scope!Value(g)), NEW e2, e2 = Pushes(e0, args)
  PROVE  Walks(e2, 0, ib, m, sc2, tr2)
<1> DEFINE p == Scope!Part("fun", {}, {}, {})
           r == Scope!Part("fun", {}, {g}, {})
           t1 == Append(tr, p)
           t3 == Append(tr, r)
<1>1. /\ ScopeShape(sc, tr) /\ Level(e, f, ib, m, sc, tr, d) /\ tr \in Seq(TrailPart)
      /\ d = Len(tr) + 1 /\ d \in Nat \ {0} /\ \A j \in 1..d-1 : sc[j].nframe \in Nat
      /\ e \in Seq(Entry) /\ ib \in Seq(Entry) /\ f \in Nat /\ m \in Nat
  BY WalksIs
<1>2. /\ ent \in ScopeEntry /\ ent.kind = "letfun" /\ ent.name = g
      /\ ent.env = e /\ ent.frame = f /\ ent.initb = ib /\ ent.nframe = m
  BY <1>1 DEF ScopeEntry, ScopeKinds, Snapshot, Labels
<1>3. /\ p \in TrailPart /\ p.kind = "fun" /\ p.binds = {} /\ q.kind = "fun"
      /\ r \in TrailPart /\ r.kind = p.kind /\ r.vars = p.vars
      /\ r.binds = p.binds \cup {g} /\ r.where = p.where \ {g}
  BY DEF Scope!Part, TrailPart
<1>4. r = Scope!Part("fun", {}, {g}, {}) /\ KindOf("letfun") = "fun" /\ ~InHandler(sc, d)
  BY DEF InHandler, KindOf
<1> HIDE DEF p, r
<1>5. Opens(sc, tr, sc2, t1, d) /\ ClausesDeep(t1, d) /\ sc2[d] = ent /\ t1[d] = p
  <2>1. Joins(sc, tr, ent, p, sc2, t1, d)
    BY <1>1, <1>2, <1>3, <1>4 DEF Joins, t1
  <2>2. Opens(sc, tr, sc2, t1, d) /\ ClausesDeep(t1, d)
    BY <2>1, Entering
  <2>3. sc2[d] = ent /\ t1[d] = p
    BY <1>1 DEF ScopeShape, t1
  <2>4. QED
    BY <2>2, <2>3
<1>6. ~InHandler(sc2, d + 1)
  <2>1. d + 1 - 1 = d /\ sc2[d].kind # "handler"
    BY <1>1, <1>2, <1>5
  <2>2. QED
    BY <2>1 DEF InHandler
<1> HIDE DEF t1, t3
<1>7. Level(e, 0, ib, m, sc2, t1, d + 1)
  BY <1>1, <1>2, <1>3, <1>4, <1>5, OpenLevel
<1>8. Level(e0, 0, ib, m, sc2, t3, d + 1)
  <2>1. Binds(t1, t3, d + 1, g)
    BY <1>1, <1>3, AlsoBinds DEF t1, t3
  <2>2. d + 1 \in Nat /\ d + 1 > 1
    BY <1>1
  <2>3. QED
    BY <1>6, <1>7, <2>1, <2>2, BindLevel
<1>9. q \in TrailPart
      /\ Level(e2, 0, ib, m, sc2, tr2, d + 1)
  <2>0. PICK k : k = d + 1 /\ ~InHandler(sc2, k)
    BY <1>6
  <2>1. Args(e0, e2, tr, d, k, "fun", {}, {g}, {}, args, r, q, t3, tr2)
    BY <1>1, <1>3, <1>4, <2>0 DEF Args, t3
  <2>2. PICK z : z = 0
    OBVIOUS
  <2>3. Level(e0, z, ib, m, sc2, t3, k)
    BY <1>8, <2>0, <2>2
  <2>4. q \in TrailPart /\ Level(e2, z, ib, m, sc2, tr2, k)
    BY <2>0, <2>1, <2>3, ArgsLevel
  <2>5. QED
    BY <2>0, <2>2, <2>4
<1>10. QED
  <2>1. Adds(e, f, ib, m, sc, tr, ent, q, sc2, tr2, d)
    BY <1>2, <1>3, <1>4, <1>9 DEF Adds
  <2>2. QED
    BY <1>9, <2>1, EnterStep

(* The literal of a handler, whose slots its clauses see.                   *)
LEMMA HandlerStep ==
  ASSUME NEW e, NEW f, NEW ib, NEW m, NEW sc, NEW tr, Walks(e, f, ib, m, sc, tr),
         NEW d, d = Len(sc) + 1, ~InHandler(sc, d), NEW xs \in Scope!UpTo(1),
         NEW nm \in Labels, NEW ent, ent = Snapshot("handler", nm, e, f, ib, m),
         NEW q, q = Scope!Part("handler", Scope!ToSet(xs), {}, {}),
         NEW sc2, sc2 = Append(sc, ent), NEW tr2, tr2 = Append(tr, q),
         NEW e2, e2 = e \o [j \in DOMAIN xs |-> Scope!Baton(xs[j], m + 1)]
  PROVE  Walks(e2, f, ib, m + 1, sc2, tr2)
<1>1. /\ ScopeShape(sc, tr) /\ Level(e, f, ib, m, sc, tr, d) /\ tr \in Seq(TrailPart)
      /\ d = Len(tr) + 1 /\ d \in Nat \ {0} /\ \A j \in 1..d-1 : sc[j].nframe \in Nat
      /\ e \in Seq(Entry) /\ ib \in Seq(Entry) /\ f \in Nat /\ m \in Nat
  BY WalksIs
<1>2. /\ ent \in ScopeEntry /\ ent.kind = "handler" /\ KindOf("handler") = "handler"
      /\ ent.env = e /\ ent.frame = f /\ ent.initb = ib /\ ent.nframe = m
  BY <1>1 DEF ScopeEntry, ScopeKinds, KindOf, Snapshot
<1>3. Scope!ToSet(xs) \in SUBSET Names
  BY <1>1, NamesOf
<1>4. q \in TrailPart /\ q.kind = "handler" /\ q.binds = {} /\ q.vars = Scope!ToSet(xs)
  BY <1>3 DEF Scope!Part, TrailPart
<1>5. Opens(sc, tr, sc2, tr2, d) /\ ClausesDeep(tr2, d) /\ sc2[d] = ent /\ tr2[d] = q
  <2>1. Joins(sc, tr, ent, q, sc2, tr2, d)
    BY <1>1, <1>2, <1>4 DEF Joins
  <2>2. Opens(sc, tr, sc2, tr2, d) /\ ClausesDeep(tr2, d)
    BY <2>1, Entering
  <2>3. sc2[d] = ent /\ tr2[d] = q
    BY <1>1 DEF ScopeShape
  <2>4. QED
    BY <2>2, <2>3
<1>6. Level(e2, f, ib, m + 1, sc2, tr2, d + 1)
  <2>1. Slotted(e, e2, m, xs, q.vars)
    BY <1>4 DEF Slotted
  <2>2. QED
    BY <1>1, <1>2, <1>4, <1>5, <2>1, HandlerLevel
<1>7. QED
  <2>1. Adds(e, f, ib, m, sc, tr, ent, q, sc2, tr2, d)
    BY <1>2, <1>4, <1>6 DEF Adds
  <2>2. QED
    BY <1>6, <2>1, EnterStep

(* A clause, and its arguments within.                                     *)
LEMMA ClauseStep ==
  ASSUME NEW e, NEW f, NEW ib, NEW m, NEW sc, NEW tr, Walks(e, f, ib, m, sc, tr),
         NEW d, d = Len(sc) + 1, InHandler(sc, d), NEW args \in Scope!UpTo(1),
         NEW nm \in Labels, NEW ent, ent = Snapshot("clause", nm, e, f, ib, m),
         NEW q, q = Scope!Part("clause", tr[d-1].vars, Scope!ToSet(args), {}),
         NEW sc2, sc2 = Append(sc, ent), NEW tr2, tr2 = Append(tr, q),
         NEW e2, e2 = Pushes(e, args)
  PROVE  Walks(e2, sc[d-1].nframe + 1, ib, m, sc2, tr2)
<1> DEFINE vs == tr[d-1].vars
           p == Scope!Part("clause", vs, {}, {})
           t1 == Append(tr, p)
<1>1. /\ ScopeShape(sc, tr) /\ Level(e, f, ib, m, sc, tr, d) /\ tr \in Seq(TrailPart)
      /\ d = Len(tr) + 1 /\ d \in Nat \ {0} /\ \A j \in 1..d-1 : sc[j].nframe \in Nat
      /\ e \in Seq(Entry) /\ ib \in Seq(Entry) /\ f \in Nat /\ m \in Nat
      /\ d - 1 = Len(sc)
  BY WalksIs
<1>2. /\ ent \in ScopeEntry /\ ent.kind = "clause" /\ KindOf("clause") = "clause"
      /\ ent.env = e /\ ent.frame = f /\ ent.initb = ib /\ ent.nframe = m
  BY <1>1 DEF ScopeEntry, ScopeKinds, KindOf, Snapshot
<1>3. /\ d > 1 /\ ~InHandler(sc, d - 1) /\ tr[d-1].kind = "handler" /\ tr[d-1].binds = {}
      /\ vs \in SUBSET Names
      /\ Level(sc[d-1].env, sc[d-1].frame, sc[d-1].initb, sc[d-1].nframe, sc, tr, d - 1)
  BY HandlerAbove
<1>4. /\ p \in TrailPart /\ p.kind = "clause" /\ p.binds = {} /\ p.vars = vs
      /\ q.kind = "clause" /\ q.vars = vs
  BY <1>3 DEF Scope!Part, TrailPart
<1>5. /\ p = Scope!Part("clause", vs, {}, {}) /\ vs = tr[d-1].vars
      /\ q = Scope!Part("clause", vs, {} \cup Scope!ToSet(args), {})
  OBVIOUS
<1> HIDE DEF p, vs
<1>6. Opens(sc, tr, sc2, t1, d) /\ ClausesDeep(t1, d) /\ sc2[d] = ent /\ t1[d] = p
  <2>1. Joins(sc, tr, ent, p, sc2, t1, d)
    BY <1>1, <1>2, <1>3, <1>4 DEF Joins, t1
  <2>2. Opens(sc, tr, sc2, t1, d) /\ ClausesDeep(t1, d)
    BY <2>1, Entering
  <2>3. sc2[d] = ent /\ t1[d] = p
    BY <1>1 DEF ScopeShape, t1
  <2>4. QED
    BY <2>2, <2>3
<1>7. ~InHandler(sc2, d + 1)
  <2>1. d + 1 - 1 = d /\ sc2[d].kind # "handler"
    BY <1>1, <1>2, <1>6
  <2>2. QED
    BY <2>1 DEF InHandler
<1> HIDE DEF t1
<1>8. Level(e, sc[d-1].nframe + 1, ib, m, sc2, t1, d + 1)
  BY <1>1, <1>2, <1>3, <1>4, <1>5, <1>6, ClauseLevel
<1>9. q \in TrailPart /\ Level(e2, sc[d-1].nframe + 1, ib, m, sc2, tr2, d + 1)
  <2>0. PICK k : k = d + 1 /\ ~InHandler(sc2, k)
    BY <1>7
  <2>1. Args(e, e2, tr, d, k, "clause", vs, {}, {}, args, p, q, t1, tr2)
    BY <1>1, <1>4, <1>5, <2>0 DEF Args, t1
  <2>2. PICK z : z = sc[d-1].nframe + 1
    OBVIOUS
  <2>3. Level(e, z, ib, m, sc2, t1, k)
    BY <1>8, <2>0, <2>2
  <2>4. q \in TrailPart /\ Level(e2, z, ib, m, sc2, tr2, k)
    BY <2>0, <2>1, <2>3, ArgsLevel
  <2>5. QED
    BY <2>0, <2>2, <2>4
<1>10. QED
  <2>1. Adds(e, f, ib, m, sc, tr, ent, q, sc2, tr2, d)
    BY <1>2, <1>4, <1>5, <1>9 DEF Adds
  <2>2. QED
    BY <1>9, <2>1, EnterStep

(* An initialiser.                                                         *)
LEMMA InitStep ==
  ASSUME NEW e, NEW f, NEW ib, NEW m, NEW sc, NEW tr, Walks(e, f, ib, m, sc, tr),
         NEW d, d = Len(sc) + 1, InHandler(sc, d),
         NEW nm \in Labels, NEW ent, ent = Snapshot("init", nm, e, f, ib, m),
         NEW q, q = Scope!Part("init", tr[d-1].vars, {}, {}),
         NEW sc2, sc2 = Append(sc, ent), NEW tr2, tr2 = Append(tr, q)
  PROVE  Walks(sc[d-1].env, sc[d-1].frame, e, m, sc2, tr2)
<1>1. /\ ScopeShape(sc, tr) /\ Level(e, f, ib, m, sc, tr, d) /\ tr \in Seq(TrailPart)
      /\ d = Len(tr) + 1 /\ d \in Nat \ {0} /\ \A j \in 1..d-1 : sc[j].nframe \in Nat
      /\ e \in Seq(Entry) /\ ib \in Seq(Entry) /\ f \in Nat /\ m \in Nat
  BY WalksIs
<1>2. /\ ent \in ScopeEntry /\ ent.kind = "init" /\ KindOf("init") = "init"
      /\ ent.env = e /\ ent.frame = f /\ ent.initb = ib /\ ent.nframe = m
  BY <1>1 DEF ScopeEntry, ScopeKinds, KindOf, Snapshot
<1>3. /\ d > 1 /\ ~InHandler(sc, d - 1) /\ tr[d-1].kind = "handler" /\ tr[d-1].binds = {}
      /\ tr[d-1].vars \in SUBSET Names
      /\ Level(sc[d-1].env, sc[d-1].frame, sc[d-1].initb, sc[d-1].nframe, sc, tr, d - 1)
  BY HandlerAbove
<1>4. q \in TrailPart /\ q.kind = "init" /\ q.binds = {} /\ q.vars = tr[d-1].vars
  BY <1>3 DEF Scope!Part, TrailPart
<1>6. Opens(sc, tr, sc2, tr2, d) /\ ClausesDeep(tr2, d) /\ sc2[d] = ent /\ tr2[d] = q
  <2>1. Joins(sc, tr, ent, q, sc2, tr2, d)
    BY <1>1, <1>2, <1>3, <1>4 DEF Joins
  <2>2. Opens(sc, tr, sc2, tr2, d) /\ ClausesDeep(tr2, d)
    BY <2>1, Entering
  <2>3. sc2[d] = ent /\ tr2[d] = q
    BY <1>1 DEF ScopeShape
  <2>4. QED
    BY <2>2, <2>3
<1>8. Level(sc[d-1].env, sc[d-1].frame, e, m, sc2, tr2, d + 1)
  BY <1>1, <1>2, <1>3, <1>4, <1>6, InitLevel
<1>10. QED
  <2>1. Adds(e, f, ib, m, sc, tr, ent, q, sc2, tr2, d)
    BY <1>2, <1>4, <1>8 DEF Adds
  <2>2. QED
    BY <1>8, <2>1, EnterStep

\* The walk is innermost in construct n, whose part binds y besides.
Bound(sc, tr, tr2, n, y) ==
  /\ n = Len(sc) /\ n > 0 /\ sc[n].kind = "scope" /\ y \in Names
  /\ tr2 \in Seq(TrailPart) /\ Len(tr2) = n /\ Binds(tr, tr2, n + 1, y)
  /\ \A j \in 1..n-1 : tr2[j] = tr[j]

(* The walk goes on after a name is bound in the innermost scope.          *)
LEMMA BindWalks ==
  ASSUME NEW e, NEW f, NEW ib, NEW m, NEW sc, NEW tr, Walks(e, f, ib, m, sc, tr),
         NEW tr2, NEW n, NEW y, Bound(sc, tr, tr2, n, y), NEW e2, e2 = Append(e, Scope!Value(y))
  PROVE  Walks(e2, f, ib, m, sc, tr2)
<1>0. /\ n = Len(sc) /\ n > 0 /\ sc[n].kind = "scope" /\ y \in Names
      /\ tr2 \in Seq(TrailPart) /\ Len(tr2) = n /\ Binds(tr, tr2, n + 1, y)
      /\ \A j \in 1..n-1 : tr2[j] = tr[j]
  BY DEF Bound
<1>1. PICK k : k = Len(sc) + 1
  OBVIOUS
<1>2. /\ ScopeShape(sc, tr) /\ Level(e, f, ib, m, sc, tr, k)
      /\ sc \in Seq(ScopeEntry) /\ n \in Nat /\ k \in Nat /\ k - 1 = n /\ k - 2 = n - 1
      /\ \A j \in 1..n : /\ ShapeAt(sc, tr, j)
                         /\ Level(sc[j].env, sc[j].frame, sc[j].initb, sc[j].nframe, sc, tr, j)
  BY <1>0, <1>1, WalksIs
<1>3. tr2[n].kind = tr[n].kind /\ tr2[n].vars = tr[n].vars
  BY <1>0, <1>2 DEF Binds
<1>4. ClausesDeep(tr, n)
  BY <1>0, <1>2, ShapeDeep
<1>5. ~InHandler(sc, k)
  BY <1>0, <1>2 DEF InHandler
<1>6. Level(e2, f, ib, m, sc, tr2, k)
  <2>1. Binds(tr, tr2, k, y) /\ k > 1
    BY <1>0, <1>1, <1>2
  <2>2. y \in Names
    BY <1>0
  <2>3. Level(Append(e, Scope!Value(y)), f, ib, m, sc, tr2, k)
    BY <1>2, <1>5, <2>1, <2>2, BindLevel
  <2>4. QED
    BY <2>3
<1>7. ASSUME NEW j \in 1..n
      PROVE  Level(sc[j].env, sc[j].frame, sc[j].initb, sc[j].nframe, sc, tr2, j)
  <2>1. Level(sc[j].env, sc[j].frame, sc[j].initb, sc[j].nframe, sc, tr, j)
    BY <1>2
  <2>2. SameBelow(sc, tr, sc, tr2, j - 1) /\ ClausesDeep(tr, j - 1) /\ j \in Nat \ {0}
    <3>1. \A h \in 1..j-1 : h \in 1..n-1 /\ h \in 1..n
      BY <1>2
    <3>2. QED
      BY <1>0, <1>2, <1>4, <3>1 DEF SameBelow, ClausesDeep
  <2>3. QED
    BY <2>1, <2>2, LevelSame
<1>8. ASSUME NEW j \in 1..n PROVE ShapeAt(sc, tr2, j)
  <2>1. ShapeAt(sc, tr, j)
    BY <1>2
  <2>2. CASE j = n
    <3>1. sc[j].kind \notin {"clause", "init", "handler", "letfun"}
      BY <1>0, <2>2
    <3>2. QED
      BY <1>3, <2>1, <2>2, <3>1 DEF ShapeAt
  <2>3. CASE j # n
    <3>1. j \in 1..n-1 /\ (j > 1 => j - 1 \in 1..n-1)
      BY <1>2, <2>3
    <3>2. tr2[j] = tr[j] /\ (j > 1 => tr2[j-1] = tr[j-1])
      BY <1>0, <3>1
    <3>3. sc[j].kind \in {"clause", "init"} => j > 1
      BY <2>1 DEF ShapeAt, InHandler
    <3>4. QED
      BY <2>1, <3>2, <3>3 DEF ShapeAt
  <2>4. QED
    BY <2>2, <2>3
<1>9. ScopeShape(sc, tr2)
  BY <1>0, <1>2, <1>8 DEF ScopeShape
<1>10. ScopeLevels(e2, f, ib, m, sc, tr2)
  BY <1>0, <1>1, <1>6, <1>7 DEF ScopeLevels
<1>11. QED
  BY <1>9, <1>10 DEF Walks

\* The innermost construct, top, is gone.
Left(sc, tr, n, top, sc2, tr2) ==
  /\ n = Len(sc) - 1 /\ Len(sc) # 0 /\ top = sc[n+1]
  /\ sc2 \in Seq(ScopeEntry) /\ tr2 \in Seq(TrailPart)
  /\ Len(sc2) = n /\ Len(tr2) = n /\ SameBelow(sc, tr, sc2, tr2, n)

(* The walk goes on in the context saved when the construct was entered.   *)
LEMMA LeaveWalks ==
  ASSUME NEW e, NEW f, NEW ib, NEW m, NEW sc, NEW tr, Walks(e, f, ib, m, sc, tr),
         NEW n, NEW top, NEW sc2, NEW tr2, Left(sc, tr, n, top, sc2, tr2)
  PROVE  Walks(top.env, top.frame, top.initb, m, sc2, tr2)
<1>0. /\ n = Len(sc) - 1 /\ Len(sc) # 0 /\ top = sc[n+1]
      /\ sc2 \in Seq(ScopeEntry) /\ tr2 \in Seq(TrailPart)
      /\ Len(sc2) = n /\ Len(tr2) = n /\ SameBelow(sc, tr, sc2, tr2, n)
  BY DEF Left
<1> DEFINE e2 == top.env
           f2 == top.frame
           ib2 == top.initb
<1>1. PICK k : k = n + 1
  OBVIOUS
<1>2. PICK l : l = Len(sc) + 1
  OBVIOUS
<1>3. /\ ScopeShape(sc, tr) /\ Level(e, f, ib, m, sc, tr, l)
      /\ sc \in Seq(ScopeEntry) /\ n \in Nat /\ k \in Nat \ {0} /\ k = Len(sc) /\ l - 1 = k
      /\ k - 1 = n
      /\ \A j \in 1..k : /\ ShapeAt(sc, tr, j)
                         /\ Level(sc[j].env, sc[j].frame, sc[j].initb, sc[j].nframe, sc, tr, j)
  BY <1>0, <1>1, <1>2, WalksIs
<1>4. ClausesDeep(tr, k)
  BY <1>3, ShapeDeep
<1>5. ASSUME NEW j \in 1..k
      PROVE  Level(sc[j].env, sc[j].frame, sc[j].initb, sc[j].nframe, sc2, tr2, j)
  <2>1. Level(sc[j].env, sc[j].frame, sc[j].initb, sc[j].nframe, sc, tr, j)
    BY <1>3
  <2>2. SameBelow(sc, tr, sc2, tr2, j - 1) /\ ClausesDeep(tr, j - 1) /\ j \in Nat \ {0}
    <3>1. \A h \in 1..j-1 : h \in 1..n /\ h \in 1..k
      BY <1>3
    <3>2. QED
      BY <1>0, <1>3, <1>4, <3>1 DEF SameBelow, ClausesDeep
  <2>3. QED
    BY <2>1, <2>2, LevelSame
<1>6. ASSUME NEW j \in 1..n PROVE ShapeAt(sc2, tr2, j)
  <2>1. ShapeAt(sc, tr, j)
    BY <1>3
  <2>2. j > 1 => j - 1 \in 1..n
    BY <1>3
  <2>3. sc2[j] = sc[j] /\ tr2[j] = tr[j] /\ (j > 1 => sc2[j-1] = sc[j-1] /\ tr2[j-1] = tr[j-1])
    BY <1>0, <2>2 DEF SameBelow
  <2>4. sc[j].kind \in {"clause", "init"} => j > 1
    BY <2>1 DEF ShapeAt, InHandler
  <2>5. QED
    BY <2>1, <2>3, <2>4 DEF ShapeAt, InHandler
<1>7. Level(e2, f2, ib2, m, sc2, tr2, k)
  <2>1. Level(sc[k].env, sc[k].frame, sc[k].initb, sc[k].nframe, sc2, tr2, k)
    BY <1>3, <1>5
  <2>2. m \in Nat /\ Numbered(m, sc, l)
    BY <1>3 DEF Level, Numbered
  <2>3. \A j \in 1..k-1 : sc2[j] = sc[j] /\ j \in 1..l-1
    BY <1>0, <1>3 DEF SameBelow
  <2>4. Numbered(m, sc2, k)
    BY <2>2, <2>3 DEF Numbered
  <2>5. e2 = sc[k].env /\ f2 = sc[k].frame /\ ib2 = sc[k].initb
    BY <1>0, <1>1
  <2>6. Level(e2, f2, ib2, sc[k].nframe, sc2, tr2, k)
    BY <2>1, <2>5
  <2>7. QED
    BY <2>2, <2>4, <2>6 DEF Level, Numbered
<1>8. ScopeShape(sc2, tr2)
  BY <1>0, <1>6 DEF ScopeShape
<1>9. ASSUME NEW j \in 1..n
      PROVE  Level(sc2[j].env, sc2[j].frame, sc2[j].initb, sc2[j].nframe, sc2, tr2, j)
  <2>1. j \in 1..k /\ sc2[j] = sc[j]
    BY <1>0, <1>3 DEF SameBelow
  <2>2. QED
    BY <1>5, <2>1
<1>10. ScopeLevels(e2, f2, ib2, m, sc2, tr2)
  BY <1>0, <1>1, <1>7, <1>9 DEF ScopeLevels
<1>11. QED
  BY <1>8, <1>10 DEF Walks

\* The walk is between the clauses of a handler.
InHere == InHandler(scopes, Len(scopes) + 1)

(* The walk's own reading of its innermost construct.                      *)
LEMMA HereIs ==
  ASSUME ScopeInv
  PROVE  /\ Scope!InExpr <=> ~InHere
         /\ scopes # <<>> <=> Len(scopes) # 0
         /\ Scope!Top = scopes[Len(scopes)] /\ Len(scopes) \in Nat /\ Len(trail) = Len(scopes)
         /\ scopes \in Seq(ScopeEntry) /\ trail \in Seq(TrailPart)
<1>1. scopes \in Seq(ScopeEntry) /\ Len(scopes) \in Nat /\ trail \in Seq(TrailPart) /\ Len(trail) = Len(scopes)
  BY DEF ScopeInv, Walks, ScopeShape
<1>2. scopes # <<>> <=> Len(scopes) # 0
  BY <1>1
<1>3. PICK k : k = Len(scopes) + 1
  OBVIOUS
<1>4. k - 1 = Len(scopes) /\ (k > 1 <=> Len(scopes) # 0)
  BY <1>1, <1>3
<1>5. Scope!InExpr <=> ~InHandler(scopes, k)
  BY <1>2, <1>4 DEF InHandler, Scope!InExpr, Scope!Top
<1>6. QED
  BY <1>1, <1>2, <1>3, <1>5 DEF InHere, Scope!Top

(* A construct that is no local function has the empty name.               *)
LEMMA LabelsIs == "" \in Labels
  BY Zenon DEF Labels

(* A lambda or an equation is entered.                                     *)
LEMMA StepFunction ==
  ASSUME ScopeInv, NEW args \in Scope!UpTo(1), Scope!EnterFunction(args)
  PROVE  ScopeInv'
<1>0. PICK d : d = Len(scopes) + 1
  OBVIOUS
<1>1. PICK nm : nm = ""
  OBVIOUS
<1>2. nm \in Labels /\ Walks(env, frame, initb, nframe, scopes, trail) /\ ~InHandler(scopes, d)
  BY <1>0, <1>1, LabelsIs, HereIs, Zenon DEF ScopeInv, InHere, Scope!EnterFunction
<1>3. /\ scopes' = Append(scopes, Snapshot("fun", nm, env, frame, initb, nframe))
      /\ trail' = Append(trail, Scope!Part("fun", {}, Scope!ToSet(args), {}))
      /\ env' = Pushes(env, args) /\ frame' = 0 /\ initb' = initb /\ nframe' = nframe
  BY <1>1, Zenon DEF Scope!EnterFunction, Scope!Enter, Snapshot, Pushes
<1>4. QED
  BY <1>0, <1>2, <1>3, PlainStep DEF ScopeInv

(* A block, an arm or a where block is entered.                            *)
LEMMA StepScope ==
  ASSUME ScopeInv, NEW args \in Scope!UpTo(1), NEW ws \in SUBSET Names, args # <<>> => ws = {},
         Scope!EnterScope(args, ws)
  PROVE  ScopeInv'
<1>0. PICK d : d = Len(scopes) + 1
  OBVIOUS
<1>1. PICK nm : nm = ""
  OBVIOUS
<1>2. nm \in Labels /\ Walks(env, frame, initb, nframe, scopes, trail) /\ ~InHandler(scopes, d)
  BY <1>0, <1>1, LabelsIs, HereIs, Zenon DEF ScopeInv, InHere, Scope!EnterScope
<1>3. /\ scopes' = Append(scopes, Snapshot("scope", nm, env, frame, initb, nframe))
      /\ trail' = Append(trail, Scope!Part("scope", {}, Scope!ToSet(args), ws))
      /\ env' = Pushes(env, args) /\ frame' = frame /\ initb' = initb /\ nframe' = nframe
  BY <1>1, Zenon DEF Scope!EnterScope, Scope!Enter, Snapshot, Pushes
<1>4. QED
  BY <1>0, <1>2, <1>3, PlainStep DEF ScopeInv

(* A local function is entered.                                            *)
LEMMA StepLet ==
  ASSUME ScopeInv, NEW g \in Names, NEW x \in Names, Scope!EnterLetFunction(g, <<x>>)
  PROVE  ScopeInv'
<1>1. PICK d : d = Len(scopes) + 1
  OBVIOUS
<1>2. PICK args : args = <<x>>
  OBVIOUS
<1>3. args \in Scope!UpTo(1)
  <2>1. args \in [1..1 -> Names] /\ 1 \in 0..1
    BY <1>2
  <2>2. QED
    BY <2>1 DEF Scope!UpTo
<1>4. Walks(env, frame, initb, nframe, scopes, trail)
  BY DEF ScopeInv
<1>5. d > 1 /\ scopes[d-1].kind = "scope"
  <2>1. /\ scopes # <<>> <=> Len(scopes) # 0
        /\ Scope!Top = scopes[Len(scopes)] /\ Len(scopes) \in Nat
    BY HereIs
  <2>2. scopes # <<>> /\ Scope!Top.kind = "scope"
    BY Zenon DEF Scope!EnterLetFunction
  <2>3. d - 1 = Len(scopes) /\ d > 1
    BY <1>1, <2>1, <2>2
  <2>4. QED
    BY <2>1, <2>2, <2>3
<1>6. PICK e0 : e0 = Append(env, Scope!Value(g))
  OBVIOUS
<1>7. /\ scopes' = Append(scopes, Snapshot("letfun", g, env, frame, initb, nframe))
      /\ trail' = Append(trail, Scope!Part("fun", {}, {g} \cup Scope!ToSet(args), {}))
      /\ env' = Pushes(e0, args) /\ frame' = 0 /\ initb' = initb /\ nframe' = nframe
  BY <1>2, <1>6, Zenon DEF Scope!EnterLetFunction, Scope!Enter, Snapshot, Pushes
<1>8. QED
  BY <1>1, <1>3, <1>4, <1>5, <1>6, <1>7, LetStep DEF ScopeInv

(* The literal of a handler is entered.                                    *)
LEMMA StepHandler ==
  ASSUME ScopeInv, NEW xs \in Scope!UpTo(1), Scope!EnterHandler(xs)
  PROVE  ScopeInv'
<1>0. PICK d : d = Len(scopes) + 1
  OBVIOUS
<1>1. PICK nm : nm = ""
  OBVIOUS
<1>2. nm \in Labels /\ Walks(env, frame, initb, nframe, scopes, trail) /\ ~InHandler(scopes, d)
  BY <1>0, <1>1, LabelsIs, HereIs, Zenon DEF ScopeInv, InHere, Scope!EnterHandler
<1>3. /\ scopes' = Append(scopes, Snapshot("handler", nm, env, frame, initb, nframe))
      /\ trail' = Append(trail, Scope!Part("handler", Scope!ToSet(xs), {}, {}))
      /\ frame' = frame /\ initb' = initb /\ nframe' = nframe + 1
      /\ env' = env \o [j \in DOMAIN xs |-> Scope!Baton(xs[j], nframe + 1)]
  BY <1>1, Zenon DEF Scope!EnterHandler, Scope!Enter, Snapshot
<1>4. QED
  BY <1>0, <1>2, <1>3, HandlerStep DEF ScopeInv

(* A clause is entered.                                                    *)
LEMMA StepClause ==
  ASSUME ScopeInv, NEW args \in Scope!UpTo(1), Scope!EnterClause(args)
  PROVE  ScopeInv'
<1>0. PICK d : d = Len(scopes) + 1
  OBVIOUS
<1>1. PICK nm : nm = ""
  OBVIOUS
<1>2. nm \in Labels /\ Walks(env, frame, initb, nframe, scopes, trail) /\ InHandler(scopes, d)
  BY <1>0, <1>1, LabelsIs, HereIs, Zenon DEF ScopeInv, InHere, Scope!EnterClause
<1>3. d - 1 = Len(scopes) /\ Len(trail) = Len(scopes) /\ Scope!Top = scopes[Len(scopes)]
  <2>1. Len(scopes) \in Nat /\ Len(trail) = Len(scopes) /\ Scope!Top = scopes[Len(scopes)]
    BY HereIs
  <2>2. QED
    BY <1>0, <2>1
<1>4. /\ scopes' = Append(scopes, Snapshot("clause", nm, env, frame, initb, nframe))
      /\ trail' = Append(trail, Scope!Part("clause", trail[d-1].vars, Scope!ToSet(args), {}))
      /\ env' = Pushes(env, args) /\ frame' = scopes[d-1].nframe + 1
      /\ initb' = initb /\ nframe' = nframe
  BY <1>1, <1>3, Zenon DEF Scope!EnterClause, Scope!Enter, Scope!OwnFrame, Snapshot, Pushes
<1>5. QED
  BY <1>0, <1>2, <1>4, ClauseStep DEF ScopeInv

(* An initialiser is entered.                                              *)
LEMMA StepInit ==
  ASSUME ScopeInv, Scope!EnterInit
  PROVE  ScopeInv'
<1>0. PICK d : d = Len(scopes) + 1
  OBVIOUS
<1>1. PICK nm : nm = ""
  OBVIOUS
<1>2. nm \in Labels /\ Walks(env, frame, initb, nframe, scopes, trail) /\ InHandler(scopes, d)
  BY <1>0, <1>1, LabelsIs, HereIs, Zenon DEF ScopeInv, InHere, Scope!EnterInit
<1>3. d - 1 = Len(scopes) /\ Len(trail) = Len(scopes) /\ Scope!Top = scopes[Len(scopes)]
  <2>1. Len(scopes) \in Nat /\ Len(trail) = Len(scopes) /\ Scope!Top = scopes[Len(scopes)]
    BY HereIs
  <2>2. QED
    BY <1>0, <2>1
<1>4. /\ scopes' = Append(scopes, Snapshot("init", nm, env, frame, initb, nframe))
      /\ trail' = Append(trail, Scope!Part("init", trail[d-1].vars, {}, {}))
      /\ env' = scopes[d-1].env /\ frame' = scopes[d-1].frame
      /\ initb' = env /\ nframe' = nframe
  BY <1>1, <1>3, Zenon DEF Scope!EnterInit, Scope!Enter, Snapshot
<1>5. QED
  BY <1>0, <1>2, <1>4, InitStep DEF ScopeInv

(* A part is replaced.                                                     *)
LEMMA PartSet ==
  ASSUME NEW S, NEW tr \in Seq(S), NEW n \in 1..Len(tr), NEW q \in S,
         NEW tr2, tr2 = [tr EXCEPT ![n] = q]
  PROVE  /\ tr2 \in Seq(S) /\ Len(tr2) = Len(tr) /\ tr2[n] = q
         /\ \A j \in 1..n-1 : tr2[j] = tr[j]
  OBVIOUS

\* Part n binds y besides.
Rebinds(tr, tr2, n, y) == tr2 = [tr EXCEPT ![n].binds = @ \cup {y}, ![n].where = @ \ {y}]

(* The innermost part of the trail comes to bind y.                        *)
LEMMA BoundIs ==
  ASSUME NEW sc, NEW tr \in Seq(TrailPart), NEW n, n = Len(sc), n = Len(tr), n > 0,
         sc[n].kind = "scope", NEW y \in Names,
         NEW tr2, Rebinds(tr, tr2, n, y)
  PROVE  Bound(sc, tr, tr2, n, y)
<1> DEFINE p == tr[n]
           q == [[p EXCEPT !.binds = @ \cup {y}] EXCEPT !.where = @ \ {y}]
<1>1. n \in Nat /\ n \in 1..n /\ p \in TrailPart /\ DOMAIN tr = 1..n
  OBVIOUS
<1>2. /\ q.kind = p.kind /\ q.vars = p.vars
      /\ q.binds = p.binds \cup {y} /\ q.where = p.where \ {y}
  BY <1>1 DEF TrailPart
<1>3. q \in TrailPart
  BY <1>1 DEF TrailPart
<1> HIDE DEF q
<1>4. tr2 = [tr EXCEPT ![n] = q]
  BY <1>1 DEF q, Rebinds
<1>5. /\ tr2 \in Seq(TrailPart) /\ Len(tr2) = Len(tr) /\ tr2[n] = q
      /\ \A j \in 1..n-1 : tr2[j] = tr[j]
  <2>1. n \in 1..Len(tr)
    BY <1>1
  <2>2. QED
    BY <1>3, <1>4, <2>1, PartSet
<1>6. PICK k : k = n + 1
  OBVIOUS
<1>7. k - 1 = n /\ k - 2 = n - 1 /\ \A j \in 1..n : j \in 1..n-1 \/ j = n
  BY <1>1, <1>6
<1>8. Binds(tr, tr2, k, y)
  BY <1>2, <1>5, <1>7 DEF Binds
<1>9. QED
  BY <1>5, <1>6, <1>8 DEF Bound

(* A name is bound for the rest of the block.                              *)
LEMMA StepBind ==
  ASSUME ScopeInv, NEW y \in Names, Scope!BindHere(y)
  PROVE  ScopeInv'
<1>1. PICK n : n = Len(scopes)
  OBVIOUS
<1>2. /\ scopes # <<>> <=> Len(scopes) # 0
      /\ Scope!Top = scopes[Len(scopes)] /\ Len(scopes) \in Nat
      /\ Len(trail) = Len(scopes) /\ trail \in Seq(TrailPart)
  BY HereIs
<1>3. scopes # <<>> /\ Scope!Top.kind = "scope"
  BY Zenon DEF Scope!BindHere
<1>4. n = Len(trail) /\ n > 0 /\ scopes[n].kind = "scope"
  BY <1>1, <1>2, <1>3
<1>5. /\ env' = Append(env, Scope!Value(y)) /\ frame' = frame /\ initb' = initb
      /\ nframe' = nframe /\ scopes' = scopes
      /\ trail' = [trail EXCEPT ![n].binds = @ \cup {y}, ![n].where = @ \ {y}]
  BY <1>4, Zenon DEF Scope!BindHere
<1>6. Bound(scopes, trail, trail', n, y)
  BY <1>1, <1>2, <1>4, <1>5, BoundIs DEF Rebinds
<1>7. Walks(env, frame, initb, nframe, scopes, trail)
  BY DEF ScopeInv
<1>8. Walks(env', frame, initb, nframe, scopes, trail')
  BY <1>5, <1>6, <1>7, BindWalks
<1>9. QED
  BY <1>5, <1>8 DEF ScopeInv

(* All but the last.                                                       *)
LEMMA FrontOfSeq ==
  ASSUME NEW S, NEW s \in Seq(S), Len(s) # 0, NEW n, n = Len(s) - 1
  PROVE  Scope!Front(s) \in Seq(S) /\ Len(Scope!Front(s)) = n
         /\ \A j \in 1..n : Scope!Front(s)[j] = s[j]
  BY DEF Scope!Front

(* A construct is left; a local function is in scope after it.             *)
LEMMA StepLeave ==
  ASSUME ScopeInv, Scope!Leave
  PROVE  ScopeInv'
<1>1. /\ scopes # <<>> <=> Len(scopes) # 0
      /\ Scope!Top = scopes[Len(scopes)] /\ Len(scopes) \in Nat
      /\ Len(trail) = Len(scopes) /\ trail \in Seq(TrailPart) /\ scopes \in Seq(ScopeEntry)
  BY HereIs
<1>2. PICK n : n = Len(scopes) - 1
  OBVIOUS
<1>3. PICK top : top = scopes[n+1] /\ top = Scope!Top
  <2>1. n + 1 = Len(scopes)
    BY <1>1, <1>2
  <2>2. QED
    BY <1>1, <2>1
<1>4. Len(scopes) # 0
  BY <1>1, Zenon DEF Scope!Leave
<1>5. PICK up : up = Scope!Front(trail)
  OBVIOUS
<1>6. PICK around : around = Scope!Front(scopes)
  OBVIOUS
<1>7. /\ around \in Seq(ScopeEntry) /\ Len(around) = n /\ \A j \in 1..n : around[j] = scopes[j]
      /\ up \in Seq(TrailPart) /\ Len(up) = n /\ \A j \in 1..n : up[j] = trail[j]
  BY <1>1, <1>2, <1>4, <1>5, <1>6, FrontOfSeq
<1>8. SameBelow(scopes, trail, around, up, n)
  BY <1>7 DEF SameBelow
<1>9. Walks(top.env, top.frame, top.initb, nframe, around, up)
  <2>1. Walks(env, frame, initb, nframe, scopes, trail)
    BY DEF ScopeInv
  <2>2. Left(scopes, trail, n, top, around, up)
    BY <1>2, <1>3, <1>4, <1>7, <1>8 DEF Left
  <2>3. QED
    BY <2>1, <2>2, LeaveWalks
<1>10. scopes' = around /\ frame' = top.frame /\ initb' = top.initb /\ nframe' = nframe
  BY <1>3, <1>6, Zenon DEF Scope!Leave, Scope!FrameOf
<1>11. CASE top.kind # "letfun"
  <2>1. env' = top.env /\ trail' = up
    BY <1>3, <1>5, <1>11, Zenon DEF Scope!Leave
  <2>2. QED
    BY <1>9, <1>10, <2>1 DEF ScopeInv
<1>12. CASE top.kind = "letfun"
  <2>1. env' = Append(top.env, Scope!Value(top.name))
    BY <1>3, <1>12, Zenon DEF Scope!Leave
  <2>2. trail' = [up EXCEPT ![n].binds = @ \cup {top.name}, ![n].where = @ \ {top.name}]
    BY <1>3, <1>5, <1>7, <1>12, Zenon DEF Scope!Leave
  <2>3. n > 0 /\ scopes[n].kind = "scope" /\ top.name \in Names
    <3>1. n \in Nat /\ n + 1 \in 1..Len(scopes) /\ n + 1 - 1 = n
      BY <1>1, <1>2, <1>4
    <3>2. ShapeAt(scopes, trail, n + 1)
      BY <3>1 DEF ScopeInv, Walks, ScopeShape
    <3>3. QED
      BY <1>3, <1>12, <3>1, <3>2 DEF ShapeAt
  <2>4. around[n].kind = "scope"
    BY <1>7, <2>3
  <2>5. Bound(around, up, trail', n, top.name)
    BY <1>7, <2>2, <2>3, <2>4, BoundIs DEF Rebinds
  <2>6. Walks(env', top.frame, top.initb, nframe, around, trail')
    BY <1>9, <2>1, <2>5, BindWalks
  <2>7. QED
    BY <1>10, <2>6 DEF ScopeInv
<1>13. QED
  BY <1>11, <1>12

(* The rest of the front end leaves the walk alone.                        *)
LEMMA StepIdle ==
  ASSUME ScopeInv, UNCHANGED scopeVars
  PROVE  ScopeInv'
<1>1. /\ env' = env /\ frame' = frame /\ initb' = initb /\ nframe' = nframe
      /\ scopes' = scopes /\ trail' = trail
  BY DEF scopeVars
<1>2. QED
  BY <1>1 DEF ScopeInv

(* Every step of the walk keeps the invariant.                             *)
LEMMA ScopeNextInv ==
  ASSUME ScopeInv, Scope!Next \/ UNCHANGED scopeVars
  PROVE  ScopeInv'
<1>1. ASSUME NEW args \in Scope!UpTo(1), Scope!EnterFunction(args) PROVE ScopeInv'
  BY <1>1, StepFunction
<1>2. ASSUME NEW h \in Scope!Heads, Scope!EnterScope(h.args, h.where) PROVE ScopeInv'
  <2>1. /\ h.args \in Scope!UpTo(1) /\ h.where \in SUBSET Names
        /\ h.args # <<>> => h.where = {}
    <3>1. <<>> \in Scope!UpTo(1)
      <4>1. <<>> \in [1..0 -> Names] /\ 0 \in 0..1
        OBVIOUS
      <4>2. QED
        BY <4>1 DEF Scope!UpTo
    <3>2. QED
      BY <3>1 DEF Scope!Heads
  <2>2. QED
    BY <1>2, <2>1, StepScope
<1>3. ASSUME NEW g \in Names, NEW x \in Names, Scope!EnterLetFunction(g, <<x>>) PROVE ScopeInv'
  BY <1>3, StepLet
<1>4. ASSUME NEW y \in Names, Scope!BindHere(y) PROVE ScopeInv'
  BY <1>4, StepBind
<1>5. ASSUME NEW xs \in Scope!UpTo(1), Scope!EnterHandler(xs) PROVE ScopeInv'
  BY <1>5, StepHandler
<1>6. ASSUME NEW args \in Scope!UpTo(1), Scope!EnterClause(args) PROVE ScopeInv'
  BY <1>6, StepClause
<1>7. QED
  BY <1>1, <1>2, <1>3, <1>4, <1>5, <1>6, StepInit, StepLeave, StepIdle, Zenon DEF Scope!Next

-----------------------------------------------------------------------------
(* What the invariant says of a write.                                     *)

\* r is the last entry of e that is in S, or none.
Finds(r, e, S) ==
  \/ S = {} /\ r.frame = -1 /\ ~r.baton
  \/ \E h : IsLast(S, h) /\ h # 0 /\ h \in DOMAIN e /\ r = e[h]

(* The choice the searches make is the last member.                        *)
LEMMA LastChosen ==
  ASSUME NEW n \in Nat, NEW S, \A j_ \in S : j_ \in 1..n, S # {}
  PROVE  LET c == CHOOSE j \in S : \A h \in S : h <= j
         IN  c \in S /\ c # 0 /\ IsLast(S, c)
<1>1. PICK b \in 0..n : IsLast(S, b)
  BY LastExists
<1>2. b \in S /\ \A h \in S : h <= b
  BY <1>1 DEF IsLast
<1> DEFINE c == CHOOSE j \in S : \A h \in S : h <= j
<1>3. c \in S /\ \A h \in S : h <= c
  BY <1>2
<1> HIDE DEF c
<1>4. c # 0 /\ IsLast(S, c)
  BY <1>3 DEF IsLast
<1>5. QED
  BY <1>3, <1>4 DEF c

(* sc_lookup finds the last entry of the name.                             *)
LEMMA LookupFinds ==
  ASSUME env \in Seq(Entry), NEW x
  PROVE  Finds(Scope!Lookup(x), env, Hits(env, x))
<1>1. Len(env) \in Nat /\ \A j_ \in Hits(env, x) : j_ \in 1..Len(env)
  BY HitsIn
<1> DEFINE r == Scope!Lookup(x)
           S == Hits(env, x)
           c == CHOOSE j \in S : \A h \in S : h <= j
<1>2. r = IF S = {} THEN [name |-> "", baton |-> FALSE, frame |-> -1] ELSE env[c]
  BY Zenon DEF Scope!Lookup, Scope!Found, Hits
<1> HIDE DEF r, c
<1>3. CASE S = {}
  <2>1. PICK nm : nm = ""
    OBVIOUS
  <2>2. r = [name |-> nm, baton |-> FALSE, frame |-> -1]
    BY <1>2, <1>3, <2>1, Zenon
  <2>3. r.frame = -1 /\ ~r.baton
    BY <2>2
  <2>4. QED
    BY <1>3, <2>3 DEF Finds, r
<1>4. CASE S # {}
  <2>1. c \in S /\ c # 0 /\ IsLast(S, c)
    BY <1>1, <1>4, LastChosen DEF c
  <2>2. r = env[c]
    BY <1>2, <1>4, Zenon
  <2>3. c \in DOMAIN env
    BY <2>1 DEF Hits
  <2>4. QED
    BY <2>1, <2>2, <2>3 DEF Finds, r
<1>5. QED
  BY <1>3, <1>4

(* The search for a slot finds the last baton of the name.                 *)
LEMMA LookupBatonFinds ==
  ASSUME env \in Seq(Entry), NEW x
  PROVE  Finds(Scope!LookupBaton(x), env, Batons(env, x))
<1>1. Len(env) \in Nat /\ \A j_ \in Batons(env, x) : j_ \in 1..Len(env)
  BY HitsIn
<1> DEFINE r == Scope!LookupBaton(x)
           S == Batons(env, x)
           c == CHOOSE j \in S : \A h \in S : h <= j
<1>2. r = IF S = {} THEN [name |-> "", baton |-> FALSE, frame |-> -1] ELSE env[c]
  BY Zenon DEF Scope!LookupBaton, Scope!Found, Batons
<1> HIDE DEF r, c
<1>3. CASE S = {}
  <2>1. PICK nm : nm = ""
    OBVIOUS
  <2>2. r = [name |-> nm, baton |-> FALSE, frame |-> -1]
    BY <1>2, <1>3, <2>1, Zenon
  <2>3. r.frame = -1 /\ ~r.baton
    BY <2>2
  <2>4. QED
    BY <1>3, <2>3 DEF Finds, r
<1>4. CASE S # {}
  <2>1. c \in S /\ c # 0 /\ IsLast(S, c)
    BY <1>1, <1>4, LastChosen DEF c
  <2>2. r = env[c]
    BY <1>2, <1>4, Zenon
  <2>3. c \in DOMAIN env
    BY <2>1 DEF Batons
  <2>4. QED
    BY <2>1, <2>2, <2>3 DEF Finds, r
<1>5. QED
  BY <1>3, <1>4

(* Two clauses belong to handlers of different numbers.                     *)
LEMMA NumbersDiffer ==
  ASSUME NEW e, NEW f, NEW ib, NEW m, NEW sc, NEW tr, Walks(e, f, ib, m, sc, tr),
         NEW s \in 1..Len(sc), NEW c \in 1..Len(sc), tr[s].kind = "clause", tr[c].kind = "clause",
         s < c
  PROVE  NumberOf(sc, s) # NumberOf(sc, c) /\ NumberOf(sc, s) \in Nat \ {0}
         /\ NumberOf(sc, c) \in Nat \ {0}
<1>1. PICK k : k = Len(sc) + 1
  OBVIOUS
<1>2. /\ Len(sc) \in Nat /\ k - 1 = Len(sc)
      /\ \A j \in 1..Len(sc) : /\ sc[j].nframe \in Nat /\ ShapeAt(sc, tr, j)
                              /\ Level(sc[j].env, sc[j].frame, sc[j].initb, sc[j].nframe, sc, tr, j)
  BY <1>1, WalksIs
<1>3. s > 1 /\ c > 1 /\ sc[s-1].kind = "handler"
  BY <1>2 DEF ShapeAt, KindOf, InHandler
<1>4. s - 1 \in 1..Len(sc) /\ c - 1 \in 1..Len(sc) /\ s - 1 \in 1..c-1-1
  BY <1>2, <1>3
<1>5. sc[s-1].nframe < sc[c-1].nframe
  BY <1>2, <1>3, <1>4 DEF Level
<1>6. sc[s-1].nframe \in Nat /\ sc[c-1].nframe \in Nat
  BY <1>2, <1>4
<1>7. QED
  BY <1>5, <1>6 DEF NumberOf

(* A clause stands in a handler that has a number.                         *)
LEMMA NumberIs ==
  ASSUME NEW e, NEW f, NEW ib, NEW m, NEW sc, NEW tr, Walks(e, f, ib, m, sc, tr),
         NEW s \in 1..Len(sc), tr[s].kind = "clause"
  PROVE  NumberOf(sc, s) \in Nat \ {0}
<1>1. PICK k : k = Len(sc) + 1
  OBVIOUS
<1>2. /\ Len(sc) \in Nat /\ k - 1 = Len(sc)
      /\ \A j \in 1..Len(sc) : sc[j].nframe \in Nat /\ ShapeAt(sc, tr, j)
  BY <1>1, WalksIs
<1>3. s > 1
  BY <1>2 DEF ShapeAt, KindOf, InHandler
<1>4. s - 1 \in 1..Len(sc)
  BY <1>2, <1>3
<1>5. sc[s-1].nframe \in Nat
  BY <1>2, <1>4
<1>6. QED
  BY <1>5 DEF NumberOf

\* Where a write of x stands: its slot s, its binding b, the boundary c.
Stands(x, k, s, b, c) ==
  /\ IsLast(Slots(trail, k, x), s) /\ IsLast(Binding(trail, k, x), b)
  /\ IsLast(Fences(trail, k), c)
  /\ s \in 0..k-1 /\ b \in 0..k-1 /\ c \in 0..k-1 /\ k \in Nat
  /\ SeesSlot(env, x, s, scopes) /\ SeesName(env, x, b, s)
  /\ frame = IF c = 0 \/ trail[c].kind = "fun" THEN 0 ELSE NumberOf(scopes, c)

(* The invariant says where a write of x stands.                           *)
LEMMA StandsIs ==
  ASSUME ScopeInv, Scope!InExpr, NEW x \in Names, ~Scope!InWhere(x), NEW k, k = Len(scopes) + 1
  PROVE  /\ Stands(x, k, Scope!Innermost(Scope!SlotAt(x)), Scope!Innermost(Scope!BoundAt(x)),
                   Scope!Boundary)
         /\ Scope!SlotAt(x) = Slots(trail, k, x) /\ Scope!BoundAt(x) = Binding(trail, k, x)
<1>1. Walks(env, frame, initb, nframe, scopes, trail)
  BY DEF ScopeInv
<1>2. /\ Level(env, frame, initb, nframe, scopes, trail, k) /\ k \in Nat \ {0} /\ k - 1 \in Nat
      /\ trail \in Seq(TrailPart) /\ DOMAIN trail = 1..k-1
  BY <1>1, WalksIs
<1>3. ~InHandler(scopes, k)
  BY HereIs DEF InHere
<1>4. Scope!SlotAt(x) = Slots(trail, k, x)
  BY <1>2 DEF Scope!SlotAt, Slots
<1>5. \A j \in 1..k-1 : x \notin trail[j].where
  BY <1>2 DEF Scope!InWhere
<1>6. Scope!BoundAt(x) = Binding(trail, k, x) /\ ~Hides(trail, k, x)
  BY <1>2, <1>5 DEF Scope!BoundAt, Binding, Hides
<1>7. Scope!Boundary = Scope!Innermost(Fences(trail, k))
  BY <1>2 DEF Scope!Boundary, Fences
<1>8. PICK s, b, c : /\ s = Scope!Innermost(Scope!SlotAt(x)) /\ b = Scope!Innermost(Scope!BoundAt(x))
                     /\ c = Scope!Boundary
  OBVIOUS
<1>9. /\ \A j_ \in Binding(trail, k, x) : j_ \in 1..k-1
      /\ \A j_ \in Slots(trail, k, x) : j_ \in 1..k-1
      /\ \A j_ \in Fences(trail, k) : j_ \in 1..k-1
  BY <1>2, PlacesIn
<1>10. PICK n \in Nat : n = k - 1
  BY <1>2
<1>11. IsLast(Slots(trail, k, x), s) /\ s \in 0..n
  BY <1>4, <1>8, <1>9, <1>10, InnermostLast
<1>12. IsLast(Binding(trail, k, x), b) /\ b \in 0..n
  BY <1>6, <1>8, <1>9, <1>10, InnermostLast
<1>13. IsLast(Fences(trail, k), c) /\ c \in 0..n
  BY <1>7, <1>8, <1>9, <1>10, InnermostLast
<1>14. Sees(env, scopes, trail, k, x) /\ SeesFrame(frame, scopes, trail, k)
  BY <1>2, <1>3 DEF Level
<1>15. SeesSlot(env, x, s, scopes) /\ SeesName(env, x, b, s)
  BY <1>6, <1>11, <1>12, <1>14 DEF Sees
<1>16. frame = IF c = 0 \/ trail[c].kind = "fun" THEN 0 ELSE NumberOf(scopes, c)
  BY <1>13, <1>14 DEF SeesFrame
<1>17. Stands(x, k, s, b, c)
  BY <1>2, <1>10, <1>11, <1>12, <1>13, <1>15, <1>16 DEF Stands
<1>18. QED
  BY <1>4, <1>6, <1>8, <1>17

(* The frame the walk is in is that of x's slot just where the slot's clause *)
(* is the nearest boundary.                                                *)
LEMMA FrameIs ==
  ASSUME ScopeInv, NEW x, NEW k, k = Len(scopes) + 1, NEW s, NEW b, NEW c, Stands(x, k, s, b, c),
         s # 0
  PROVE  (frame = NumberOf(scopes, s) /\ frame # 0) <=> s = c
<1>1. Walks(env, frame, initb, nframe, scopes, trail)
  BY DEF ScopeInv
<1>2. Len(scopes) \in Nat /\ k - 1 = Len(scopes)
  BY <1>1, WalksIs
<1>3. s \in 1..Len(scopes) /\ trail[s].kind = "clause"
  BY <1>2 DEF Stands, IsLast, Slots
<1>4. s \in Fences(trail, k)
  BY <1>2, <1>3 DEF Fences
<1>5. c \in 1..Len(scopes) /\ s <= c /\ trail[c].kind \in {"fun", "clause"}
  BY <1>2, <1>4 DEF Stands, IsLast, Fences
<1>6. NumberOf(scopes, s) \in Nat \ {0}
  BY <1>1, <1>3, NumberIs
<1>7. CASE s = c
  BY <1>3, <1>5, <1>6, <1>7 DEF Stands
<1>8. CASE s # c /\ trail[c].kind = "fun"
  BY <1>8 DEF Stands
<1>9. CASE s # c /\ trail[c].kind = "clause"
  <2>1. s < c
    BY <1>3, <1>5, <1>9
  <2>2. NumberOf(scopes, s) # NumberOf(scopes, c)
    BY <1>1, <1>3, <1>5, <1>9, <2>1, NumbersDiffer
  <2>3. frame = NumberOf(scopes, c)
    BY <1>5, <1>9 DEF Stands
  <2>4. QED
    BY <1>9, <2>2, <2>3
<1>10. QED
  BY <1>5, <1>7, <1>8, <1>9

(* What the two searches of the environment yield.                         *)
LEMMA FoundIs ==
  ASSUME ScopeInv, NEW x, NEW k, k = Len(scopes) + 1, NEW s, NEW b, NEW c, Stands(x, k, s, b, c)
  PROVE  /\ Scope!None(Scope!Lookup(x)) <=> (b = 0 /\ s = 0)
         /\ ~Scope!None(Scope!Lookup(x)) => (Scope!Lookup(x).baton <=> s > b)
         /\ Scope!None(Scope!LookupBaton(x)) <=> s = 0
         /\ Scope!Here(Scope!LookupBaton(x)) <=> (s # 0 /\ s = c)
         /\ Scope!Here(Scope!Lookup(x)) <=> (s > b /\ s = c)
<1>1. env \in Seq(Entry)
  <2>1. Walks(env, frame, initb, nframe, scopes, trail)
    BY DEF ScopeInv
  <2>2. QED
    BY <2>1, WalksIs
<1>2. PICK r : r = Scope!Lookup(x)
  OBVIOUS
<1>3. PICK q : q = Scope!LookupBaton(x)
  OBVIOUS
<1>4. Finds(r, env, Hits(env, x)) /\ Finds(q, env, Batons(env, x))
  BY <1>1, <1>2, <1>3, LookupFinds, LookupBatonFinds
<1>5. /\ Batons(env, x) = {} <=> s = 0
      /\ \A h : IsLast(Batons(env, x), h) /\ h # 0 => env[h].frame = NumberOf(scopes, s)
      /\ Hits(env, x) = {} <=> (b = 0 /\ s = 0)
      /\ \A h : IsLast(Hits(env, x), h) /\ h # 0 => (env[h].baton <=> s > b)
      /\ s \in Nat /\ b \in Nat
  BY DEF Stands, SeesSlot, SeesName
<1>6. /\ \A h \in DOMAIN env : env[h].frame \in Nat
      /\ \A h \in Batons(env, x) : env[h].baton
  <2>1. \A h \in DOMAIN env : env[h] \in Entry
    BY <1>1
  <2>2. \A h \in DOMAIN env : env[h].frame \in Nat
    BY <2>1 DEF Entry
  <2>3. QED
    BY <2>2 DEF Batons
<1>7. IF s = 0 THEN q.frame = -1 /\ ~q.baton
      ELSE q.baton /\ q.frame = NumberOf(scopes, s) /\ q.frame \in Nat
  BY <1>4, <1>5, <1>6 DEF Finds, IsLast
<1>8. IF b = 0 /\ s = 0 THEN r.frame = -1 /\ ~r.baton
      ELSE r.frame \in Nat /\ (r.baton <=> s > b)
  BY <1>4, <1>5, <1>6 DEF Finds, IsLast
<1>9. r.baton => r.frame = NumberOf(scopes, s)
  <2> SUFFICES ASSUME r.baton PROVE r.frame = NumberOf(scopes, s)
    OBVIOUS
  <2>1. PICK h : IsLast(Hits(env, x), h) /\ h # 0 /\ h \in DOMAIN env /\ r = env[h]
    BY <1>4 DEF Finds
  <2>2. IsLast(Batons(env, x), h)
    BY <2>1 DEF IsLast, Batons, Hits
  <2>3. QED
    BY <1>5, <2>1, <2>2
<1>10. s # 0 => ((frame = NumberOf(scopes, s) /\ frame # 0) <=> s = c)
  BY FrameIs
<1>11. /\ Scope!None(r) <=> (b = 0 /\ s = 0)
       /\ ~Scope!None(r) => (r.baton <=> s > b)
       /\ Scope!None(q) <=> s = 0
  BY <1>5, <1>7, <1>8 DEF Scope!None
<1>12. Scope!Here(q) <=> (s # 0 /\ s = c)
  BY <1>5, <1>7, <1>10 DEF Scope!Here
<1>13. Scope!Here(r) <=> (s > b /\ s = c)
  BY <1>5, <1>8, <1>9, <1>10 DEF Scope!Here
<1>14. QED
  BY <1>2, <1>3, <1>11, <1>12, <1>13

(* What is bound to be found is what is meant, but for initialisers.        *)
LEMMA InitIs ==
  ASSUME ScopeInv, NEW x \in Names, NEW k, k = Len(scopes) + 1, Slots(trail, k, x) = {},
         NEW has, has <=> \E j \in DOMAIN initb : initb[j].baton /\ initb[j].name = x
  PROVE  /\ has => Scope!Starting(x)
         /\ ~has /\ Scope!Starting(x) =>
              Cardinality({j \in DOMAIN trail : trail[j].kind = "init"}) > 1
<1>1. Walks(env, frame, initb, nframe, scopes, trail)
  BY DEF ScopeInv
<1>2. /\ Level(env, frame, initb, nframe, scopes, trail, k) /\ k - 1 \in Nat
      /\ DOMAIN trail = 1..k-1
  BY <1>1, WalksIs
<1>3. SeesInit(initb, trail, k, x)
  BY <1>2 DEF Level
<1>4. has <=> Batons(initb, x) # {}
  BY DEF Batons
<1>5. Scope!Starting(x) <=> \E j \in Starts(trail, k) : x \in trail[j].vars
  BY <1>2 DEF Scope!Starting, Starts
<1>6. Starts(trail, k) = {j \in DOMAIN trail : trail[j].kind = "init"}
  BY <1>2 DEF Starts
<1>7. has => Scope!Starting(x)
  BY <1>3, <1>4, <1>5 DEF SeesInit
<1>8. ASSUME ~has, Scope!Starting(x) PROVE Cardinality(Starts(trail, k)) > 1
  <2>1. PICK a \in Starts(trail, k), d \in Starts(trail, k) : a # d
    BY <1>3, <1>4, <1>5, <1>8 DEF SeesInit
  <2>2. \A j_ \in Starts(trail, k) : j_ \in 1..k-1
    BY DEF Starts
  <2>3. QED
    BY <1>2, <2>1, <2>2, Several
<1>9. QED
  BY <1>6, <1>7, <1>8

(* The meaning of a write, from the innermost slot, binding and boundary.  *)
LEMMA MeaningIs ==
  ASSUME NEW x, NEW s, NEW b, NEW c, s = Scope!Innermost(Scope!SlotAt(x)),
         b = Scope!Innermost(Scope!BoundAt(x)), c = Scope!Boundary, s \in Nat, b \in Nat,
         Scope!SlotAt(x) = {} <=> s = 0, Scope!BoundAt(x) = {} <=> b = 0
  PROVE  Scope!Meaning(x) =
           IF s > b THEN IF s = c THEN "written" ELSE "outside"
           ELSE IF b = 0 THEN IF Scope!Starting(x) THEN "init" ELSE "unbound"
           ELSE IF s = 0 THEN "value"
           ELSE IF s = c THEN "shadowed" ELSE "outside"
<1>1. Scope!IsValue(x) <=> b >= s /\ b # 0
  BY DEF Scope!IsValue
<1>2. CASE s > b
  <2>1. ~Scope!IsValue(x) /\ Scope!SlotAt(x) # {}
    BY <1>1, <1>2
  <2>2. QED
    BY <1>2, <2>1 DEF Scope!Meaning
<1>3. CASE s <= b /\ b = 0
  <2>1. ~Scope!IsValue(x) /\ Scope!SlotAt(x) = {}
    BY <1>1, <1>3
  <2>2. QED
    BY <1>3, <2>1 DEF Scope!Meaning
<1>4. CASE s <= b /\ b # 0 /\ s = 0
  <2>1. Scope!IsValue(x) /\ Scope!SlotAt(x) = {}
    BY <1>1, <1>4
  <2>2. QED
    BY <1>4, <2>1 DEF Scope!Meaning
<1>5. CASE s <= b /\ b # 0 /\ s # 0
  <2>1. Scope!IsValue(x) /\ Scope!SlotAt(x) # {}
    BY <1>1, <1>5
  <2>2. QED
    BY <1>5, <2>1 DEF Scope!Meaning
<1>6. QED
  BY <1>2, <1>3, <1>4, <1>5

(* A slot of the nearest clause that is found is written.                  *)
LEMMA WrittenIs ==
  ASSUME NEW x, Scope!Here(Scope!Lookup(x)), ~Scope!None(Scope!Lookup(x))
  PROVE  Scope!Verdict(x) = "written"
  BY DEF Scope!Verdict

(* A verdict is what the write means.                                      *)
LEMMA WriteMeant ==
  ASSUME ScopeInv, Scope!InExpr, NEW x \in Names, ~Scope!InWhere(x)
  PROVE  \/ Scope!Verdict(x) = Scope!Meaning(x)
         \/ Scope!Meaning(x) = "init" /\ Scope!Verdict(x) = "unbound"
              /\ Cardinality({j \in DOMAIN trail : trail[j].kind = "init"}) > 1
<1>1. PICK k : k = Len(scopes) + 1
  OBVIOUS
<1>2. PICK s, b, c : /\ s = Scope!Innermost(Scope!SlotAt(x)) /\ b = Scope!Innermost(Scope!BoundAt(x))
                     /\ c = Scope!Boundary
  OBVIOUS
<1>3. /\ Stands(x, k, s, b, c)
      /\ Scope!SlotAt(x) = Slots(trail, k, x) /\ Scope!BoundAt(x) = Binding(trail, k, x)
  BY <1>1, <1>2, StandsIs
<1>4. PICK r, q : r = Scope!Lookup(x) /\ q = Scope!LookupBaton(x)
  OBVIOUS
<1>5. /\ Scope!None(r) <=> (b = 0 /\ s = 0)
      /\ ~Scope!None(r) => (r.baton <=> s > b)
      /\ Scope!None(q) <=> s = 0
      /\ Scope!Here(q) <=> (s # 0 /\ s = c)
      /\ Scope!Here(r) <=> (s > b /\ s = c)
  BY <1>1, <1>3, <1>4, FoundIs
<1>6. s \in Nat /\ b \in Nat
  BY <1>3 DEF Stands
<1>7. (Scope!SlotAt(x) = {} <=> s = 0) /\ (Scope!BoundAt(x) = {} <=> b = 0)
  <2>1. 0 \notin Slots(trail, k, x) /\ 0 \notin Binding(trail, k, x)
    BY DEF Slots, Binding
  <2>2. QED
    BY <1>3, <2>1 DEF Stands, IsLast
<1>8. PICK has \in BOOLEAN : has <=> \E j \in DOMAIN initb : initb[j].baton /\ initb[j].name = x
  OBVIOUS
<1>9. Scope!Meaning(x) =
           IF s > b THEN IF s = c THEN "written" ELSE "outside"
           ELSE IF b = 0 THEN IF Scope!Starting(x) THEN "init" ELSE "unbound"
           ELSE IF s = 0 THEN "value"
           ELSE IF s = c THEN "shadowed" ELSE "outside"
  BY <1>2, <1>6, <1>7, MeaningIs
<1>10. CASE s > b /\ s = c
  <2>1. Scope!Here(r) /\ ~Scope!None(r)
    BY <1>5, <1>6, <1>10
  <2>2. Scope!Verdict(x) = "written"
    BY <1>4, <2>1, WrittenIs
  <2>3. QED
    BY <1>9, <1>10, <2>2
<1>11. CASE s > b /\ s # c
  <2>1. ~Scope!Here(r) /\ ~Scope!None(r) /\ r.baton
    BY <1>5, <1>6, <1>11
  <2>2. Scope!Verdict(x) = "outside"
    BY <1>4, <2>1 DEF Scope!Verdict
  <2>3. QED
    BY <1>9, <1>11, <2>2
<1>12. CASE b = 0 /\ s = 0
  <2>1. ~Scope!Here(r) /\ Scope!None(r)
    BY <1>5, <1>12
  <2>2. ~r.baton
    <3>1. Finds(r, env, Hits(env, x)) /\ Hits(env, x) = {}
      <4>1. env \in Seq(Entry)
        <5>1. Walks(env, frame, initb, nframe, scopes, trail)
          BY DEF ScopeInv
        <5>2. QED
          BY <5>1, WalksIs
      <4>2. Hits(env, x) = {}
        BY <1>3, <1>12 DEF Stands, SeesName
      <4>3. QED
        BY <1>4, <4>1, <4>2, LookupFinds
    <3>2. QED
      BY <3>1 DEF Finds, IsLast
  <2>3. Scope!Verdict(x) = IF has THEN "init" ELSE "unbound"
    <3>1. Scope!Verdict(x) = IF \E j \in DOMAIN initb : initb[j].baton /\ initb[j].name = x
                             THEN "init" ELSE "unbound"
      BY <1>4, <2>1, <2>2 DEF Scope!Verdict
    <3>2. QED
      BY <1>8, <3>1
  <2>4. Scope!Meaning(x) = IF Scope!Starting(x) THEN "init" ELSE "unbound"
    BY <1>9, <1>12
  <2>5. Slots(trail, k, x) = {}
    BY <1>3, <1>7, <1>12
  <2>6. /\ has => Scope!Starting(x)
        /\ ~has /\ Scope!Starting(x) =>
              Cardinality({j \in DOMAIN trail : trail[j].kind = "init"}) > 1
    BY <1>1, <1>8, <2>5, InitIs
  <2>7. QED
    BY <2>3, <2>4, <2>6
<1>13. CASE s <= b /\ b # 0
  <2>1. ~Scope!Here(r) /\ ~Scope!None(r) /\ ~r.baton
    BY <1>5, <1>6, <1>13
  <2>2. Scope!Verdict(x) = IF Scope!Here(q) THEN "shadowed"
                           ELSE IF ~Scope!None(q) THEN "outside" ELSE "value"
    BY <1>4, <2>1 DEF Scope!Verdict
  <2>3. QED
    BY <1>5, <1>6, <1>9, <1>13, <2>2
<1>14. QED
  BY <1>6, <1>10, <1>11, <1>12, <1>13

(* The walk's Cardinality is the front end's.                              *)
LEMMA SameCount ==
  ASSUME NEW S
  PROVE  Scope!Cardinality(S) = Cardinality(S)
  BY DEF Scope!Cardinality, Cardinality

(* The walk starts outside everything.                                     *)
LEMMA ScopeStart ==
  ASSUME Scope!Init
  PROVE  ScopeInv
<1>1. env = <<>> /\ initb = <<>> /\ scopes = <<>> /\ trail = <<>> /\ frame = 0 /\ nframe = 0
  BY DEF Scope!Init
<1>2. PICK k : k = 1
  OBVIOUS
<1>3. \A x : /\ Slots(trail, k, x) = {} /\ Binding(trail, k, x) = {} /\ ~Hides(trail, k, x)
             /\ Hits(env, x) = {} /\ Batons(env, x) = {} /\ Batons(initb, x) = {}
  BY <1>1, <1>2 DEF Slots, Binding, Hides, Hits, Batons
<1>4. Fences(trail, k) = {} /\ Starts(trail, k) = {} /\ ~InHandler(scopes, k)
  BY <1>1, <1>2 DEF Fences, Starts, InHandler
<1>5. \A x \in Names : Sees(env, scopes, trail, k, x)
  BY <1>3 DEF Sees, SeesSlot, SeesName, IsLast
<1>6. SeesFrame(frame, scopes, trail, k)
  BY <1>1, <1>4 DEF SeesFrame, IsLast
<1>7. \A x \in Names : SeesInit(initb, trail, k, x)
  BY <1>3, <1>4 DEF SeesInit
<1>8. /\ env \in Seq(Entry) /\ initb \in Seq(Entry) /\ frame \in Nat /\ nframe \in Nat
      /\ Len(scopes) = 0 /\ Len(trail) = 0 /\ scopes \in Seq(ScopeEntry) /\ trail \in Seq(TrailPart)
  BY <1>1
<1>9. Level(env, frame, initb, nframe, scopes, trail, k)
  BY <1>2, <1>4, <1>5, <1>6, <1>7, <1>8 DEF Level
<1>10. ScopeShape(scopes, trail)
  BY <1>8 DEF ScopeShape
<1>11. ScopeLevels(env, frame, initb, nframe, scopes, trail)
  BY <1>2, <1>8, <1>9 DEF ScopeLevels
<1>12. QED
  BY <1>10, <1>11 DEF ScopeInv, Walks

(* A write is accepted exactly where its name means a slot of the handler    *)
(* whose clause is the nearest function around it, and a refused one is      *)
(* refused for the reason that holds (check_assign, sc_handler), for every   *)
(* set of names and every depth.                                           *)
THEOREM WritesLocal == FSpec => []WritesAreLocal
<1>1. FInit => ScopeInv
  BY ScopeStart DEF FInit
<1>2. ScopeInv /\ [FNext]_allVars => ScopeInv'
  <2>1. [FNext]_allVars => Scope!Next \/ UNCHANGED scopeVars
    BY DEF FNext, allVars, scopeVars
  <2>2. QED
    BY <2>1, ScopeNextInv
<1>3. ScopeInv => WritesAreLocal
  <2>1. ASSUME ScopeInv, Scope!InExpr, NEW x \in Names, ~Scope!InWhere(x)
        PROVE  \/ Scope!Verdict(x) = Scope!Meaning(x)
               \/ Scope!Meaning(x) = "init" /\ Scope!Verdict(x) = "unbound"
                    /\ Cardinality({j \in DOMAIN trail : trail[j].kind = "init"}) > 1
    BY <2>1, WriteMeant
  <2>2. ScopeInv => Scope!WritesAreLocal
    BY <2>1, SameCount DEF Scope!WritesAreLocal
  <2>3. QED
    BY <2>2 DEF WritesAreLocal
<1>4. QED
  BY <1>1, <1>2, <1>3, PTL DEF FSpec

-----------------------------------------------------------------------------
(* Operator fixity: what is defined by recursion.                          *)

\* Its values to n.
UpToStep(base, step, f, n) ==
  /\ f[0] = base /\ \A k \in 1 .. n : f[k] = step[<<k, f[k - 1]>>]

\* They exist.
LEMMA StepsTo ==
  ASSUME NEW A, NEW base \in A, NEW step \in [Nat \X A -> A], NEW n \in Nat
  PROVE  \E f \in [0 .. n -> A] : UpToStep(base, step, f, n)
<1> DEFINE T == {m \in Nat : ~\E f \in [0 .. m -> A] : UpToStep(base, step, f, m)}
<1>1. SUFFICES ASSUME T # {} PROVE FALSE
  OBVIOUS
<1>2. PICK m \in T : \A l \in T : m <= l
  BY <1>1, LeastExists
<1>3. m # 0
  <2> DEFINE f == [k \in 0 .. 0 |-> base]
  <2>1. f \in [0 .. 0 -> A] /\ UpToStep(base, step, f, 0)
    BY DEF UpToStep
  <2>2. QED
    BY <1>2, <2>1
<1>4. m - 1 \in Nat /\ m - 1 \notin T /\ m \in Nat
  BY <1>2, <1>3
<1>5. PICK f \in [0 .. m - 1 -> A] : UpToStep(base, step, f, m - 1)
  BY <1>4
<1> DEFINE v == step[<<m, f[m - 1]>>]
           g == [k \in 0 .. m |-> IF k = m THEN v ELSE f[k]]
<1>6. f[m - 1] \in A /\ v \in A
  BY <1>4, <1>5
<1> HIDE DEF v
<1>7. g \in [0 .. m -> A] /\ g[0] = base
  BY <1>3, <1>4, <1>5, <1>6 DEF UpToStep
<1>8. ASSUME NEW k \in 1 .. m PROVE g[k] = step[<<k, g[k - 1]>>]
  <2>1. g[k - 1] = f[k - 1]
    BY <1>4
  <2>2. CASE k = m
    <3>1. g[k] = v
      BY <2>2
    <3>2. v = step[<<k, f[k - 1]>>]
      BY <2>2 DEF v
    <3>3. QED
      BY <2>1, <3>1, <3>2
  <2>3. CASE k # m
    <3>1. k \in 1 .. m - 1 /\ g[k] = f[k]
      BY <1>4, <2>3
    <3>2. QED
      BY <1>5, <2>1, <3>1 DEF UpToStep
  <2>4. QED
    BY <2>2, <2>3
<1> HIDE DEF g
<1>9. UpToStep(base, step, g, m)
  BY <1>7, <1>8 DEF UpToStep
<1>10. QED
  BY <1>2, <1>7, <1>9

\* What a recursion's steps may be, and its first n values.
Stepper(A)             == [Nat \X A -> A]
Runs(A, base, step, n) ==
  {f \in [0 .. n -> A] : f[0] = base /\ \A k \in 1 .. n : f[k] = step[<<k, f[k - 1]>>]}

\* They exist.
LEMMA RecursionRuns ==
  ASSUME NEW A, NEW base \in A, NEW step \in Stepper(A), NEW n \in Nat
  PROVE  Runs(A, base, step, n) # {}
<1>1. PICK f \in [0 .. n -> A] : UpToStep(base, step, f, n)
  BY StepsTo DEF Stepper
<1>2. QED
  BY <1>1 DEF UpToStep, Runs

-----------------------------------------------------------------------------
(* The table.                                                              *)

Rels         == [name : Ops, tighter : BOOLEAN]
Declarations == [name : Ops, assoc : {"left", "right"}, rels : Seq(Rels)]

\* What a sequence holds, and that it holds nothing twice.
Listed(s) == {s[k] : k \in DOMAIN s}
Once(s)   == \A j, k \in DOMAIN s : s[j] = s[k] => j = k

\* The names of the first n neighbours.
NamesTo(rels, n) == {rels[k].name : k \in 1 .. n}

\* new_names collects the neighbours that have no entry, each once.
LEMMA NewNamesAre ==
  ASSUME NEW rels \in Seq(Rels), NEW have
  PROVE  LET s == Fixity!NewNames(rels, have)
         IN s \in Seq(Ops) /\ Once(s) /\ Listed(s) = NamesTo(rels, Len(rels)) \ have
<1> DEFINE n == Len(rels)
           step == [p \in Nat \X Seq(Ops) |->
                      IF p[1] \in 1 .. n /\ rels[p[1]].name \notin have \cup Listed(p[2])
                      THEN Append(p[2], rels[p[1]].name) ELSE p[2]]
           Is(f) == f = [k \in 0 .. n |->
                           IF k = 0 THEN <<>>
                           ELSE IF rels[k].name \in have \cup Listed(f[k - 1]) THEN f[k - 1]
                           ELSE Append(f[k - 1], rels[k].name)]
<1>1. n \in Nat /\ \A k \in 1 .. n : rels[k] \in Rels /\ rels[k].name \in Ops
  <2>1. n \in Nat /\ \A k \in 1 .. n : rels[k] \in Rels
    OBVIOUS
  <2>2. \A r \in Rels : r.name \in Ops
    BY DEF Rels
  <2>3. QED
    BY <2>1, <2>2
<1> HIDE DEF n
<1>2. step \in [Nat \X Seq(Ops) -> Seq(Ops)]
  BY <1>1
<1>3. <<>> \in Seq(Ops)
  OBVIOUS
<1>5. \E f : Is(f)
  <2> HIDE DEF step
  <2>1. PICK f \in [0 .. n -> Seq(Ops)] : f[0] = <<>> /\ \A k \in 1 .. n : f[k] = step[<<k, f[k - 1]>>]
    <3>1. step \in Stepper(Seq(Ops)) /\ n \in Nat
      BY <1>1, <1>2 DEF Stepper
    <3>2. Runs(Seq(Ops), <<>>, step, n) # {}
      BY <1>3, <3>1, RecursionRuns, Zenon
    <3>3. QED
      BY <3>2 DEF Runs
  <2> USE DEF step
  <2>2. ASSUME NEW k \in 1 .. n
        PROVE f[k] = IF rels[k].name \in have \cup Listed(f[k - 1]) THEN f[k - 1]
                     ELSE Append(f[k - 1], rels[k].name)
    <3>1. k - 1 \in 0 .. n /\ f[k - 1] \in Seq(Ops) /\ <<k, f[k - 1]>> \in Nat \X Seq(Ops)
      BY <1>1, <2>1
    <3>2. QED
      BY <2>1, <3>1
  <2>3. \A k \in 0 .. n : f[k] = IF k = 0 THEN <<>>
                                ELSE IF rels[k].name \in have \cup Listed(f[k - 1]) THEN f[k - 1]
                                ELSE Append(f[k - 1], rels[k].name)
    <3>1. \A k \in 0 .. n : k = 0 \/ k \in 1 .. n
      BY <1>1
    <3>2. QED
      BY <2>1, <2>2, <3>1, Zenon
  <2>4. f = [k \in 0 .. n |-> f[k]]
    BY <2>1
  <2>5. Is(f)
    BY <2>3, <2>4, Zenon
  <2>6. QED
    BY <2>5
<1>6. Fixity!NewNames(rels, have) = (CHOOSE f : Is(f))[n]
  BY Zenon DEF Fixity!NewNames, Fixity!ToSet, Listed, n
<1> DEFINE f == CHOOSE g : Is(g)
<1>7. Is(f)
  BY <1>5
<1> HIDE DEF f, step
<1>8. /\ f[0] = <<>>
      /\ \A k \in 1 .. n : f[k] = IF rels[k].name \in have \cup Listed(f[k - 1]) THEN f[k - 1]
                                ELSE Append(f[k - 1], rels[k].name)
  <2>1. \A k \in 0 .. n : f[k] = IF k = 0 THEN <<>>
                                ELSE IF rels[k].name \in have \cup Listed(f[k - 1]) THEN f[k - 1]
                                ELSE Append(f[k - 1], rels[k].name)
    BY <1>7, Zenon
  <2>2. QED
    BY <1>1, <2>1
<1> DEFINE Right(k) == f[k] \in Seq(Ops) /\ Once(f[k]) /\ Listed(f[k]) = NamesTo(rels, k) \ have
           T == {k \in 0 .. n : ~Right(k)}
<1>9. T = {}
  <2>1. SUFFICES ASSUME T # {} PROVE FALSE
    OBVIOUS
  <2> HIDE DEF Right
  <2>2. PICK k \in T : \A l \in T : k <= l
    <3>1. T \subseteq Nat
      BY <1>1
    <3>2. QED
      BY <2>1, <3>1, LeastExists
  <2>3. k # 0
    <3>1. Right(0)
      <4>1. f[0] = <<>>
        BY <1>8
      <4>2. Listed(f[0]) = {} /\ Once(f[0]) /\ f[0] \in Seq(Ops)
        BY <4>1 DEF Listed, Once
      <4>3. NamesTo(rels, 0) = {}
        BY DEF NamesTo
      <4>4. QED
        BY <4>2, <4>3 DEF Right
    <3>2. QED
      BY <2>2, <3>1
  <2>4. k \in 1 .. n /\ k - 1 \in 0 .. n /\ Right(k - 1)
    BY <1>1, <2>2, <2>3
  <2> USE DEF Right
  <2>5. NamesTo(rels, k) = NamesTo(rels, k - 1) \cup {rels[k].name}
    BY <2>4 DEF NamesTo
  <2>6. CASE rels[k].name \in have \cup Listed(f[k - 1])
    BY <1>8, <2>2, <2>4, <2>5, <2>6
  <2>7. CASE rels[k].name \notin have \cup Listed(f[k - 1])
    <3> DEFINE s == f[k - 1]
               x == rels[k].name
    <3>1. f[k] = Append(s, x) /\ s \in Seq(Ops) /\ x \in Ops /\ Once(s)
      BY <1>1, <1>8, <2>4, <2>7
    <3> HIDE DEF s, x
    <3>2. /\ DOMAIN Append(s, x) = 1 .. Len(s) + 1 /\ DOMAIN s = 1 .. Len(s) /\ Len(s) \in Nat
          /\ \A h \in 1 .. Len(s) + 1 : Append(s, x)[h] = IF h = Len(s) + 1 THEN x ELSE s[h]
      BY <3>1
    <3>3. Listed(Append(s, x)) = Listed(s) \cup {x}
      BY <3>2 DEF Listed
    <3>4. Once(Append(s, x))
      BY <2>7, <3>1, <3>2 DEF Once, Listed, s, x
    <3>5. Listed(f[k]) = NamesTo(rels, k) \ have
      <4>1. Listed(s) = NamesTo(rels, k - 1) \ have /\ x \notin have
        BY <2>4, <2>7 DEF s, x
      <4>2. QED
        BY <2>5, <3>1, <3>3, <4>1 DEF x
    <3>6. f[k] \in Seq(Ops) /\ Once(f[k])
      BY <3>1, <3>4
    <3>7. QED
      BY <2>2, <3>5, <3>6
  <2>8. QED
    BY <2>6, <2>7
<1>10. n \in 0 .. n /\ Right(n)
  BY <1>1, <1>9
<1>11. QED
  BY <1>6, <1>10 DEF f, n

\* A sequence with one more.
LEMMA Longer ==
  ASSUME NEW S, NEW s \in Seq(S), NEW x \in S
  PROVE  /\ Append(s, x) \in Seq(S) /\ Len(s) \in Nat /\ DOMAIN s = 1 .. Len(s)
         /\ DOMAIN Append(s, x) = 1 .. Len(s) + 1 /\ Append(s, x)[Len(s) + 1] = x
         /\ \A k \in 1 .. Len(s) : Append(s, x)[k] = s[k]
         /\ Listed(Append(s, x)) = Listed(s) \cup {x}
<1>1. /\ Append(s, x) \in Seq(S) /\ Len(s) \in Nat /\ DOMAIN s = 1 .. Len(s)
      /\ DOMAIN Append(s, x) = 1 .. Len(s) + 1 /\ Append(s, x)[Len(s) + 1] = x
      /\ \A k \in 1 .. Len(s) : Append(s, x)[k] = s[k]
  OBVIOUS
<1>2. QED
  BY <1>1 DEF Listed

\* Two sequences in one.
LEMMA Joined ==
  ASSUME NEW S, NEW s \in Seq(S), NEW t \in Seq(S), Once(s), Once(t), Listed(s) \cap Listed(t) = {}
  PROVE  s \o t \in Seq(S) /\ Listed(s \o t) = Listed(s) \cup Listed(t) /\ Once(s \o t)
<1>1. /\ s \o t \in Seq(S) /\ Len(s) \in Nat /\ Len(t) \in Nat
      /\ DOMAIN s = 1 .. Len(s) /\ DOMAIN t = 1 .. Len(t) /\ DOMAIN (s \o t) = 1 .. Len(s) + Len(t)
      /\ \A k \in 1 .. Len(s) : (s \o t)[k] = s[k]
      /\ \A k \in 1 .. Len(s) + Len(t) : k > Len(s) => (s \o t)[k] = t[k - Len(s)]
  OBVIOUS
<1>2. ASSUME NEW k \in 1 .. Len(t) PROVE k + Len(s) \in DOMAIN (s \o t) /\ (s \o t)[k + Len(s)] = t[k]
  BY <1>1
<1>3. Listed(s \o t) = Listed(s) \cup Listed(t)
  <2>1. ASSUME NEW k \in DOMAIN (s \o t) PROVE (s \o t)[k] \in Listed(s) \cup Listed(t)
    <3>1. CASE k \in 1 .. Len(s)
      BY <1>1, <3>1 DEF Listed
    <3>2. CASE k > Len(s)
      BY <1>1, <3>2 DEF Listed
    <3>3. QED
      BY <1>1, <3>1, <3>2
  <2>2. ASSUME NEW k \in DOMAIN s PROVE s[k] \in Listed(s \o t)
    BY <1>1 DEF Listed
  <2>3. ASSUME NEW k \in DOMAIN t PROVE t[k] \in Listed(s \o t)
    BY <1>1, <1>2 DEF Listed
  <2>4. Listed(s \o t) \subseteq Listed(s) \cup Listed(t)
    BY <2>1 DEF Listed
  <2>5. Listed(s) \subseteq Listed(s \o t)
    BY <2>2 DEF Listed
  <2>6. Listed(t) \subseteq Listed(s \o t)
    BY <2>3 DEF Listed
  <2>7. QED
    BY <2>4, <2>5, <2>6
<1>4. ASSUME NEW j \in DOMAIN (s \o t), NEW k \in DOMAIN (s \o t), (s \o t)[j] = (s \o t)[k]
      PROVE  j = k
  <2>1. \A h \in DOMAIN (s \o t) :
          \/ h \in DOMAIN s /\ (s \o t)[h] = s[h] /\ s[h] \in Listed(s)
          \/ h - Len(s) \in DOMAIN t /\ (s \o t)[h] = t[h - Len(s)] /\ t[h - Len(s)] \in Listed(t)
    BY <1>1 DEF Listed
  <2>2. CASE j \in DOMAIN s /\ k \in DOMAIN s
    BY <1>1, <1>4, <2>2 DEF Once
  <2>3. CASE j - Len(s) \in DOMAIN t /\ k - Len(s) \in DOMAIN t
    <3>1. t[j - Len(s)] = t[k - Len(s)]
      BY <1>1, <1>4, <2>3
    <3>2. QED
      BY <1>1, <2>3, <3>1 DEF Once
  <2>4. QED
    BY <1>1, <1>4, <2>1, <2>2, <2>3
<1>5. QED
  BY <1>1, <1>3, <1>4 DEF Once

\* The ends of edges; the declarations that count, and what they state.
Ends(E)      == UNION {{e[1], e[2]} : e \in E}
Winners(ds)  == {k \in DOMAIN ds : \A j \in 1 .. k - 1 : ds[j].name # ds[k].name}
StatedBy(ds) == UNION {Fixity!EdgesOf(ds[k]) : k \in Winners(ds)}
Heads(ds)    == {ds[k].name : k \in DOMAIN ds}

\* The table of some declarations: entries, associativity, and which one it kept.
Table(ds, ks, as, da) ==
  /\ ds \in Seq(Declarations) /\ ks \in Seq(Ops) /\ Once(ks)
  /\ as \in [Ops -> {"left", "right"}] /\ da \in [Ops -> Nat]
  /\ \A o \in Ops : da[o] # 0 => da[o] \in Winners(ds) /\ ds[da[o]].name = o /\ as[o] = ds[da[o]].assoc
  /\ \A o \in Heads(ds) : da[o] # 0
  /\ Listed(ks) = Heads(ds) \cup Ends(StatedBy(ds))

\* The ends of a declaration's edges are its operator and the neighbours.
LEMMA EdgeEnds ==
  ASSUME NEW d \in Declarations
  PROVE  /\ Fixity!EdgesOf(d) \subseteq Ops \X Ops
         /\ {d.name} \cup Ends(Fixity!EdgesOf(d)) = {d.name} \cup NamesTo(d.rels, Len(d.rels))
<1>1. d.name \in Ops /\ d.rels \in Seq(Rels)
  BY DEF Declarations
<1>2. /\ DOMAIN d.rels = 1 .. Len(d.rels)
      /\ \A k \in 1 .. Len(d.rels) : d.rels[k] \in Rels
  BY <1>1
<1>3. \A r \in Rels : r.name \in Ops
  BY DEF Rels
<1> DEFINE edge(r) == IF r.tighter THEN <<d.name, r.name>> ELSE <<r.name, d.name>>
<1>4. Fixity!EdgesOf(d) = {edge(d.rels[k]) : k \in 1 .. Len(d.rels)}
  BY <1>2 DEF Fixity!EdgesOf, Fixity!ToSet
<1>5. \A r \in Rels : edge(r) \in Ops \X Ops /\ {edge(r)[1], edge(r)[2]} = {d.name, r.name}
  BY <1>1, <1>3
<1> HIDE DEF edge
<1>6. Fixity!EdgesOf(d) \subseteq Ops \X Ops
  BY <1>2, <1>4, <1>5
<1>7. Ends(Fixity!EdgesOf(d)) = UNION {{d.name, d.rels[k].name} : k \in 1 .. Len(d.rels)}
  <2>1. Ends(Fixity!EdgesOf(d)) = UNION {{edge(d.rels[k])[1], edge(d.rels[k])[2]} : k \in 1 .. Len(d.rels)}
    BY <1>4 DEF Ends
  <2>2. \A k \in 1 .. Len(d.rels) : {edge(d.rels[k])[1], edge(d.rels[k])[2]} = {d.name, d.rels[k].name}
    BY <1>2, <1>5
  <2>3. QED
    BY <2>1, <2>2
<1>8. QED
  BY <1>6, <1>7 DEF NamesTo

\* A declaration counts unless its operator has one.
LEMMA WinnersGrow ==
  ASSUME NEW ds \in Seq(Declarations), NEW d \in Declarations
  PROVE  /\ Winners(Append(ds, d)) = Winners(ds) \cup (IF d.name \in Heads(ds) THEN {} ELSE {Len(ds) + 1})
         /\ StatedBy(Append(ds, d)) =
              StatedBy(ds) \cup (IF d.name \in Heads(ds) THEN {} ELSE Fixity!EdgesOf(d))
         /\ Heads(Append(ds, d)) = Heads(ds) \cup {d.name}
<1> DEFINE n == Len(ds)
           es == Append(ds, d)
<1>1. /\ n \in Nat /\ DOMAIN ds = 1 .. n /\ DOMAIN es = 1 .. n + 1 /\ es[n + 1] = d
      /\ \A k \in 1 .. n : es[k] = ds[k]
  BY Longer
<1> HIDE DEF n, es
<1>2. ASSUME NEW k \in 1 .. n PROVE k \in Winners(es) <=> k \in Winners(ds)
  BY <1>1 DEF Winners
<1>3. n + 1 \in Winners(es) <=> d.name \notin Heads(ds)
  <2>1. n + 1 \in Winners(es) <=> \A j \in 1 .. n : es[j].name # d.name
    BY <1>1 DEF Winners
  <2>2. QED
    BY <1>1, <2>1 DEF Heads
<1>4. Winners(es) \subseteq 1 .. n + 1 /\ Winners(ds) \subseteq 1 .. n
  BY <1>1 DEF Winners
<1>5. Winners(es) = Winners(ds) \cup (IF d.name \in Heads(ds) THEN {} ELSE {n + 1})
  <2>1. \A k \in 1 .. n + 1 : k \in 1 .. n \/ k = n + 1
    BY <1>1
  <2>2. n + 1 \notin 1 .. n
    BY <1>1
  <2>3. QED
    BY <1>1, <1>2, <1>3, <1>4, <2>1, <2>2
<1>6. Heads(es) = Heads(ds) \cup {d.name}
  BY <1>1 DEF Heads
<1>7. StatedBy(es) = StatedBy(ds) \cup (IF d.name \in Heads(ds) THEN {} ELSE Fixity!EdgesOf(d))
  BY <1>1, <1>4, <1>5 DEF StatedBy
<1>8. QED
  BY <1>5, <1>6, <1>7 DEF n, es

\* Pass 1 keeps the table right.
LEMMA ReadKept ==
  ASSUME NEW ds, NEW ks, NEW as, NEW da, Table(ds, ks, as, da), NEW d \in Declarations,
         d.name \notin Heads(ds),
         NEW head, head = (IF d.name \in Listed(ks) THEN ks ELSE Append(ks, d.name))
  PROVE  Table(Append(ds, d), head \o Fixity!NewNames(d.rels, Listed(head)),
               [as EXCEPT ![d.name] = d.assoc], [da EXCEPT ![d.name] = Len(ds) + 1])
<1> DEFINE x  == d.name
           n  == Len(ds)
           es == Append(ds, d)
           nn == Fixity!NewNames(d.rels, Listed(head))
           bs == [as EXCEPT ![d.name] = d.assoc]
           db == [da EXCEPT ![d.name] = Len(ds) + 1]
<1>1. x \in Ops /\ d.rels \in Seq(Rels) /\ d.assoc \in {"left", "right"}
  BY DEF Declarations
<1>2. /\ ds \in Seq(Declarations) /\ ks \in Seq(Ops) /\ Once(ks)
      /\ as \in [Ops -> {"left", "right"}] /\ da \in [Ops -> Nat]
      /\ Listed(ks) = Heads(ds) \cup Ends(StatedBy(ds))
  BY DEF Table
<1>3. /\ es \in Seq(Declarations) /\ n \in Nat /\ DOMAIN ds = 1 .. n /\ es[n + 1] = d
      /\ \A k \in 1 .. n : es[k] = ds[k]
  BY <1>2, Longer
<1>4. head \in Seq(Ops) /\ Once(head) /\ Listed(head) = Listed(ks) \cup {x}
  <2>1. CASE x \in Listed(ks)
    BY <1>2, <2>1
  <2>2. CASE x \notin Listed(ks)
    <3>1. head = Append(ks, x)
      BY <2>2
    <3>2. Once(Append(ks, x))
      BY <1>1, <1>2, <2>2, Longer DEF Once, Listed
    <3>3. QED
      BY <1>1, <1>2, <3>1, <3>2, Longer
  <2>3. QED
    BY <2>1, <2>2
<1>5. nn \in Seq(Ops) /\ Once(nn) /\ Listed(nn) = NamesTo(d.rels, Len(d.rels)) \ Listed(head)
  BY <1>1, NewNamesAre
<1>6. /\ Winners(es) = Winners(ds) \cup {n + 1}
      /\ StatedBy(es) = StatedBy(ds) \cup Fixity!EdgesOf(d)
      /\ Heads(es) = Heads(ds) \cup {x}
  BY <1>2, WinnersGrow
<1> HIDE DEF x, n, es, nn
<1>7. head \o nn \in Seq(Ops) /\ Once(head \o nn) /\ Listed(head \o nn) = Listed(head) \cup Listed(nn)
  <2>1. Listed(head) \cap Listed(nn) = {}
    BY <1>5
  <2>2. QED
    BY <1>4, <1>5, <2>1, Joined
<1>8. Listed(head \o nn) = Heads(es) \cup Ends(StatedBy(es))
  <2>1. Ends(StatedBy(es)) = Ends(StatedBy(ds)) \cup Ends(Fixity!EdgesOf(d))
    BY <1>6 DEF Ends
  <2>2. {x} \cup Ends(Fixity!EdgesOf(d)) = {x} \cup NamesTo(d.rels, Len(d.rels))
    BY EdgeEnds DEF x
  <2>3. QED
    BY <1>2, <1>4, <1>5, <1>6, <1>7, <2>1, <2>2
<1>9. bs \in [Ops -> {"left", "right"}] /\ db \in [Ops -> Nat]
  <2>1. n + 1 \in Nat
    BY <1>3
  <2>2. db = [da EXCEPT ![x] = n + 1] /\ bs = [as EXCEPT ![x] = d.assoc]
    BY DEF n, x
  <2> HIDE DEF bs, db
  <2>3. QED
    BY <1>1, <1>2, <2>1, <2>2
<1>10. ASSUME NEW o \in Ops, db[o] # 0
       PROVE  db[o] \in Winners(es) /\ es[db[o]].name = o /\ bs[o] = es[db[o]].assoc
  <2>1. CASE o = x
    BY <1>1, <1>2, <1>3, <1>6, <2>1 DEF x, n
  <2>2. CASE o # x
    <3>1. db[o] = da[o] /\ bs[o] = as[o]
      BY <1>2, <2>2 DEF x
    <3>2. da[o] \in Winners(ds) /\ ds[da[o]].name = o /\ as[o] = ds[da[o]].assoc
      BY <1>10, <3>1 DEF Table
    <3>3. da[o] \in 1 .. n
      BY <1>3, <3>2 DEF Winners
    <3>4. QED
      BY <1>3, <1>6, <3>1, <3>2, <3>3
  <2>3. QED
    BY <2>1, <2>2
<1>11. ASSUME NEW o \in Heads(es) PROVE db[o] # 0
  <2>1. CASE o = x
    BY <1>1, <1>2, <1>3, <2>1 DEF x, n
  <2>2. CASE o # x
    <3>1. o \in Heads(ds)
      BY <1>6, <2>2
    <3>2. o \in Ops
      <4>1. \A e \in Declarations : e.name \in Ops
        BY DEF Declarations
      <4>2. \A k \in 1 .. n : ds[k] \in Declarations
        BY <1>2, <1>3
      <4>3. QED
        BY <1>3, <3>1, <4>1, <4>2 DEF Heads
    <3>3. QED
      BY <1>2, <2>2, <3>1, <3>2 DEF Table, x
  <2>3. QED
    BY <2>1, <2>2
<1>12. QED
  BY <1>3, <1>7, <1>8, <1>9, <1>10, <1>11 DEF Table, es, nn

\* A second declaration of an operator changes nothing.
LEMMA ReadDropped ==
  ASSUME NEW ds, NEW ks, NEW as, NEW da, Table(ds, ks, as, da), NEW d \in Declarations,
         d.name \in Heads(ds)
  PROVE  Table(Append(ds, d), ks, as, da)
<1> DEFINE n  == Len(ds)
           es == Append(ds, d)
<1>1. /\ ds \in Seq(Declarations) /\ Listed(ks) = Heads(ds) \cup Ends(StatedBy(ds))
  BY DEF Table
<1>2. /\ es \in Seq(Declarations) /\ n \in Nat /\ DOMAIN ds = 1 .. n
      /\ \A k \in 1 .. n : es[k] = ds[k]
  BY <1>1, Longer
<1>3. Winners(es) = Winners(ds) /\ StatedBy(es) = StatedBy(ds) /\ Heads(es) = Heads(ds)
  <2>1. /\ Winners(es) = Winners(ds) \cup {}
        /\ StatedBy(es) = StatedBy(ds) \cup {}
        /\ Heads(es) = Heads(ds) \cup {d.name}
    BY <1>1, WinnersGrow, Zenon
  <2> HIDE DEF es
  <2>2. QED
    BY <2>1
<1> HIDE DEF n, es
<1>4. \A k \in Winners(ds) : es[k] = ds[k]
  BY <1>2 DEF Winners
<1>5. QED
  BY <1>1, <1>2, <1>3, <1>4 DEF Table, es
-----------------------------------------------------------------------------
(* The order.                                                              *)

\* Whoever reaches r reaches what r does; so for every r.
Closes(E, r)  == \A a, b : <<a, r>> \in E /\ <<r, b>> \in E => <<a, b>> \in E
Transitive(E) == \A r : Closes(E, r)

\* A round of Warshall closes its row and opens none.
Round(S, E, r) == E \cup {e \in S \X S : <<e[1], r>> \in E /\ <<r, e[2]>> \in E}
LEMMA Warshall ==
  ASSUME NEW S, NEW E \in SUBSET (S \X S), NEW r
  PROVE  /\ Round(S, E, r) \in SUBSET (S \X S) /\ Closes(Round(S, E, r), r)
         /\ \A k : Closes(E, k) => Closes(Round(S, E, r), k)
<1> DEFINE F == Round(S, E, r)
<1>1. \A a, b : <<a, b>> \in E => a \in S /\ b \in S
  OBVIOUS
<1>2. \A a, b : <<a, b>> \in F <=> <<a, b>> \in E \/ (<<a, r>> \in E /\ <<r, b>> \in E)
  BY <1>1 DEF Round
<1>3. Closes(F, r)
  BY <1>2 DEF Closes
<1>4. ASSUME NEW k, Closes(E, k) PROVE Closes(F, k)
  BY <1>2, <1>4 DEF Closes
<1>5. QED
  BY <1>3, <1>4 DEF Round

\* One doubling of the reach.
Further(S, E) == E \cup {e \in S \X S : \E o \in S : <<e[1], o>> \in E /\ <<o, e[2]>> \in E}
IsReach(S, E, n, f) == f = [k \in 0 .. n |-> IF k = 0 THEN E ELSE Further(S, f[k - 1])]
Reach(S, E, n)      == CHOOSE f : IsReach(S, E, n, f)

LEMMA ReachSteps ==
  ASSUME NEW S, NEW E \in SUBSET (S \X S), NEW n \in Nat
  PROVE  /\ Reach(S, E, n)[0] = E
         /\ \A k \in 1 .. n : Reach(S, E, n)[k] = Further(S, Reach(S, E, n)[k - 1])
<1> DEFINE A == SUBSET (S \X S)
           step == [p \in Nat \X A |-> Further(S, p[2])]
<1>1. step \in Stepper(A)
  BY DEF Further, Stepper
<1>2. PICK f \in [0 .. n -> A] : f[0] = E /\ \A k \in 1 .. n : f[k] = step[<<k, f[k - 1]>>]
  <2> HIDE DEF step
  <2>1. E \in A
    OBVIOUS
  <2>2. Runs(A, E, step, n) # {}
    BY <1>1, <2>1, RecursionRuns, Zenon
  <2>3. QED
    BY <2>2 DEF Runs
<1>3. ASSUME NEW k \in 1 .. n PROVE f[k] = Further(S, f[k - 1])
  <2>1. k - 1 \in 0 .. n /\ <<k, f[k - 1]>> \in Nat \X A
    BY <1>2
  <2>2. QED
    BY <1>2, <2>1
<1>4. \A k \in 0 .. n : k = 0 \/ k \in 1 .. n
  OBVIOUS
<1>5. \A k \in 0 .. n : f[k] = IF k = 0 THEN E ELSE Further(S, f[k - 1])
  BY <1>2, <1>3, <1>4, Zenon
<1>6. f = [k \in 0 .. n |-> f[k]]
  BY <1>2
<1>7. IsReach(S, E, n, f)
  BY <1>5, <1>6, Zenon DEF IsReach
<1>8. IsReach(S, E, n, Reach(S, E, n))
  BY <1>7, Zenon DEF Reach
<1> DEFINE g == Reach(S, E, n)
<1>9. \A k \in 0 .. n : g[k] = IF k = 0 THEN E ELSE Further(S, g[k - 1])
  BY <1>8, Zenon DEF IsReach
<1> HIDE DEF g
<1>10. g[0] = E /\ \A k \in 1 .. n : g[k] = Further(S, g[k - 1])
  BY <1>9
<1>11. QED
  BY <1>10 DEF g

\* What contains the statements and is transitive contains their reach.
LEMMA ReachLeast ==
  ASSUME NEW S, NEW E \in SUBSET (S \X S), NEW n \in Nat, NEW T, E \subseteq T, Transitive(T)
  PROVE  \A k \in 0 .. n : Reach(S, E, n)[k] \subseteq T
<1> DEFINE g == Reach(S, E, n)
           B == {k \in 0 .. n : ~(g[k] \subseteq T)}
<1>1. g[0] = E /\ \A k \in 1 .. n : g[k] = Further(S, g[k - 1])
  BY ReachSteps
<1>2. SUFFICES ASSUME B # {} PROVE FALSE
  OBVIOUS
<1> HIDE DEF g
<1>3. PICK k \in B : \A l \in B : k <= l
  <2>1. B \subseteq Nat
    OBVIOUS
  <2>2. QED
    BY <1>2, <2>1, LeastExists
<1>4. k \in 1 .. n /\ k - 1 \in 0 .. n /\ g[k - 1] \subseteq T
  BY <1>1, <1>3
<1>5. g[k] = Further(S, g[k - 1])
  BY <1>1, <1>4
<1>6. ASSUME NEW e \in Further(S, g[k - 1]) PROVE e \in T
  <2>1. CASE e \in g[k - 1]
    BY <1>4, <2>1
  <2>2. CASE e \notin g[k - 1]
    <3>1. PICK o \in S : e \in S \X S /\ <<e[1], o>> \in g[k - 1] /\ <<o, e[2]>> \in g[k - 1]
      BY <1>6, <2>2 DEF Further
    <3>2. <<e[1], o>> \in T /\ <<o, e[2]>> \in T /\ e = <<e[1], e[2]>>
      BY <1>4, <3>1
    <3>3. QED
      BY <3>2 DEF Transitive, Closes
  <2>3. QED
    BY <2>1, <2>2
<1>7. QED
  BY <1>3, <1>5, <1>6

\* A sequence that repeats nothing is as long as its elements are many.
LEMMA OnceSize ==
  ASSUME NEW s \in Seq(Ops), Once(s)
  PROVE  Cardinality(Listed(s)) = Len(s) /\ IsFiniteSet(Listed(s))
<1> DEFINE f == [k \in 1 .. Len(s) |-> s[k]]
<1>1. Len(s) \in Nat /\ DOMAIN s = 1 .. Len(s)
  OBVIOUS
<1>2. f \in Bijection(1 .. Len(s), Listed(s))
  <2>1. f \in [1 .. Len(s) -> Listed(s)]
    BY <1>1 DEF Listed
  <2>2. f \in Injection(1 .. Len(s), Listed(s))
    BY <1>1, <2>1 DEF Injection, IsInjective, Once
  <2>3. f \in Surjection(1 .. Len(s), Listed(s))
    BY <1>1, <2>1 DEF Surjection, Listed
  <2>4. QED
    BY <2>2, <2>3 DEF Bijection
<1>3. QED
  <2>1. ExistsBijection(1 .. Len(s), Listed(s))
    BY <1>2, Zenon DEF ExistsBijection
  <2>2. IsFiniteSet(1 .. Len(s))
    BY <1>1, FS_Interval
  <2>3. IsFiniteSet(Listed(s))
    BY <2>1, <2>2, FS_Bijection, Zenon
  <2>4. Cardinality(Listed(s)) = Len(s)
    BY <1>1, <2>1, FS_CountingElements, Zenon
  <2>5. QED
    BY <2>3, <2>4

LEMMA ClosedIs ==
  ASSUME known \in Seq(Ops), Once(known), NEW E
  PROVE  Fixity!Closed(E) = Reach(Listed(known), E, Len(known))[Len(known)]
<1>1. Fixity!Entries = Listed(known)
  BY DEF Fixity!Entries, Fixity!ToSet, Listed
<1>2. Fixity!Cardinality(Fixity!Entries) = Len(known)
  <2>1. Fixity!Cardinality(Fixity!Entries) = Cardinality(Listed(known))
    BY <1>1 DEF Fixity!Cardinality, Cardinality
  <2>2. QED
    BY <2>1, OnceSize
<1>3. QED
  <2>1. Fixity!Closed(E) = Reach(Fixity!Entries, E, Fixity!Cardinality(Fixity!Entries))
                             [Fixity!Cardinality(Fixity!Entries)]
    BY Zenon DEF Fixity!Closed, Reach, IsReach, Further
  <2>2. QED
    BY <1>1, <1>2, <2>1, Zenon

\* The edges of the declarations before n that count.
Drawn(ds, n) == UNION {Fixity!EdgesOf(ds[k]) : k \in {j \in Winners(ds) : j < n}}
Reached(n)   == order \subseteq Reach(Listed(known), StatedBy(decls), Len(known))[n]
RingHeads    == {known[k] : k \in {j \in DOMAIN known : Fixity!RingHead(j)}}

FixTypes ==
  /\ stage \in {"names", "edges", "closure", "rings", "chains"}
  /\ known \in Seq(Ops) /\ Once(known) /\ chain \in Seq(Ops)
  /\ assoc \in [Ops -> {"left", "right"}] /\ declAt \in [Ops -> Nat]
  /\ order \in SUBSET (Listed(known) \X Listed(known))

\* What each stage has made of the table and the order.
StagesRight ==
  /\ stage = "names" => order = {} /\ rings = {}
  /\ stage = "edges" => next \in 1 .. Len(decls) /\ order = Drawn(decls, next)
  /\ stage = "closure" => /\ next \in 1 .. Len(known)
                          /\ StatedBy(decls) \subseteq order /\ Reached(next - 1)
                          /\ \A k \in 1 .. next - 1 : Closes(order, known[k])
  /\ stage \in {"rings", "chains"} => Transitive(order)
  /\ stage \in {"rings", "chains"} /\ chain = <<>> =>
       StatedBy(decls) \subseteq order /\ Reached(Len(known))
  /\ stage = "chains" /\ chain = <<>> => rings = RingHeads

FixInv ==
  /\ FixTypes
  /\ stage # "chains" => chain = <<>>
  /\ chain = <<>> => Table(decls, known, assoc, declAt)
  /\ StagesRight

LEMMA FixInit == FInit => FixInv
<1> SUFFICES ASSUME FInit PROVE FixInv
  OBVIOUS
<1>1. /\ stage = "names" /\ decls = <<>> /\ known = <<>> /\ chain = <<>>
      /\ assoc = [o \in Ops |-> "left"] /\ declAt = [o \in Ops |-> 0] /\ order = {} /\ rings = {}
  BY DEF FInit, Fixity!Init
<1>2. FixTypes /\ stage = "names"
  BY <1>1 DEF FixTypes, Once
<1>3. Table(decls, known, assoc, declAt)
  <2>1. DOMAIN decls = {} /\ DOMAIN known = {}
    BY <1>1
  <2>2. Heads(decls) = {} /\ Winners(decls) = {} /\ Listed(known) = {}
    BY <2>1 DEF Heads, Winners, Listed
  <2>3. StatedBy(decls) = {} /\ Ends(StatedBy(decls)) = {}
    BY <2>2 DEF StatedBy, Ends
  <2>4. decls \in Seq(Declarations)
    BY <1>1
  <2>5. QED
    BY <1>1, <1>2, <2>2, <2>3, <2>4 DEF Table, FixTypes
<1>4. StagesRight
  BY <1>1 DEF StagesRight
<1>5. QED
  BY <1>1, <1>2, <1>3, <1>4 DEF FixInv

\* A declaration of the grammar is one.
LEMMA DeclIs == Fixity!Decls \subseteq Declarations
<1> SUFFICES ASSUME NEW d \in Fixity!Decls PROVE d \in Declarations
  OBVIOUS
<1>1. d \in [name : Ops, assoc : {"left", "right"}, rels : UNION {[1 .. n -> Rels] : n \in 0 .. MaxRels}]
  BY DEF Fixity!Decls, Fixity!Rel, Rels
<1>2. PICK n \in 0 .. MaxRels : d.rels \in [1 .. n -> Rels]
  BY <1>1
<1>3. d.rels \in Seq(Rels)
  BY <1>2
<1>4. QED
  BY <1>1, <1>3 DEF Declarations

\* The two readings of a declared operator.
LEMMA DeclaredAre ==
  ASSUME Table(decls, known, assoc, declAt)
  PROVE  Fixity!Entries = Listed(known) /\ Fixity!Declared = Heads(decls)
<1>1. Fixity!Entries = Listed(known)
  BY DEF Fixity!Entries, Fixity!ToSet, Listed
<1>2. Listed(known) \subseteq Ops
  BY DEF Table, Listed
<1>3. \A k \in Winners(decls) : k \in DOMAIN decls
  BY DEF Winners
<1>4. QED
  BY <1>1, <1>2, <1>3 DEF Fixity!Declared, Table, Heads

\* A declaration counts when the table kept it.
LEMMA WinnerIs ==
  ASSUME Table(decls, known, assoc, declAt), NEW k \in DOMAIN decls
  PROVE  Fixity!Winner(k) <=> k \in Winners(decls)
<1> DEFINE x == decls[k].name
           j == declAt[x]
<1>1. decls \in Seq(Declarations) /\ x \in Heads(decls)
  BY DEF Table, Heads
<1>2. \A d \in Declarations : d.name \in Ops
  BY DEF Declarations
<1>3. x \in Ops
  BY <1>1, <1>2
<1>4. j \in Winners(decls) /\ decls[j].name = x
  BY <1>1, <1>3 DEF Table
<1>5. DOMAIN decls = 1 .. Len(decls) /\ Len(decls) \in Nat
  BY <1>1
<1>6. k \in Winners(decls) => k = j
  BY <1>4, <1>5 DEF Winners
<1>7. QED
  BY <1>4, <1>6 DEF Fixity!Winner

LEMMA ReadKeeps == ASSUME FixInv, NEW d \in Fixity!Decls, Fixity!ReadDecl(d) PROVE FixInv'
<1>1. d \in Declarations
  BY DeclIs
<1>2. /\ stage = "names" /\ stage' = stage /\ chain' = chain /\ order' = order /\ rings' = rings
      /\ decls' = Append(decls, d)
  BY DEF Fixity!ReadDecl
<1>3. FixTypes /\ chain = <<>> /\ Table(decls, known, assoc, declAt) /\ order = {} /\ rings = {}
  BY <1>2 DEF FixInv, StagesRight
<1>4. Table(decls, known, assoc, declAt)'
  <2>1. Fixity!Kept(d) <=> d.name \notin Heads(decls)
    BY <1>3, DeclaredAre DEF Fixity!Kept
  <2>2. CASE Fixity!Kept(d)
    <3> DEFINE head == IF d.name \in Listed(known) THEN known ELSE Append(known, d.name)
    <3>1. Len(decls') = Len(decls) + 1
      BY <1>1, <1>2, <1>3 DEF Table
    <3>2. /\ known' = head \o Fixity!NewNames(d.rels, Listed(head))
          /\ assoc' = [assoc EXCEPT ![d.name] = d.assoc]
          /\ declAt' = [declAt EXCEPT ![d.name] = Len(decls')]
      <4>1. \A s : Fixity!ToSet(s) = Listed(s)
        BY DEF Fixity!ToSet, Listed
      <4>2. QED
        BY <1>3, <2>2, <4>1, DeclaredAre, Zenon DEF Fixity!ReadDecl
    <3> HIDE DEF head
    <3>3. head = IF d.name \in Listed(known) THEN known ELSE Append(known, d.name)
      BY DEF head
    <3>4. Table(Append(decls, d), head \o Fixity!NewNames(d.rels, Listed(head)),
                [assoc EXCEPT ![d.name] = d.assoc], [declAt EXCEPT ![d.name] = Len(decls) + 1])
      BY <1>1, <1>3, <2>1, <2>2, <3>3, ReadKept, Zenon
    <3>5. QED
      BY <1>2, <3>1, <3>2, <3>4, Zenon
  <2>3. CASE ~Fixity!Kept(d)
    <3>1. known' = known /\ assoc' = assoc /\ declAt' = declAt
      BY <2>3 DEF Fixity!ReadDecl
    <3>2. Table(Append(decls, d), known, assoc, declAt)
      BY <1>1, <1>3, <2>1, <2>3, ReadDropped, Zenon
    <3>3. QED
      BY <1>2, <3>1, <3>2, Zenon
  <2>4. QED
    BY <2>2, <2>3
<1>5. FixTypes'
  BY <1>2, <1>3, <1>4 DEF FixTypes, Table
<1>6. StagesRight'
  BY <1>2, <1>3 DEF StagesRight
<1>7. QED
  BY <1>2, <1>3, <1>4, <1>5, <1>6 DEF FixInv

\* The statements lie among the entries.
LEMMA StatedIn ==
  ASSUME Table(decls, known, assoc, declAt)
  PROVE  /\ StatedBy(decls) \in SUBSET (Listed(known) \X Listed(known))
         /\ \A n : Drawn(decls, n) \subseteq StatedBy(decls)
<1>1. \A k \in Winners(decls) : decls[k] \in Declarations
  BY DEF Table, Winners
<1>2. \A k \in Winners(decls) : Fixity!EdgesOf(decls[k]) \subseteq Ops \X Ops
  BY <1>1, EdgeEnds
<1>3. ASSUME NEW e \in StatedBy(decls) PROVE e \in Listed(known) \X Listed(known)
  <2>1. e \in Ops \X Ops
    BY <1>2, <1>3 DEF StatedBy
  <2>2. e[1] \in Ends(StatedBy(decls)) /\ e[2] \in Ends(StatedBy(decls))
    BY <1>3 DEF Ends
  <2>3. e[1] \in Listed(known) /\ e[2] \in Listed(known)
    BY <2>2 DEF Table
  <2>4. QED
    BY <2>1, <2>3
<1>4. QED
  BY <1>3 DEF Drawn, StatedBy

\* What is reached without a step is what is stated.
LEMMA ReachedFirst ==
  ASSUME Table(decls, known, assoc, declAt) PROVE Reach(Listed(known), StatedBy(decls), Len(known))[0] = StatedBy(decls)
<1>1. Len(known) \in Nat
  BY DEF Table
<1>2. QED
  BY <1>1, StatedIn, ReachSteps

LEMMA EndNamesKeeps == ASSUME FixInv, Fixity!EndNames PROVE FixInv'
<1>1. /\ stage = "names" /\ stage' = (IF decls = <<>> THEN "chains" ELSE "edges") /\ next' = 1
      /\ decls' = decls /\ known' = known /\ assoc' = assoc /\ declAt' = declAt
      /\ order' = order /\ rings' = rings /\ chain' = chain
  BY DEF Fixity!EndNames
<1>2. FixTypes /\ chain = <<>> /\ Table(decls, known, assoc, declAt) /\ order = {} /\ rings = {}
  BY <1>1 DEF FixInv, StagesRight
<1>3. Table(decls, known, assoc, declAt)'
  BY <1>1, <1>2, Zenon
<1>4. FixTypes'
  BY <1>1, <1>2 DEF FixTypes
<1>5. CASE decls = <<>>
  <2>1. DOMAIN decls = {}
    BY <1>5
  <2>2. Heads(decls) = {} /\ Winners(decls) = {}
    BY <2>1 DEF Heads, Winners
  <2>3. StatedBy(decls) = {} /\ Ends(StatedBy(decls)) = {}
    BY <2>2 DEF StatedBy, Ends
  <2>4. Listed(known) = {}
    BY <1>2, <2>2, <2>3 DEF Table
  <2>5. RingHeads' = {}
    BY <1>1, <2>4 DEF RingHeads, Listed
  <2>6. Reached(Len(known))' /\ Transitive(order') /\ StatedBy(decls') = {}
    BY <1>1, <1>2, <2>3 DEF Reached, Transitive, Closes
  <2>7. stage' = "chains"
    BY <1>1, <1>5
  <2>8. StagesRight'
    BY <1>1, <1>2, <2>5, <2>6, <2>7 DEF StagesRight
  <2>9. QED
    BY <1>3, <1>4, <2>7, <2>8 DEF FixInv
<1>6. CASE decls # <<>>
  <2>1. stage' = "edges"
    BY <1>1, <1>6
  <2>2. 1 \in 1 .. Len(decls)
    BY <1>2, <1>6 DEF Table
  <2>3. Drawn(decls, 1) = {}
    <3>1. \A k \in Winners(decls) : k \in 1 .. Len(decls)
      BY <1>2 DEF Winners, Table
    <3>2. QED
      BY <3>1 DEF Drawn
  <2>4. StagesRight'
    BY <1>1, <1>2, <2>1, <2>2, <2>3 DEF StagesRight
  <2>5. QED
    BY <1>1, <1>2, <1>3, <1>4, <2>1, <2>4 DEF FixInv
<1>7. QED
  BY <1>5, <1>6

LEMMA DrawKeeps == ASSUME FixInv, Fixity!DrawEdges PROVE FixInv'
<1>1. /\ stage = "edges" /\ order' = (IF Fixity!Winner(next) THEN order \cup Fixity!EdgesOf(decls[next]) ELSE order)
      /\ IF next < Len(decls) THEN next' = next + 1 /\ stage' = "edges" ELSE next' = 1 /\ stage' = "closure"
      /\ decls' = decls /\ known' = known /\ assoc' = assoc /\ declAt' = declAt
      /\ rings' = rings /\ chain' = chain
  BY DEF Fixity!DrawEdges
<1>2. /\ FixTypes /\ chain = <<>> /\ Table(decls, known, assoc, declAt)
      /\ next \in 1 .. Len(decls) /\ order = Drawn(decls, next)
  BY <1>1 DEF FixInv, StagesRight
<1>3. Table(decls, known, assoc, declAt)'
  BY <1>1, <1>2, Zenon
<1>4. order' = Drawn(decls, next + 1)
  <2>1. Len(decls) \in Nat /\ DOMAIN decls = 1 .. Len(decls) /\ Winners(decls) \subseteq 1 .. Len(decls)
    BY <1>2 DEF Table, Winners
  <2>2. Fixity!Winner(next) <=> next \in Winners(decls)
    BY <1>2, <2>1, WinnerIs
  <2>3. {j \in Winners(decls) : j < next + 1} =
          {j \in Winners(decls) : j < next} \cup (IF next \in Winners(decls) THEN {next} ELSE {})
    BY <1>2, <2>1
  <2>4. QED
    BY <1>1, <1>2, <2>2, <2>3 DEF Drawn
<1>5. order' \in SUBSET (Listed(known) \X Listed(known))
  BY <1>2, <1>4, StatedIn
<1>6. FixTypes'
  BY <1>1, <1>2, <1>5 DEF FixTypes
<1>7. CASE next < Len(decls)
  <2>1. next' = next + 1 /\ stage' = "edges" /\ next + 1 \in 1 .. Len(decls)
    BY <1>1, <1>2, <1>7
  <2>2. StagesRight'
    BY <1>1, <1>4, <2>1 DEF StagesRight
  <2>3. QED
    BY <1>1, <1>2, <1>3, <1>6, <2>1, <2>2 DEF FixInv
<1>8. CASE ~(next < Len(decls))
  <2>1. next' = 1 /\ stage' = "closure"
    BY <1>1, <1>8
  <2>2. order' = StatedBy(decls)
    <3>1. Len(decls) \in Nat /\ Winners(decls) \subseteq 1 .. Len(decls)
      BY <1>2 DEF Table, Winners
    <3>2. {j \in Winners(decls) : j < next + 1} = Winners(decls)
      BY <1>2, <1>8, <3>1
    <3>3. QED
      BY <1>4, <3>2 DEF Drawn, StatedBy
  <2>3. 1 \in 1 .. Len(known)
    <3>1. decls[next].name \in Listed(known)
      BY <1>2 DEF Table, Heads
    <3>2. QED
      BY <1>2, <3>1 DEF Listed, FixTypes
  <2>4. Reached(0)'
    BY <1>1, <1>2, <2>2, ReachedFirst DEF Reached
  <2>5. StagesRight'
    BY <1>1, <2>1, <2>2, <2>3, <2>4 DEF StagesRight
  <2>6. QED
    BY <1>1, <1>2, <1>3, <1>6, <2>1, <2>5 DEF FixInv
<1>9. QED
  BY <1>7, <1>8

LEMMA CloseKeeps == ASSUME FixInv, Fixity!CloseRow PROVE FixInv'
<1> DEFINE S == Listed(known)
           r == known[next]
           g == Reach(S, StatedBy(decls), Len(known))
<1>1. /\ stage = "closure" /\ order' = order \cup Fixity!Through(r)
      /\ IF next < Len(known) THEN next' = next + 1 /\ stage' = "closure" ELSE next' = 1 /\ stage' = "rings"
      /\ decls' = decls /\ known' = known /\ assoc' = assoc /\ declAt' = declAt
      /\ rings' = rings /\ chain' = chain
  BY DEF Fixity!CloseRow
<1>2. /\ FixTypes /\ chain = <<>> /\ Table(decls, known, assoc, declAt)
      /\ next \in 1 .. Len(known) /\ StatedBy(decls) \subseteq order
      /\ order \subseteq g[next - 1]
      /\ \A k \in 1 .. next - 1 : Closes(order, known[k])
  BY <1>1 DEF FixInv, StagesRight, Reached
<1>3. Table(decls, known, assoc, declAt)'
  BY <1>1, <1>2, Zenon
<1>4. Len(known) \in Nat /\ DOMAIN known = 1 .. Len(known) /\ r \in S /\ order \in SUBSET (S \X S)
  BY <1>2 DEF FixTypes, Listed
<1>5. order' = order \cup {e \in S \X S : <<e[1], r>> \in order /\ <<r, e[2]>> \in order}
  BY <1>1, <1>2, DeclaredAre DEF Fixity!Through
<1>6. order' \subseteq g[next]
  <2>1. g[next] = Further(S, g[next - 1])
    BY <1>2, <1>4, StatedIn, ReachSteps
  <2> HIDE DEF g, r, S
  <2>2. QED
    BY <1>2, <1>4, <1>5, <2>1 DEF Further
<1> HIDE DEF g, r, S
<1>7. /\ order' \in SUBSET (S \X S) /\ Closes(order', r)
      /\ \A k : Closes(order, k) => Closes(order', k)
  <2>1. order' = Round(S, order, r)
    BY <1>5 DEF Round
  <2>2. QED
    BY <1>4, <2>1, Warshall
<1>8. \A k \in 1 .. next : Closes(order', known[k])
  <2>1. ASSUME NEW k \in 1 .. next PROVE Closes(order', known[k])
    <3>1. CASE k = next
      BY <1>7, <3>1 DEF r
    <3>2. CASE k # next
      <4>1. k \in 1 .. next - 1
        BY <1>2, <3>2
      <4>2. QED
        BY <1>2, <1>7, <4>1
    <3>3. QED
      BY <3>1, <3>2
  <2>2. QED
    BY <2>1
<1>9. FixTypes'
  <2>1. stage' \in {"closure", "rings"}
    BY <1>1
  <2>2. QED
    BY <1>1, <1>2, <1>7, <2>1 DEF FixTypes, S
<1>10. StatedBy(decls) \subseteq order'
  BY <1>1, <1>2
<1>11. CASE next < Len(known)
  <2>1. next' = next + 1 /\ stage' = "closure" /\ next + 1 \in 1 .. Len(known) /\ next' - 1 = next
    BY <1>1, <1>2, <1>4, <1>11
  <2>2. Reached(next - 1)'
    BY <1>1, <1>6, <2>1 DEF Reached, g, S
  <2>3. StagesRight'
    BY <1>1, <1>8, <1>10, <2>1, <2>2 DEF StagesRight
  <2>4. QED
    BY <1>1, <1>2, <1>3, <1>9, <2>1, <2>3 DEF FixInv
<1>12. CASE ~(next < Len(known))
  <2>1. stage' = "rings" /\ next = Len(known)
    BY <1>1, <1>2, <1>4, <1>12
  <2>2. Reached(Len(known))'
    BY <1>1, <1>6, <2>1 DEF Reached, g, S
  <2>3. Transitive(order')
    <3>1. ASSUME NEW k, NEW a, NEW b, <<a, k>> \in order', <<k, b>> \in order'
          PROVE  <<a, b>> \in order'
      <4>1. k \in S
        BY <1>7, <3>1
      <4>2. PICK j \in 1 .. next : k = known[j]
        BY <1>4, <2>1, <4>1 DEF S, Listed
      <4>3. QED
        BY <1>8, <3>1, <4>2 DEF Closes
    <3>2. QED
      BY <3>1 DEF Transitive, Closes
  <2>4. StagesRight'
    BY <1>1, <1>10, <2>1, <2>2, <2>3 DEF StagesRight
  <2>5. QED
    BY <1>1, <1>2, <1>3, <1>9, <2>1, <2>4 DEF FixInv
<1>13. QED
  BY <1>11, <1>12

LEMMA RingsKeep == ASSUME FixInv, Fixity!CheckRings PROVE FixInv'
<1>1. /\ stage = "rings" /\ stage' = "chains" /\ rings' = RingHeads
      /\ decls' = decls /\ known' = known /\ assoc' = assoc /\ declAt' = declAt
      /\ order' = order /\ next' = next /\ chain' = chain
  BY DEF Fixity!CheckRings, RingHeads
<1>2. /\ FixTypes /\ chain = <<>> /\ Table(decls, known, assoc, declAt) /\ Transitive(order)
      /\ StatedBy(decls) \subseteq order /\ Reached(Len(known))
  BY <1>1 DEF FixInv, StagesRight
<1>3. Table(decls, known, assoc, declAt)'
  BY <1>1, <1>2, Zenon
<1>4. FixTypes'
  BY <1>1, <1>2 DEF FixTypes
<1>5. Reached(Len(known))'
  BY <1>1, <1>2 DEF Reached
<1>6. RingHeads' = RingHeads
  BY <1>1 DEF RingHeads, Fixity!RingHead, Fixity!InRing, Fixity!SameRing
<1>7. StagesRight'
  BY <1>1, <1>2, <1>5, <1>6 DEF StagesRight
<1>8. QED
  BY <1>1, <1>2, <1>3, <1>4, <1>7 DEF FixInv

LEMMA AddKeeps == ASSUME FixInv, NEW o \in Ops, Fixity!AddOp(o) PROVE FixInv'
<1>1. /\ stage = "chains" /\ stage' = "chains" /\ chain' = Append(chain, o)
      /\ declAt' = [p \in Ops |-> IF declAt[p] = 0 THEN 0 ELSE 1]
      /\ known' = known /\ assoc' = assoc /\ order' = order
  BY DEF Fixity!AddOp
<1>2. FixTypes /\ Transitive(order)
  BY <1>1 DEF FixInv, StagesRight
<1>3. chain' \in Seq(Ops) /\ chain' # <<>>
  BY <1>1, <1>2 DEF FixTypes
<1>4. FixTypes'
  BY <1>1, <1>2, <1>3 DEF FixTypes
<1>5. StagesRight'
  BY <1>1, <1>2, <1>3 DEF StagesRight
<1>6. QED
  BY <1>1, <1>3, <1>4, <1>5 DEF FixInv

LEMMA FixKeeps == FixInv /\ [FNext]_allVars => FixInv'
<1> SUFFICES ASSUME FixInv, [FNext]_allVars PROVE FixInv'
  OBVIOUS
<1>1. Fixity!Next \/ UNCHANGED fixityVars
  BY DEF FNext, allVars, fixityVars
<1>2. CASE UNCHANGED fixityVars
  <2>1. /\ stage' = stage /\ decls' = decls /\ known' = known /\ assoc' = assoc /\ declAt' = declAt
        /\ order' = order /\ next' = next /\ rings' = rings /\ chain' = chain
    BY <1>2 DEF fixityVars
  <2>2. FixTypes' = FixTypes
    BY <2>1 DEF FixTypes
  <2>3. RingHeads' = RingHeads
    BY <2>1 DEF RingHeads, Fixity!RingHead, Fixity!InRing, Fixity!SameRing
  <2>4. StagesRight' = StagesRight
    BY <2>1, <2>3 DEF StagesRight, Reached
  <2>5. Table(decls, known, assoc, declAt)' = Table(decls, known, assoc, declAt)
    BY <2>1, Zenon
  <2>6. QED
    BY <2>1, <2>2, <2>4, <2>5 DEF FixInv
<1>3. CASE Fixity!Next
  BY <1>3, ReadKeeps, EndNamesKeeps, DrawKeeps, CloseKeeps, RingsKeep, AddKeeps DEF Fixity!Next
<1>4. QED
  BY <1>1, <1>2, <1>3

-----------------------------------------------------------------------------
(* What the table comes to.                                                *)

LEMMA InvTable == FixInv => Fixity!TableRight
<1> SUFFICES ASSUME FixInv, stage \in {"rings", "chains"}, chain = <<>>
             PROVE  /\ Fixity!Declared = {decls[k].name : k \in Fixity!FirstDecls}
                    /\ Fixity!Entries = Fixity!Declared \cup UNION {{e[1], e[2]} : e \in Fixity!Stated}
                    /\ \A k \in Fixity!FirstDecls : assoc[decls[k].name] = decls[k].assoc
                    /\ order = Fixity!Closed(Fixity!Stated)
  BY DEF Fixity!TableRight
<1>1. /\ FixTypes /\ Table(decls, known, assoc, declAt) /\ Transitive(order)
      /\ StatedBy(decls) \subseteq order /\ Reached(Len(known))
  BY DEF FixInv, StagesRight
<1>2. Fixity!FirstDecls = Winners(decls) /\ Fixity!Stated = StatedBy(decls)
  BY DEF Fixity!FirstDecls, Winners, Fixity!Stated, StatedBy
<1>3. Fixity!Declared = Heads(decls) /\ Fixity!Entries = Listed(known)
  BY <1>1, DeclaredAre
<1>4. Heads(decls) = {decls[k].name : k \in Winners(decls)}
  <2>1. ASSUME NEW o \in Heads(decls) PROVE o \in {decls[k].name : k \in Winners(decls)}
    <3>1. o \in Ops
      BY <1>1 DEF Table, Listed
    <3>2. QED
      BY <1>1, <2>1, <3>1 DEF Table
  <2>2. QED
    BY <2>1 DEF Heads, Winners
<1>5. ASSUME NEW k \in Winners(decls) PROVE assoc[decls[k].name] = decls[k].assoc
  <2>1. k \in DOMAIN decls
    BY <1>5 DEF Winners
  <2>2. declAt[decls[k].name] = k
    BY <1>1, <1>5, <2>1, WinnerIs DEF Fixity!Winner
  <2>3. decls[k].name \in Ops /\ k # 0
    <3>1. decls[k].name \in Heads(decls)
      BY <2>1 DEF Heads
    <3>2. k \in Nat \ {0}
      BY <1>1, <2>1 DEF Table
    <3>3. QED
      BY <1>1, <3>1, <3>2 DEF Table, Listed
  <2>4. QED
    BY <1>1, <2>2, <2>3 DEF Table
<1>6. order = Fixity!Closed(Fixity!Stated)
  <2> DEFINE n == Len(known)
             g == Reach(Listed(known), StatedBy(decls), n)
  <2>1. Fixity!Closed(StatedBy(decls)) = g[n]
    BY <1>1, ClosedIs DEF FixTypes
  <2>2. n \in Nat /\ n \in 0 .. n
    BY <1>1 DEF FixTypes
  <2>3. g[n] \subseteq order
    BY <1>1, <2>2, StatedIn, ReachLeast
  <2>4. order \subseteq g[n]
    BY <1>1 DEF Reached
  <2>5. QED
    BY <1>2, <2>1, <2>3, <2>4
<1>7. QED
  BY <1>1, <1>2, <1>3, <1>4, <1>5, <1>6 DEF Table, Ends

LEMMA InvRings == FixInv => Fixity!RingsOnce
<1> SUFFICES ASSUME FixInv, stage = "chains", chain = <<>>, NEW o \in Fixity!Entries
             PROVE  Fixity!Cardinality(rings \cap Fixity!MutualIn(o)) = IF Fixity!InRing(o) THEN 1 ELSE 0
  BY DEF Fixity!RingsOnce
<1>1. /\ FixTypes /\ Table(decls, known, assoc, declAt) /\ Transitive(order) /\ rings = RingHeads
  BY DEF FixInv, StagesRight
<1>2. Fixity!Entries = Listed(known) /\ known \in Seq(Ops) /\ DOMAIN known = 1 .. Len(known)
  BY <1>1, DeclaredAre DEF FixTypes
<1>3. \A S : Fixity!Cardinality(S) = Cardinality(S)
  BY DEF Fixity!Cardinality, Cardinality
<1>4. \A a, b, c : <<a, b>> \in order /\ <<b, c>> \in order => <<a, c>> \in order
  BY <1>1 DEF Transitive, Closes
<1> DEFINE M == Fixity!MutualIn(o)
<1>5. \A p : p \in M <=> p \in Listed(known) /\ (p = o \/ (<<o, p>> \in order /\ <<p, o>> \in order))
  BY <1>2 DEF Fixity!MutualIn, Fixity!SameRing
<1> HIDE DEF M
<1>6. \A p : p \in rings <=>
         \E k \in DOMAIN known : /\ p = known[k] /\ <<p, p>> \in order
                                 /\ \A j \in 1 .. k - 1 : ~(<<p, known[j]>> \in order /\ <<known[j], p>> \in order)
  BY <1>1 DEF RingHeads, Fixity!RingHead, Fixity!InRing, Fixity!SameRing
<1>7. CASE ~Fixity!InRing(o)
  <2>1. <<o, o>> \notin order
    BY <1>7 DEF Fixity!InRing
  <2>2. rings \cap M = {}
    BY <1>4, <1>5, <1>6, <2>1
  <2>3. Cardinality({}) = 0
    BY FS_EmptySet
  <2>4. QED
    BY <1>3, <1>7, <2>2, <2>3 DEF M
<1>8. CASE Fixity!InRing(o)
  <2>1. <<o, o>> \in order
    BY <1>8 DEF Fixity!InRing
  <2> DEFINE T == {k \in DOMAIN known : known[k] \in M}
  <2>2. PICK k \in T : \A j \in T : k <= j
    <3>1. T # {}
      BY <1>2, <1>5 DEF Listed
    <3>2. T \subseteq Nat
      BY <1>2
    <3> HIDE DEF T
    <3>3. QED
      BY <3>1, <3>2, LeastExists
  <2>3. k \in DOMAIN known /\ known[k] \in M /\ <<known[k], known[k]>> \in order
    BY <1>4, <1>5, <2>1, <2>2
  <2>4. \A j \in 1 .. k - 1 : j \in DOMAIN known /\ known[j] \notin M
    BY <1>2, <2>2
  <2>5. known[k] \in rings
    <3>1. ASSUME NEW j \in 1 .. k - 1, <<known[k], known[j]>> \in order, <<known[j], known[k]>> \in order
          PROVE  FALSE
      <4>1. known[j] \in Listed(known)
        BY <2>4 DEF Listed
      <4>2. <<o, known[j]>> \in order /\ <<known[j], o>> \in order
        BY <1>4, <1>5, <2>3, <3>1
      <4>3. QED
        BY <1>5, <2>4, <4>1, <4>2
    <3>2. QED
      BY <1>6, <2>3, <3>1
  <2>6. ASSUME NEW p \in rings \cap M PROVE p = known[k]
    <3>1. PICK j \in DOMAIN known :
            /\ p = known[j] /\ <<p, p>> \in order
            /\ \A h \in 1 .. j - 1 : ~(<<p, known[h]>> \in order /\ <<known[h], p>> \in order)
      BY <1>6, <2>6
    <3>2. k <= j
      BY <2>2, <2>6, <3>1
    <3>3. CASE k = j
      BY <3>1, <3>3
    <3>4. CASE k # j
      <4>1. k \in 1 .. j - 1
        BY <1>2, <2>3, <3>1, <3>2, <3>4
      <4>2. <<p, known[k]>> \in order /\ <<known[k], p>> \in order
        BY <1>4, <1>5, <2>1, <2>3, <2>6
      <4>3. QED
        BY <3>1, <4>1, <4>2
    <3>5. QED
      BY <3>3, <3>4
  <2>7. rings \cap M = {known[k]}
    BY <2>3, <2>5, <2>6
  <2>8. Cardinality({known[k]}) = 1
    BY FS_Singleton
  <2>9. QED
    BY <1>3, <1>8, <2>7, <2>8 DEF M
<1>9. QED
  BY <1>7, <1>8

-----------------------------------------------------------------------------
(* Chains.  U says which occurrence of a chain may lie under which.        *)

Poset(U, n) ==
  \A a, b, c \in 1 .. n :
    /\ <<a, a>> \in U
    /\ <<a, b>> \in U /\ <<b, a>> \in U => a = b
    /\ <<a, b>> \in U /\ <<b, c>> \in U => <<a, c>> \in U

\* The occurrence that all of lo .. hi may lie under.
Greatest(U, lo, hi) == {m \in lo .. hi : \A k \in lo .. hi : <<k, m>> \in U}

\* Two occurrences have an order or one between them that both may lie under.
Meet(U, a, b)    == <<a, b>> \in U \/ <<b, a>> \in U \/ \E k \in a + 1 .. b - 1 : <<a, k>> \in U /\ <<b, k>> \in U
Pairs(U, lo, hi) == \A a, b \in lo .. hi : a < b => Meet(U, a, b)

\* The greatest of one occurrence more.
LEMMA GreatestNext ==
  ASSUME NEW n \in Nat, NEW U, Poset(U, n), NEW lo \in 1 .. n, NEW hi \in lo .. n - 1,
         NEW g \in Greatest(U, lo, hi)
  PROVE  /\ <<g, hi + 1>> \in U => hi + 1 \in Greatest(U, lo, hi + 1)
         /\ <<hi + 1, g>> \in U => g \in Greatest(U, lo, hi + 1)
         /\ Pairs(U, lo, hi + 1) => <<g, hi + 1>> \in U \/ <<hi + 1, g>> \in U
<1>1. g \in lo .. hi /\ \A k \in lo .. hi : <<k, g>> \in U
  BY DEF Greatest
<1>2. /\ hi \in Int /\ lo \in Int /\ hi + 1 \in 1 .. n /\ g \in 1 .. n /\ hi + 1 \in lo .. hi + 1 /\ g \in lo .. hi + 1
      /\ \A k \in lo .. hi + 1 : k \in 1 .. n /\ (k \in lo .. hi \/ k = hi + 1)
  BY <1>1
<1>3. ASSUME <<g, hi + 1>> \in U PROVE hi + 1 \in Greatest(U, lo, hi + 1)
  <2>1. ASSUME NEW k \in lo .. hi + 1 PROVE <<k, hi + 1>> \in U
    <3>1. CASE k = hi + 1
      BY <1>2, <3>1 DEF Poset
    <3>2. CASE k \in lo .. hi
      <4>1. <<k, g>> \in U
        BY <1>1, <3>2
      <4>2. QED
        BY <1>2, <1>3, <4>1 DEF Poset
    <3>3. QED
      BY <1>2, <3>1, <3>2
  <2>2. QED
    BY <1>2, <2>1 DEF Greatest
<1>4. ASSUME <<hi + 1, g>> \in U PROVE g \in Greatest(U, lo, hi + 1)
  BY <1>1, <1>2, <1>4 DEF Greatest
<1>5. ASSUME Pairs(U, lo, hi + 1) PROVE <<g, hi + 1>> \in U \/ <<hi + 1, g>> \in U
  <2>1. Meet(U, g, hi + 1)
    <3>1. g < hi + 1
      BY <1>1
    <3>2. QED
      BY <1>2, <1>5, <3>1 DEF Pairs
  <2>2. ASSUME NEW k \in g + 1 .. hi, <<g, k>> \in U PROVE FALSE
    <3>1. k \in lo .. hi /\ k # g /\ k \in 1 .. n
      BY <1>1, <1>2
    <3>2. <<k, g>> \in U
      BY <1>1, <3>1
    <3>3. QED
      BY <1>2, <2>2, <3>1, <3>2 DEF Poset
  <2>3. (hi + 1) - 1 = hi
    BY <1>2
  <2>4. \A k \in g + 1 .. (hi + 1) - 1 : <<g, k>> \notin U
    BY <2>2, <2>3
  <2>5. QED
    BY <2>1, <2>4, Zenon DEF Meet
<1>6. QED
  BY <1>3, <1>4, <1>5

\* There is no other.
LEMMA GreatestUnique ==
  ASSUME NEW n \in Nat, NEW U, Poset(U, n), NEW lo \in 1 .. n, NEW hi \in 0 .. n,
         NEW g \in Greatest(U, lo, hi), NEW h \in Greatest(U, lo, hi)
  PROVE  g = h
<1>1. g \in 1 .. n /\ h \in 1 .. n /\ <<g, h>> \in U /\ <<h, g>> \in U
  BY DEF Greatest
<1>2. QED
  BY <1>1 DEF Poset

\* A stretch passes when it falls in two at its greatest and both sides pass.
LEMMA SplitStep ==
  ASSUME NEW n \in Nat, NEW U, Poset(U, n), NEW lo \in 1 .. n + 1, NEW hi \in 0 .. n,
         NEW D, D \subseteq Greatest(U, lo, hi), lo <= hi /\ Pairs(U, lo, hi) => D # {}
  PROVE  Pairs(U, lo, hi) <=> lo > hi \/ \E m \in D : Pairs(U, lo, m - 1) /\ Pairs(U, m + 1, hi)
<1>1. ASSUME Pairs(U, lo, hi), ~(lo > hi) PROVE \E m \in D : Pairs(U, lo, m - 1) /\ Pairs(U, m + 1, hi)
  <2>1. PICK m \in D : TRUE
    BY <1>1
  <2>2. m \in lo .. hi
    BY DEF Greatest
  <2>3. \A a : (a \in lo .. m - 1 \/ a \in m + 1 .. hi) => a \in lo .. hi
    BY <2>2
  <2>4. QED
    BY <1>1, <2>3 DEF Pairs
<1>2. CASE lo > hi
  BY <1>2 DEF Pairs
<1>3. ASSUME NEW m \in D, Pairs(U, lo, m - 1), Pairs(U, m + 1, hi), NEW a \in lo .. hi, NEW b \in lo .. hi, a < b
      PROVE  Meet(U, a, b)
  <2>1. m \in lo .. hi /\ <<a, m>> \in U /\ <<b, m>> \in U
    BY DEF Greatest
  <2>2. CASE a = m \/ b = m
    BY <2>1, <2>2 DEF Meet
  <2>3. CASE b < m
    <3>1. a \in lo .. m - 1 /\ b \in lo .. m - 1
      BY <1>3, <2>1, <2>3
    <3>2. QED
      BY <1>3, <3>1 DEF Pairs
  <2>4. CASE m < a
    <3>1. a \in m + 1 .. hi /\ b \in m + 1 .. hi
      BY <1>3, <2>1, <2>4
    <3>2. QED
      BY <1>3, <3>1 DEF Pairs
  <2>5. CASE a < m /\ m < b
    <3>1. m \in a + 1 .. b - 1
      BY <2>1, <2>5
    <3>2. QED
      BY <2>1, <3>1 DEF Meet
  <2>6. QED
    BY <2>1, <2>2, <2>3, <2>4, <2>5
<1>4. QED
  BY <1>1, <1>2, <1>3 DEF Pairs

\* The stretches of n occurrences; what splits them where D says.
Stretches(n)    == {q \in (1 .. n + 1) \X (0 .. n) : q[1] <= q[2] + 1}
Splits(D, f, p) == p[1] > p[2] \/ \E m \in D[p] : f[<<p[1], m - 1>>] /\ f[<<m + 1, p[2]>>]
IsSplit(D, n, f) == f = [p \in Stretches(n) |-> Splits(D, f, p)]

\* D splits at the greatest.
SplitsRight(D, U, n) ==
  \A p \in Stretches(n) : /\ D[p] \subseteq Greatest(U, p[1], p[2])
                          /\ p[1] <= p[2] /\ Pairs(U, p[1], p[2]) => D[p] # {}

LEMMA SplitExists ==
  ASSUME NEW n \in Nat, NEW U, Poset(U, n), NEW D, SplitsRight(D, U, n)
  PROVE  IsSplit(D, n, [p \in Stretches(n) |-> Pairs(U, p[1], p[2])])
<1> DEFINE f == [p \in Stretches(n) |-> Pairs(U, p[1], p[2])]
<1>1. ASSUME NEW p \in Stretches(n) PROVE Pairs(U, p[1], p[2]) <=> Splits(D, f, p)
  <2>1. p[1] \in 1 .. n + 1 /\ p[2] \in 0 .. n
    BY DEF Stretches
  <2>2. \A m \in D[p] : m \in p[1] .. p[2]
    BY DEF SplitsRight, Greatest
  <2>3. ASSUME NEW m \in D[p]
        PROVE  /\ f[<<p[1], m - 1>>] = Pairs(U, p[1], m - 1)
               /\ f[<<m + 1, p[2]>>] = Pairs(U, m + 1, p[2])
    <3>1. <<p[1], m - 1>> \in Stretches(n) /\ <<m + 1, p[2]>> \in Stretches(n)
      BY <2>1, <2>2 DEF Stretches
    <3>2. QED
      BY <3>1
  <2>4. Pairs(U, p[1], p[2]) <=>
          p[1] > p[2] \/ \E m \in D[p] : Pairs(U, p[1], m - 1) /\ Pairs(U, m + 1, p[2])
    <3>1. D[p] \subseteq Greatest(U, p[1], p[2]) /\ (p[1] <= p[2] /\ Pairs(U, p[1], p[2]) => D[p] # {})
      BY DEF SplitsRight
    <3>2. QED
      BY <2>1, <3>1, SplitStep
  <2> HIDE DEF f
  <2>5. QED
    BY <2>3, <2>4, Zenon DEF Splits
<1>2. f = [p \in Stretches(n) |-> Splits(D, f, p)]
  <2>1. ASSUME NEW p \in Stretches(n) PROVE Pairs(U, p[1], p[2]) = Splits(D, f, p)
    <3>1. Pairs(U, p[1], p[2]) <=> Splits(D, f, p)
      BY <1>1
    <3> HIDE DEF f
    <3>2. Pairs(U, p[1], p[2]) \in BOOLEAN /\ Splits(D, f, p) \in BOOLEAN
      BY Zenon DEF Pairs, Splits
    <3>3. QED
      BY <3>1, <3>2
  <2>2. QED
    BY <2>1, Zenon
<1>3. QED
  BY <1>2, Zenon DEF IsSplit

LEMMA SplitIs ==
  ASSUME NEW n \in Nat, NEW U, Poset(U, n), NEW D, SplitsRight(D, U, n), NEW f, IsSplit(D, n, f)
  PROVE  \A p \in Stretches(n) : f[p] <=> Pairs(U, p[1], p[2])
<1> DEFINE size(p) == p[2] - p[1] + 1
           Wrong(p) == ~(f[p] <=> Pairs(U, p[1], p[2]))
           T == {k \in Nat : \E p \in Stretches(n) : size(p) = k /\ Wrong(p)}
<1>1. SUFFICES ASSUME NEW q \in Stretches(n), Wrong(q) PROVE FALSE
  BY Zenon
<1>2. \A p \in Stretches(n) : size(p) \in Nat /\ p[1] \in 1 .. n + 1 /\ p[2] \in 0 .. n /\ size(p) = p[2] - p[1] + 1
  BY DEF Stretches
<1> HIDE DEF size
<1>3. \E k \in T : \A l \in T : k <= l
  <2> HIDE DEF Wrong
  <2>1. T # {} /\ T \subseteq Nat
    BY <1>1, <1>2
  <2> HIDE DEF T
  <2>2. QED
    BY <2>1, LeastExists
<1>4. PICK p \in Stretches(n) : Wrong(p) /\ \A r \in Stretches(n) : Wrong(r) => size(p) <= size(r)
  <2> HIDE DEF Wrong
  <2>1. PICK k \in T : \A l \in T : k <= l
    BY <1>3
  <2>2. PICK p \in Stretches(n) : size(p) = k /\ Wrong(p)
    OBVIOUS
  <2>3. QED
    BY <1>2, <2>1, <2>2
<1>5. p[1] \in 1 .. n + 1 /\ p[2] \in 0 .. n /\ size(p) = p[2] - p[1] + 1
  BY <1>2
<1>6. ASSUME NEW m \in D[p]
      PROVE  /\ f[<<p[1], m - 1>>] <=> Pairs(U, p[1], m - 1)
             /\ f[<<m + 1, p[2]>>] <=> Pairs(U, m + 1, p[2])
  <2> DEFINE a == <<p[1], m - 1>>
             b == <<m + 1, p[2]>>
  <2>1. m \in p[1] .. p[2]
    BY DEF SplitsRight, Greatest
  <2>2. a \in Stretches(n) /\ b \in Stretches(n)
    BY <1>5, <2>1 DEF Stretches
  <2>3. a[1] = p[1] /\ a[2] = m - 1 /\ b[1] = m + 1 /\ b[2] = p[2]
    OBVIOUS
  <2>4. ~(size(p) <= size(a)) /\ ~(size(p) <= size(b))
    BY <1>2, <1>5, <2>1, <2>2, <2>3
  <2>5. ~Wrong(a) /\ ~Wrong(b)
    BY <1>4, <2>2, <2>4, Zenon
  <2> HIDE DEF a, b
  <2>6. (f[a] <=> Pairs(U, a[1], a[2])) /\ (f[b] <=> Pairs(U, b[1], b[2]))
    BY <2>5, Zenon
  <2>7. (f[a] <=> Pairs(U, p[1], m - 1)) /\ (f[b] <=> Pairs(U, m + 1, p[2]))
    BY <2>3, <2>6, Zenon
  <2>8. QED
    BY <2>7, Zenon DEF a, b
<1>7. Pairs(U, p[1], p[2]) <=>
        p[1] > p[2] \/ \E m \in D[p] : Pairs(U, p[1], m - 1) /\ Pairs(U, m + 1, p[2])
  <2>1. D[p] \subseteq Greatest(U, p[1], p[2]) /\ (p[1] <= p[2] /\ Pairs(U, p[1], p[2]) => D[p] # {})
    BY DEF SplitsRight
  <2>2. QED
    BY <1>5, <2>1, SplitStep
<1>8. f[p] = Splits(D, f, p)
  BY Zenon DEF IsSplit
<1>9. QED
  BY <1>4, <1>6, <1>7, <1>8, Zenon DEF Splits

\* A stretch that passes has a greatest.
LEMMA GreatestExists ==
  ASSUME NEW n \in Nat, NEW U, Poset(U, n), NEW lo \in 1 .. n, NEW hi \in lo .. n, Pairs(U, lo, hi)
  PROVE  Greatest(U, lo, hi) # {}
<1> DEFINE T == {k \in lo .. hi : Greatest(U, lo, k) = {}}
<1>1. SUFFICES ASSUME T # {} PROVE FALSE
  OBVIOUS
<1>2. PICK k \in T : \A l \in T : k <= l
  <2>1. T \subseteq Nat
    OBVIOUS
  <2> HIDE DEF T
  <2>2. QED
    BY <1>1, <2>1, LeastExists
<1>3. k \in lo .. hi /\ Greatest(U, lo, k) = {}
  OBVIOUS
<1>4. k # lo
  <2>1. lo \in Greatest(U, lo, lo)
    BY DEF Greatest, Poset
  <2>2. QED
    BY <1>3, <2>1
<1> DEFINE j == k - 1
<1>5. j \in lo .. n - 1 /\ j \in lo .. hi /\ j + 1 = k /\ j \notin T
  BY <1>2, <1>3, <1>4
<1>6. PICK g \in Greatest(U, lo, j) : TRUE
  BY <1>5
<1>7. Pairs(U, lo, j + 1)
  BY <1>3, <1>5 DEF Pairs
<1> HIDE DEF j, T
<1>8. Greatest(U, lo, j + 1) # {}
  BY <1>5, <1>6, <1>7, GreatestNext
<1>9. QED
  BY <1>3, <1>5, <1>8

\* Which occurrence of the chain may lie under which, when E is the order.
Under(E) ==
  {p \in (1 .. Len(chain)) \X (1 .. Len(chain)) :
     \/ <<chain[p[1]], chain[p[2]]>> \in E
     \/ /\ chain[p[1]] = chain[p[2]]
        /\ IF assoc[chain[p[2]]] = "left" THEN p[1] <= p[2] ELSE p[2] <= p[1]}

Strict(E) == Transitive(E) /\ \A o : <<o, o>> \notin E

LEMMA UnderIs ==
  ASSUME NEW E, NEW a \in 1 .. Len(chain), NEW b \in 1 .. Len(chain)
  PROVE  <<a, b>> \in Under(E) <=>
           \/ <<chain[a], chain[b]>> \in E
           \/ chain[a] = chain[b] /\ (IF assoc[chain[b]] = "left" THEN a <= b ELSE b <= a)
  BY DEF Under

LEMMA UnderPoset ==
  ASSUME chain \in Seq(Ops), NEW E, Strict(E) PROVE Poset(Under(E), Len(chain))
<1>1. \A o, p, q : <<o, p>> \in E /\ <<p, q>> \in E => <<o, q>> \in E
  BY DEF Strict, Transitive, Closes
<1>2. \A o : <<o, o>> \notin E
  BY DEF Strict
<1> DEFINE n == Len(chain)
<1>3. n \in Nat
  OBVIOUS
<1> HIDE DEF n
<1>4. ASSUME NEW a \in 1 .. n, NEW b \in 1 .. n, NEW c \in 1 .. n
      PROVE  /\ <<a, a>> \in Under(E)
             /\ <<a, b>> \in Under(E) /\ <<b, a>> \in Under(E) => a = b
             /\ <<a, b>> \in Under(E) /\ <<b, c>> \in Under(E) => <<a, c>> \in Under(E)
  <2> DEFINE L(x, y) == IF assoc[chain[y]] = "left" THEN x <= y ELSE y <= x
             H(x, y) == <<chain[x], chain[y]>> \in E \/ (chain[x] = chain[y] /\ L(x, y))
  <2>1. \A x, y \in 1 .. n : <<x, y>> \in Under(E) <=> H(x, y)
    BY UnderIs DEF n
  <2>2. H(a, a)
    BY <1>3
  <2>3. ASSUME H(a, b), H(b, a) PROVE a = b
    <3>1. <<chain[a], chain[b]>> \notin E /\ <<chain[b], chain[a]>> \notin E
      BY <1>1, <1>2, <2>3
    <3>2. QED
      BY <1>3, <2>3, <3>1
  <2>4. ASSUME H(a, b), H(b, c) PROVE H(a, c)
    <3>1. CASE <<chain[a], chain[b]>> \in E \/ <<chain[b], chain[c]>> \in E
      BY <1>1, <2>4, <3>1
    <3>2. CASE chain[a] = chain[b] /\ chain[b] = chain[c] /\ L(a, b) /\ L(b, c)
      BY <1>3, <3>2
    <3>3. QED
      BY <2>4, <3>1, <3>2
  <2> HIDE DEF H
  <2>5. QED
    BY <2>1, <2>2, <2>3, <2>4
<1>5. QED
  BY <1>4 DEF Poset, n

\* The occurrences the rule may split at are the greatest.
LEMMA LooseIs ==
  ASSUME chain \in Seq(Ops), NEW E, NEW lo \in 1 .. Len(chain) + 1, NEW hi \in 0 .. Len(chain)
  PROVE  Fixity!LooseAt(lo, hi, E) = Greatest(Under(E), lo, hi)
<1>1. \A m \in lo .. hi : m \in 1 .. Len(chain)
  OBVIOUS
<1>2. QED
  BY <1>1, UnderIs DEF Fixity!LooseAt, Greatest

LEMMA PartsAre == ASSUME chain \in Seq(Ops) PROVE Fixity!Parts = Stretches(Len(chain)) /\ Len(chain) \in Nat
  BY DEF Fixity!Parts, Stretches


\* The rule: a chain means something when its pairs have an order.
LEMMA MeansIs ==
  ASSUME chain \in Seq(Ops), NEW E, Strict(E)
  PROVE  Fixity!MeansSomething(E) <=> Pairs(Under(E), 1, Len(chain))
<1> DEFINE n == Len(chain)
           U == Under(E)
           D == [p \in Stretches(n) |-> Greatest(U, p[1], p[2])]
           Is(f) == f = [p \in Fixity!Parts |->
                           \/ p[1] > p[2]
                           \/ \E m \in Fixity!LooseAt(p[1], p[2], E) :
                                f[<<p[1], m - 1>>] /\ f[<<m + 1, p[2]>>]]
<1>1. n \in Nat /\ Poset(U, n) /\ Fixity!Parts = Stretches(n)
  BY UnderPoset, PartsAre
<1> HIDE DEF n
<1>2. \A p \in Stretches(n) : p[1] \in 1 .. n + 1 /\ p[2] \in 0 .. n /\ Fixity!LooseAt(p[1], p[2], E) = D[p]
  <2>1. \A p \in Stretches(n) : p[1] \in 1 .. n + 1 /\ p[2] \in 0 .. n
    BY DEF Stretches
  <2>2. QED
    BY <2>1, LooseIs DEF n
<1> HIDE DEF U
<1>3. SplitsRight(D, U, n)
  <2>1. ASSUME NEW p \in Stretches(n), p[1] <= p[2], Pairs(U, p[1], p[2]) PROVE D[p] # {}
    <3>1. p[1] \in 1 .. n /\ p[2] \in p[1] .. n
      BY <1>1, <1>2, <2>1
    <3>2. Greatest(U, p[1], p[2]) # {}
      BY <1>1, <2>1, <3>1, GreatestExists
    <3>3. QED
      BY <3>2
  <2>2. QED
    BY <2>1 DEF SplitsRight
<1> HIDE DEF D
<1>4. \A f : Is(f) <=> IsSplit(D, n, f)
  <2> SUFFICES ASSUME NEW f PROVE Is(f) <=> IsSplit(D, n, f)
    OBVIOUS
  <2> DEFINE B(p) == \/ p[1] > p[2]
                     \/ \E m \in Fixity!LooseAt(p[1], p[2], E) :
                          f[<<p[1], m - 1>>] /\ f[<<m + 1, p[2]>>]
  <2>1. \A p \in Stretches(n) : B(p) = Splits(D, f, p)
    BY <1>2, Zenon DEF Splits
  <2>2. Is(f) <=> f = [p \in Stretches(n) |-> B(p)]
    BY <1>1, Zenon
  <2> HIDE DEF B, Is
  <2>3. QED
    BY <2>1, <2>2, Zenon DEF IsSplit
<1>5. \E f : Is(f)
  BY <1>1, <1>3, <1>4, SplitExists, Zenon
<1> DEFINE f == CHOOSE g : Is(g)
<1>6. Is(f)
  BY <1>5, Zenon
<1>7. Fixity!MeansSomething(E) <=> f[<<1, n>>]
  BY Zenon DEF Fixity!MeansSomething, n
<1> HIDE DEF f, Is
<1>8. <<1, n>> \in Stretches(n)
  BY <1>1 DEF Stretches
<1>9. f[<<1, n>>] <=> Pairs(U, <<1, n>>[1], <<1, n>>[2])
  BY <1>1, <1>3, <1>4, <1>6, <1>8, SplitIs, Zenon
<1>10. QED
  BY <1>7, <1>9 DEF U, n

\* What the scan makes of two occurrences.
LEMMA LaterIs ==
  ASSUME chain \in Seq(Ops), assoc \in [Ops -> {"left", "right"}], Strict(order),
         NEW b \in 1 .. Len(chain), NEW k \in 1 .. Len(chain), b < k
  PROVE  /\ <<b, k>> \in Under(order) => Fixity!Later(b, k) = k
         /\ <<k, b>> \in Under(order) => Fixity!Later(b, k) = b
         /\ <<b, k>> \notin Under(order) /\ <<k, b>> \notin Under(order) => Fixity!Later(b, k) = 0
<1>1. chain[b] \in Ops /\ chain[k] \in Ops /\ b \in Nat /\ k \in Nat
  OBVIOUS
<1>2. /\ <<b, k>> \in Under(order) <=>
           <<chain[b], chain[k]>> \in order \/ (chain[b] = chain[k] /\ assoc[chain[k]] = "left")
      /\ <<k, b>> \in Under(order) <=>
           <<chain[k], chain[b]>> \in order \/ (chain[b] = chain[k] /\ assoc[chain[k]] # "left")
  BY <1>1, UnderIs
<1>3. ~(<<chain[b], chain[k]>> \in order /\ <<chain[k], chain[b]>> \in order)
      /\ <<chain[b], chain[b]>> \notin order
  BY DEF Strict, Transitive, Closes
<1>4. QED
  BY <1>2, <1>3 DEF Fixity!Later, Fixity!Tighter

\* The scan finds the greatest of lo .. hi, or 0 where two have no order.
LEMMA ScanIs ==
  ASSUME chain \in Seq(Ops), assoc \in [Ops -> {"left", "right"}], Strict(order),
         NEW lo \in 1 .. Len(chain), NEW hi \in lo .. Len(chain)
  PROVE  LET m == Fixity!FindLoosest(lo, hi)
         IN  /\ m # 0 => m \in Greatest(Under(order), lo, hi)
             /\ Pairs(Under(order), lo, hi) => m # 0
<1> DEFINE n == Len(chain)
           U == Under(order)
           step == [p \in Nat \X Nat |->
                      IF p[1] <= lo THEN lo
                      ELSE IF p[2] = 0 \/ p[1] \notin 1 .. n THEN 0
                      ELSE IF Fixity!Later(p[2], p[1]) \in Nat THEN Fixity!Later(p[2], p[1]) ELSE 0]
           Is(f) == f = [k \in 0 .. hi |->
                           IF k <= lo THEN lo
                           ELSE IF f[k - 1] = 0 THEN 0 ELSE Fixity!Later(f[k - 1], k)]
<1>1. n \in Nat /\ Poset(U, n) /\ lo \in 1 .. n /\ hi \in lo .. n /\ hi \in Nat
  BY UnderPoset
<1> HIDE DEF n, U
<1>2. \A b, k \in Nat : Fixity!Later(b, k) \in Nat
  BY DEF Fixity!Later
<1>3. step \in Stepper(Nat)
  BY <1>1 DEF Stepper
<1>4. \E f : Is(f)
  <2> HIDE DEF step
  <2>1. PICK f \in [0 .. hi -> Nat] : f[0] = lo /\ \A k \in 1 .. hi : f[k] = step[<<k, f[k - 1]>>]
    <3>1. Runs(Nat, lo, step, hi) # {}
      <4>1. lo \in Nat
        BY <1>1
      <4>2. QED
        BY <1>1, <1>3, <4>1, RecursionRuns, Zenon
    <3>2. QED
      BY <3>1 DEF Runs
  <2>2. ASSUME NEW k \in 0 .. hi
        PROVE  f[k] = IF k <= lo THEN lo ELSE IF f[k - 1] = 0 THEN 0 ELSE Fixity!Later(f[k - 1], k)
    <3>1. CASE k = 0
      BY <1>1, <2>1, <3>1
    <3>2. CASE k # 0
      <4>1. k \in 1 .. hi /\ k \in 1 .. n /\ k - 1 \in 0 .. hi /\ f[k - 1] \in Nat
        <5>1. k \in 1 .. hi /\ k \in 1 .. n /\ k - 1 \in 0 .. hi
          BY <1>1, <3>2
        <5>2. QED
          BY <2>1, <5>1
      <4>2. f[k] = step[<<k, f[k - 1]>>] /\ <<k, f[k - 1]>> \in Nat \X Nat
        BY <2>1, <4>1
      <4>3. Fixity!Later(f[k - 1], k) \in Nat
        <5>1. k \in Nat
          OBVIOUS
        <5>2. QED
          BY <1>2, <4>1, <5>1, Zenon
      <4> USE DEF step
      <4>4. QED
        BY <4>1, <4>2, <4>3
    <3>3. QED
      BY <3>1, <3>2
  <2>3. f = [k \in 0 .. hi |-> f[k]]
    BY <2>1
  <2>4. Is(f)
    BY <2>2, <2>3, Zenon
  <2>5. QED
    BY <2>4
<1> DEFINE f == CHOOSE g : Is(g)
<1>5. Is(f)
  BY <1>4, Zenon
<1>6. Fixity!FindLoosest(lo, hi) = f[hi]
  BY Zenon DEF Fixity!FindLoosest
<1>7. ASSUME NEW k \in 0 .. hi
      PROVE  f[k] = IF k <= lo THEN lo ELSE IF f[k - 1] = 0 THEN 0 ELSE Fixity!Later(f[k - 1], k)
  BY <1>5, Zenon
<1> HIDE DEF f, Is, step
<1> DEFINE Right(k) == /\ f[k] # 0 => f[k] \in Greatest(U, lo, k)
                       /\ Pairs(U, lo, k) => f[k] # 0
           T == {k \in lo .. hi : ~Right(k)}
<1>8. T = {}
  <2>1. SUFFICES ASSUME T # {} PROVE FALSE
    OBVIOUS
  <2> HIDE DEF Right
  <2>2. PICK k \in T : \A l \in T : k <= l
    <3>1. T \subseteq Nat
      BY <1>1
    <3> HIDE DEF T
    <3>2. QED
      BY <2>1, <3>1, LeastExists
  <2>3. k \in lo .. hi /\ ~Right(k)
    OBVIOUS
  <2>4. k # lo
    <3>1. f[lo] = lo
      BY <1>1, <1>7
    <3>2. lo \in Greatest(U, lo, lo)
      BY <1>1 DEF Greatest, Poset
    <3>3. Right(lo)
      BY <1>1, <3>1, <3>2 DEF Right
    <3>4. QED
      BY <2>3, <3>3
  <2> DEFINE j == k - 1
             b == f[j]
  <2>5. j \in lo .. n - 1 /\ j \in lo .. hi /\ j + 1 = k /\ k \in 1 .. n /\ Right(j)
    BY <1>1, <2>2, <2>3, <2>4
  <2>6. f[k] = IF b = 0 THEN 0 ELSE Fixity!Later(b, k)
    BY <1>1, <1>7, <2>3, <2>4
  <2>7. Pairs(U, lo, k) => Pairs(U, lo, j)
    BY <1>1, <2>5 DEF Pairs
  <2> HIDE DEF b, j
  <2>8. CASE b = 0
    <3>1. f[k] = 0 /\ ~Pairs(U, lo, k)
      BY <2>5, <2>6, <2>7, <2>8 DEF Right, b
    <3>2. QED
      BY <2>3, <3>1 DEF Right
  <2>9. CASE b # 0
    <3>1. b \in Greatest(U, lo, j)
      BY <2>5, <2>9 DEF Right, b
    <3>2. b \in lo .. j
      BY <3>1 DEF Greatest
    <3>3. b \in 1 .. n /\ b < k
      BY <1>1, <2>5, <3>2
    <3>4. /\ <<b, k>> \in U => f[k] = k
          /\ <<k, b>> \in U => f[k] = b
          /\ <<b, k>> \notin U /\ <<k, b>> \notin U => f[k] = 0
      BY <2>5, <2>6, <2>9, <3>3, LaterIs DEF n, U
    <3>5. /\ <<b, j + 1>> \in U => j + 1 \in Greatest(U, lo, j + 1)
          /\ <<j + 1, b>> \in U => b \in Greatest(U, lo, j + 1)
          /\ Pairs(U, lo, j + 1) => <<b, j + 1>> \in U \/ <<j + 1, b>> \in U
      BY <1>1, <2>5, <3>1, GreatestNext
    <3>6. Right(k)
      <4>1. b # 0 /\ k # 0
        BY <2>5, <2>9
      <4>2. QED
        BY <2>5, <3>4, <3>5, <4>1 DEF Right
    <3>7. QED
      BY <2>3, <3>6
  <2>10. QED
    BY <2>8, <2>9
<1>9. Right(hi)
  BY <1>1, <1>8
<1>10. QED
  BY <1>6, <1>9 DEF U

LEMMA ReordersIs ==
  ASSUME chain \in Seq(Ops), assoc \in [Ops -> {"left", "right"}], Strict(order)
  PROVE  Fixity!Reorders <=> Pairs(Under(order), 1, Len(chain))
<1> DEFINE n == Len(chain)
           U == Under(order)
           D == [p \in Stretches(n) |-> IF p[1] > p[2] THEN {} ELSE {Fixity!FindLoosest(p[1], p[2])} \ {0}]
           Is(f) == f = [p \in Fixity!Parts |->
                           p[1] > p[2] \/ LET m == Fixity!FindLoosest(p[1], p[2])
                                          IN m # 0 /\ f[<<p[1], m - 1>>] /\ f[<<m + 1, p[2]>>]]
<1>1. n \in Nat /\ Poset(U, n) /\ Fixity!Parts = Stretches(n)
  BY UnderPoset, PartsAre
<1> HIDE DEF n
<1>2. \A p \in Stretches(n) : p[1] \in 1 .. n + 1 /\ p[2] \in 0 .. n
  BY DEF Stretches
<1> HIDE DEF U
<1>3. SplitsRight(D, U, n)
  <2>1. ASSUME NEW p \in Stretches(n), ~(p[1] > p[2])
        PROVE  D[p] \subseteq Greatest(U, p[1], p[2]) /\ (Pairs(U, p[1], p[2]) => D[p] # {})
    <3> DEFINE m == Fixity!FindLoosest(p[1], p[2])
    <3>1. p[1] \in 1 .. n /\ p[2] \in p[1] .. n
      BY <1>1, <1>2, <2>1
    <3>2. (m # 0 => m \in Greatest(U, p[1], p[2])) /\ (Pairs(U, p[1], p[2]) => m # 0)
      BY <3>1, ScanIs DEF n, U
    <3>3. D[p] = {m} \ {0}
      BY <2>1
    <3> HIDE DEF m, D
    <3>4. QED
      BY <3>2, <3>3
  <2>2. ASSUME NEW p \in Stretches(n), p[1] > p[2] PROVE D[p] = {} /\ ~(p[1] <= p[2])
    BY <1>1, <1>2, <2>2
  <2> HIDE DEF D
  <2>3. QED
    BY <2>1, <2>2 DEF SplitsRight
<1>4. \A f : Is(f) <=> IsSplit(D, n, f)
  <2> SUFFICES ASSUME NEW f PROVE Is(f) <=> IsSplit(D, n, f)
    OBVIOUS
  <2> DEFINE B(p) == p[1] > p[2] \/ LET m == Fixity!FindLoosest(p[1], p[2])
                                    IN m # 0 /\ f[<<p[1], m - 1>>] /\ f[<<m + 1, p[2]>>]
  <2>1. ASSUME NEW p \in Stretches(n) PROVE B(p) = Splits(D, f, p)
    <3>1. D[p] = IF p[1] > p[2] THEN {} ELSE {Fixity!FindLoosest(p[1], p[2])} \ {0}
      OBVIOUS
    <3> HIDE DEF D
    <3>2. CASE p[1] > p[2]
      BY <3>2, Zenon DEF Splits
    <3>3. CASE ~(p[1] > p[2])
      <4>1. \A m : m \in D[p] <=> m = Fixity!FindLoosest(p[1], p[2]) /\ m # 0
        BY <3>1, <3>3
      <4>2. QED
        BY <3>3, <4>1, Zenon DEF Splits
    <3>4. QED
      BY <3>2, <3>3
  <2>2. Is(f) <=> f = [p \in Stretches(n) |-> B(p)]
    BY <1>1, Zenon
  <2> HIDE DEF B, Is, D
  <2>3. QED
    BY <2>1, <2>2, Zenon DEF IsSplit
<1> HIDE DEF D
<1>5. \E f : Is(f)
  BY <1>1, <1>3, <1>4, SplitExists, Zenon
<1> DEFINE f == CHOOSE g : Is(g)
<1>6. Is(f)
  BY <1>5, Zenon
<1>7. Fixity!Reorders <=> f[<<1, n>>]
  BY Zenon DEF Fixity!Reorders, n
<1> HIDE DEF f, Is
<1>8. <<1, n>> \in Stretches(n)
  BY <1>1 DEF Stretches
<1>9. f[<<1, n>>] <=> Pairs(U, <<1, n>>[1], <<1, n>>[2])
  BY <1>1, <1>3, <1>4, <1>6, <1>8, SplitIs, Zenon
<1>10. QED
  BY <1>7, <1>9 DEF U, n

\* Two occurrences without an order meet at one that separates them.
LEMMA MeetIs ==
  ASSUME chain \in Seq(Ops), NEW E, Strict(E),
         NEW a \in 1 .. Len(chain), NEW b \in 1 .. Len(chain), a < b
  PROVE  Meet(Under(E), a, b) <=>
           \/ chain[a] = chain[b] \/ <<chain[a], chain[b]>> \in E \/ <<chain[b], chain[a]>> \in E
           \/ \E k \in a + 1 .. b - 1 : <<chain[a], chain[k]>> \in E /\ <<chain[b], chain[k]>> \in E
<1> DEFINE n == Len(chain)
           U == Under(E)
           Near == chain[a] = chain[b] \/ <<chain[a], chain[b]>> \in E \/ <<chain[b], chain[a]>> \in E
<1>1. n \in Nat /\ \A k \in a + 1 .. b - 1 : k \in 1 .. n
  OBVIOUS
<1> HIDE DEF n
<1>2. (<<a, b>> \in U \/ <<b, a>> \in U) <=> Near
  BY <1>1, UnderIs DEF n
<1>3. ASSUME NEW k \in a + 1 .. b - 1, ~Near
      PROVE  (<<a, k>> \in U /\ <<b, k>> \in U)
               <=> (<<chain[a], chain[k]>> \in E /\ <<chain[b], chain[k]>> \in E)
  <2>1. /\ <<a, k>> \in U => <<chain[a], chain[k]>> \in E \/ chain[a] = chain[k]
        /\ <<b, k>> \in U => <<chain[b], chain[k]>> \in E \/ chain[b] = chain[k]
        /\ <<chain[a], chain[k]>> \in E => <<a, k>> \in U
        /\ <<chain[b], chain[k]>> \in E => <<b, k>> \in U
    BY <1>1, UnderIs DEF n
  <2> HIDE DEF U
  <2>2. QED
    BY <1>3, <2>1
<1> HIDE DEF U, Near
<1>4. CASE Near
  BY <1>2, <1>4, Zenon DEF Meet, Near, U
<1>5. CASE ~Near
  BY <1>2, <1>3, <1>5, Zenon DEF Meet, Near, U
<1>6. QED
  BY <1>4, <1>5

\* The check: a chain of known operators passes when its pairs have an order.
LEMMA ChecksAre ==
  ASSUME chain \in Seq(Ops), Strict(order), Fixity!ToSet(chain) \subseteq Fixity!Entries
  PROVE  Fixity!ChainPasses <=> Pairs(Under(order), 1, Len(chain))
<1> DEFINE n == Len(chain)
<1>1. n \in Nat /\ DOMAIN chain = 1 .. n
  OBVIOUS
<1>2. \A k \in 1 .. n : chain[k] \in Fixity!Entries
  BY <1>1 DEF Fixity!ToSet
<1> HIDE DEF n
<1> DEFINE C(a, b) == \/ {chain[a], chain[b]} \notin SUBSET Fixity!Entries
                      \/ Fixity!Related(chain[a], chain[b])
                      \/ \E k \in a + 1 .. b - 1 : Fixity!Shield(a, b, k)
<1>3. ASSUME NEW a \in 1 .. n, NEW b \in 1 .. n, a < b
      PROVE  C(a, b) <=> Meet(Under(order), a, b)
  <2>1. \A k \in a + 1 .. b - 1 : k \in 1 .. n
    BY <1>1
  <2>2. C(a, b) <=>
           \/ chain[a] = chain[b] \/ <<chain[a], chain[b]>> \in order \/ <<chain[b], chain[a]>> \in order
           \/ \E k \in a + 1 .. b - 1 : <<chain[a], chain[k]>> \in order /\ <<chain[b], chain[k]>> \in order
    BY <1>2, <2>1 DEF Fixity!Related, Fixity!Shield, Fixity!Tighter
  <2>3. QED
    BY <1>3, <2>2, MeetIs DEF n
<1>4. Fixity!ChainPasses <=> \A b \in 1 .. n : \A a \in 1 .. b - 1 : C(a, b)
  BY <1>1, Zenon DEF Fixity!ChainPasses
<1> HIDE DEF C
<1>5. QED
  BY <1>1, <1>3, <1>4 DEF Pairs, n

LEMMA AnswersAgree ==
  ASSUME chain \in Seq(Ops), assoc \in [Ops -> {"left", "right"}], Strict(order),
         Fixity!ToSet(chain) \subseteq Fixity!Entries
  PROVE  /\ Fixity!ChainPasses <=> Fixity!MeansSomething(order)
         /\ Fixity!Reorders <=> Fixity!MeansSomething(order)
         /\ Fixity!Reorders => \A p \in Fixity!Parts :
              Fixity!LooseAt(p[1], p[2], order) \subseteq {Fixity!FindLoosest(p[1], p[2])}
<1> DEFINE n == Len(chain)
           U == Under(order)
<1>1. n \in Nat /\ Poset(U, n) /\ Fixity!Parts = Stretches(n)
  BY UnderPoset, PartsAre
<1>2. ASSUME Fixity!Reorders, NEW p \in Stretches(n), NEW m \in Fixity!LooseAt(p[1], p[2], order)
      PROVE  m = Fixity!FindLoosest(p[1], p[2])
  <2>1. p[1] \in 1 .. n + 1 /\ p[2] \in 0 .. n
    BY DEF Stretches
  <2>2. m \in Greatest(U, p[1], p[2])
    BY <2>1, LooseIs
  <2>3. m \in p[1] .. p[2]
    BY <2>2 DEF Greatest
  <2>4. p[1] \in 1 .. n /\ p[2] \in p[1] .. n
    BY <1>1, <2>1, <2>3
  <2>5. Pairs(U, 1, n)
    BY <1>2, ReordersIs
  <2>6. Pairs(U, p[1], p[2])
    BY <1>1, <2>4, <2>5 DEF Pairs
  <2>7. Fixity!FindLoosest(p[1], p[2]) \in Greatest(U, p[1], p[2])
    BY <2>4, <2>6, ScanIs
  <2> HIDE DEF U, n
  <2>8. QED
    BY <1>1, <2>1, <2>2, <2>4, <2>7, GreatestUnique
<1>3. QED
  BY <1>1, <1>2, MeansIs, ReordersIs, ChecksAre

\* An order that leaves the declared as they are makes no sense of a chain that
\* the check reports.
LEMMA FaultsHold ==
  ASSUME chain \in Seq(Ops), Strict(order), Fixity!Entries = Fixity!Declared,
         NEW E, Strict(E), order \subseteq E,
         E \cap (Fixity!Declared \X Fixity!Declared) = order \cap (Fixity!Declared \X Fixity!Declared),
         Fixity!MeansSomething(E)
  PROVE  Fixity!ChainPasses
<1> DEFINE n == Len(chain)
           K == Fixity!Declared
<1>1. n \in Nat /\ DOMAIN chain = 1 .. n
  OBVIOUS
<1>2. Pairs(Under(E), 1, n)
  BY MeansIs
<1>3. \A o, p : o \in K /\ p \in K /\ <<o, p>> \in E => <<o, p>> \in order
  OBVIOUS
<1> HIDE DEF n, K
<1>4. ASSUME NEW b \in 1 .. n, NEW a \in 1 .. b - 1, {chain[a], chain[b]} \in SUBSET K
      PROVE  \/ Fixity!Related(chain[a], chain[b])
             \/ \E k \in a + 1 .. b - 1 : Fixity!Shield(a, b, k)
  <2>1. a \in 1 .. n /\ a < b /\ chain[a] \in K /\ chain[b] \in K
    BY <1>1, <1>4
  <2>2. Meet(Under(E), a, b)
    BY <1>1, <1>2, <2>1 DEF Pairs
  <2>3. \/ chain[a] = chain[b] \/ <<chain[a], chain[b]>> \in E \/ <<chain[b], chain[a]>> \in E
        \/ \E k \in a + 1 .. b - 1 : <<chain[a], chain[k]>> \in E /\ <<chain[b], chain[k]>> \in E
    BY <2>1, <2>2, MeetIs DEF n
  <2>4. CASE chain[a] = chain[b] \/ <<chain[a], chain[b]>> \in E \/ <<chain[b], chain[a]>> \in E
    BY <1>3, <2>1, <2>4 DEF Fixity!Related, Fixity!Tighter
  <2>5. ASSUME NEW k \in a + 1 .. b - 1, <<chain[a], chain[k]>> \in E, <<chain[b], chain[k]>> \in E
        PROVE  Fixity!Shield(a, b, k)
    BY <1>3, <2>1, <2>5 DEF Fixity!Shield, Fixity!Tighter, K
  <2>6. QED
    BY <2>3, <2>4, <2>5
<1>5. QED
  BY <1>1, <1>4 DEF Fixity!ChainPasses, K

\* In a chain of a file without rings the order is strict.
LEMMA OrderStrict ==
  ASSUME FixInv, stage = "chains", Fixity!Acyclic
  PROVE  chain \in Seq(Ops) /\ assoc \in [Ops -> {"left", "right"}] /\ Strict(order)
<1>1. FixTypes /\ Transitive(order)
  BY DEF FixInv, StagesRight
<1>2. ASSUME NEW o, <<o, o>> \in order PROVE FALSE
  <2>1. o \in Ops
    BY <1>1, <1>2 DEF FixTypes, Listed
  <2>2. QED
    BY <1>2, <2>1 DEF Fixity!Acyclic, Fixity!InRing
<1>3. QED
  BY <1>1, <1>2 DEF Strict, FixTypes

LEMMA InvSplits == FixInv => Fixity!ShieldIsSplit
<1> SUFFICES ASSUME FixInv, stage = "chains", Fixity!Acyclic, Fixity!Placeable
             PROVE  /\ Fixity!ChainPasses <=> Fixity!MeansSomething(order)
                    /\ Fixity!Reorders <=> Fixity!MeansSomething(order)
                    /\ Fixity!Reorders => \A p \in Fixity!Parts :
                         Fixity!LooseAt(p[1], p[2], order) \subseteq {Fixity!FindLoosest(p[1], p[2])}
  BY DEF Fixity!ShieldIsSplit
<1>1. Fixity!ToSet(chain) \subseteq Fixity!Entries
  BY DEF Fixity!Placeable
<1>2. QED
  BY <1>1, OrderStrict, AnswersAgree, Zenon

LEMMA InvFaults == FixInv => Fixity!PartialIsHonest
<1> SUFFICES ASSUME FixInv, stage = "chains", Fixity!Acyclic, Fixity!Entries = Fixity!Declared,
                    ~Fixity!ChainPasses, NEW E \in Fixity!Extensions, Fixity!MeansSomething(E)
             PROVE  FALSE
  BY DEF Fixity!PartialIsHonest, Fixity!FaultStands
<1>1. /\ E \subseteq Ops \X Ops /\ order \subseteq E
      /\ \A o, p, q \in Ops : <<o, p>> \in E /\ <<p, q>> \in E => <<o, q>> \in E
      /\ \A o \in Ops : <<o, o>> \notin E
      /\ E \cap (Fixity!Declared \X Fixity!Declared) = order \cap (Fixity!Declared \X Fixity!Declared)
  BY DEF Fixity!Extensions
<1>2. Strict(E)
  BY <1>1 DEF Strict, Transitive, Closes
<1>3. QED
  BY <1>1, <1>2, OrderStrict, FaultsHold

\* Of any declarations, read in any order, the table comes to be that of the
\* first declaration of each operator, closed, with each circular order
\* reported once (build_fixity, check_fixity_cycles).
THEOREM FixityTable == FSpec => []TableRight
<1>1. FixInv => TableRight
  BY InvTable, InvRings DEF TableRight
<1>2. QED
  BY <1>1, FixInit, FixKeeps, PTL DEF FSpec

\* On a chain of any length the pairwise check of check_chain, the scan of
\* find_loosest and the rule of the loosest operator agree, and the scan splits
\* where the rule does.
THEOREM SplitsAgree == FSpec => []ShieldIsSplit
<1>1. FixInv => ShieldIsSplit
  BY InvSplits DEF ShieldIsSplit
<1>2. QED
  BY <1>1, FixInit, FixKeeps, PTL DEF FSpec

\* A chain that check_chain reports means nothing under any order that the
\* declarations of other files can extend this one to, where every entry of the
\* table is a declaration.
THEOREM FaultsStand == FSpec => []PartialIsHonest
<1>1. FixInv => PartialIsHonest
  BY InvFaults DEF PartialIsHonest
<1>2. QED
  BY <1>1, FixInit, FixKeeps, PTL DEF FSpec
==============================================================================
