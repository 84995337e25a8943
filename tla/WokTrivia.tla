------------------------------ MODULE WokTrivia -----------------------------
(***************************************************************************)
(* Comments across a run of the formatter: grammar/c/wok_trivia.c gives     *)
(* each comment of a file a target, wok_print.c writes the tree with the    *)
(* comments put back.  A file is the sequence of its items (what a block    *)
(* holds one per line) and comments in source order; the tree is the        *)
(* nesting of the items.  A step writes one more entry of the file,         *)
(* attaches one comment, or prints the whole; then the text printed is      *)
(* formatted again.                                                        *)
(*                                                                         *)
(* An item "self" owns a block (an effect, a class, a `case` statement),    *)
(* "inner" has a node inside it that does, "where" has a where block,       *)
(* "paren" holds a block inside brackets.  A wide item does not fit on a    *)
(* line: the filler breaks it.                                             *)
(***************************************************************************)
EXTENDS Integers, Sequences, FiniteSets
LOCAL INSTANCE SequencesExt

CONSTANTS MaxItems, MaxComments,  \* bounds of a file
          Columns,                \* columns of a comment on a line of its own
          Owners                  \* kinds of items

VARIABLES
  text,     \* the file: entries in source order
  stage,    \* "write", "attach", "read" or "done"
  tree,     \* Builder: what the walk records of each item
  target,   \* targets of the comments attached so far
  prev,     \* the text the current one was printed from
  rounds    \* times printed

vars == <<text, stage, tree, target, prev, rounds>>

-----------------------------------------------------------------------------
(* The file.                                                               *)

ItemsOf(s)    == {k \in DOMAIN s : s[k].kind = "item"}
CommentsOf(s) == {k \in DOMAIN s : s[k].kind = "comment"}
Items    == ItemsOf(text)
Comments == CommentsOf(text)
Depth(k)  == IF k = 0 THEN -1 ELSE text[k].depth

\* The items k is nested in, and the file, 0.
Ancestors(k) ==
  {0} \cup {a \in Items : a < k /\ \A i \in Items : a < i /\ i <= k => Depth(i) > Depth(a)}
LineHead(k) == Max({h \in 1 .. k : text[h].fresh})

Entry(kind, id, fresh, col, gap) ==
  [kind |-> kind, id |-> id, depth |-> 0, owns |-> "none", wide |-> FALSE,
   fresh |-> fresh, col |-> col, line |-> FALSE, gap |-> gap]
Comment(id, fresh, col, line, gap) == [Entry("comment", id, fresh, col, gap) EXCEPT !.line = line]
Rest(id) == Entry("rest", id, TRUE, 0, FALSE)

\* Columns grow along a line.
Further == 20 + Len(text)
Joinable == text # <<>> /\ ~text[Len(text)].line
ItemCol(p) == IF p = 0 THEN 1 ELSE text[p].col + (IF text[p].owns = "where" THEN 4 ELSE 2)
\* Bounds: a file has one wide item, one on two lines or one paragraph break,
\* and then no item whose block is its own or in brackets.
Regular == \A k \in DOMAIN text : ~text[k].wide /\ ~text[k].gap /\ text[k].kind # "rest"
Plain   == \A k \in Items : text[k].owns \notin {"self", "paren"}

\* On its parent's line only as the one item of its block; so in brackets.
PutItem(d, owns, wide, fresh, gap) ==
  LET open == Ancestors(Len(text) + 1)
      p    == CHOOSE q \in open : Depth(q) = d - 1
      only == {i \in Items : i > p /\ Depth(i) = d}
      inBracket == p # 0 /\ text[p].owns = "paren"
  IN
  /\ stage = "write" /\ Cardinality(Items) < MaxItems
  /\ wide => owns = "none" /\ ~gap
  /\ gap => fresh /\ d > 0
  /\ owns \in {"self", "paren"} => Regular
  /\ wide \/ gap => Regular /\ Plain
  /\ \E q \in open : Depth(q) = d - 1
  /\ p # 0 => text[p].owns # "none"
  /\ wide => ~inBracket
  /\ inBracket => owns = "none" /\ only = {}
  /\ IF fresh THEN \A i \in only : text[i].fresh
     ELSE p # 0 /\ only = {} /\ Joinable /\ LineHead(Len(text)) <= p
  \* A block is never left empty.
  /\ p # Max(open) => text[Max(open)].owns = "none"
  /\ text' = Append(text, [Entry("item", Cardinality(Items) + 1, fresh,
                                 IF fresh THEN ItemCol(p) ELSE Further, gap)
                           EXCEPT !.depth = d, !.owns = owns, !.wide = wide])
  /\ UNCHANGED <<stage, tree, target, prev, rounds>>

\* A second line of the last item.
PutRest ==
  /\ stage = "write" /\ Items # {} /\ Regular /\ Plain
  /\ text[Max(Items)].owns = "none"
  /\ text' = Append(text, Rest(text[Max(Items)].id))
  /\ UNCHANGED <<stage, tree, target, prev, rounds>>

PutComment(fresh, col, line, gap) ==
  /\ stage = "write" /\ Cardinality(Comments) < MaxComments
  /\ IF fresh THEN line /\ (gap => Regular /\ Plain) ELSE Joinable /\ col = Max(Columns) /\ ~gap
  /\ text' = Append(text, Comment(Cardinality(Comments) + 1, fresh,
                                  IF fresh THEN col ELSE Further, line, gap))
  /\ UNCHANGED <<stage, tree, target, prev, rounds>>

-----------------------------------------------------------------------------
(* wok_trivia_attach.                                                      *)

\* walk_node, walk_scope, lines_build: the items and blocks of the tree.
LastOf(k, sub) ==
  Max({k} \cup sub \cup {r \in DOMAIN text : text[r].kind = "rest" /\ r > k
                            /\ Max({i \in Items : i < r}) \in {k} \cup sub})
Walk ==
  [k \in Items |->
     LET up   == Ancestors(k)
         sub  == {i \in Items : k \in Ancestors(i)}
         last == LastOf(k, sub)
     IN [up   |-> up,
         scope |-> Max(up),
         kids |-> {i \in sub : Depth(i) = Depth(k) + 1},
         last |-> last,
         tail |-> Max({k} \cup sub),
         flat |-> \E a \in up \ {0} : text[a].owns = "paren",
         line |-> IF LineHead(k) = LineHead(last) THEN LineHead(k) ELSE 0]]

\* The file is complete, or what was printed is read again.
Written ==
  /\ \/ stage = "write" /\ Comments # {} /\ Items # {} /\ text[Max(Items)].owns = "none"
     \/ stage = "read"
  /\ stage' = "attach"
  /\ tree' = Walk
  /\ UNCHANGED <<text, target, prev, rounds>>

\* item_takes_trail, scope_is_closable.
TakesTrail(k) == text[k].owns # "self"
Closable(s)   == text[s].owns # "where"
FlatScope(s)  == text[s].owns = "paren" \/ tree[s].flat

\* The place in the printed text: the Euler timestamps of the walk.
Rank(kind, k) ==
  IF kind = "lead" THEN 100 * k
  ELSE IF k = 0 THEN 100 * (Len(text) + 1)
  ELSE 100 * tree[k].tail + 50 - 2 * Depth(k) - (IF kind = "close" THEN 1 ELSE 0)
Target(kind, k) == [kind |-> kind, item |-> k, rank |-> Rank(kind, k)]

\* find_line_item: the last item that begins and ends on the comment's line.
LineItems(c) ==
  {i \in Items : /\ tree[i].line = LineHead(c) /\ tree[i].last < c
                 /\ ~tree[i].flat /\ TakesTrail(i)}

\* choose_close_scope: the innermost block whose items sit at or left of it.
FirstItemCol(s) == text[Min(tree[s].kids)].col
CloseScope(c) ==
  LET before == {i \in Items : i < c}
      blocks == IF before = {} THEN {} ELSE tree[Max(before)].up \ {0}
  IN Max({0} \cup {s \in blocks : Closable(s) /\ ~FlatScope(s) /\ FirstItemCol(s) <= text[c].col})

Choice(c) ==
  LET later == {i \in Items : i > c /\ ~tree[i].flat}
      next  == Min(later)
      s     == CloseScope(c)
  IN IF ~text[c].fresh /\ LineItems(c) # {} THEN Target("trail", Max(LineItems(c)))
     ELSE IF later # {} /\ (text[c].col <= text[next].col \/ s \in tree[next].up)
     THEN Target("lead", next)
     ELSE Target("close", s)

Nth(j) == CHOOSE c \in Comments : Cardinality({b \in Comments : b < c}) = j - 1

\* A target that would print before the previous comment's loses.
MutInOrder(t) == t
InOrder(t) ==
  IF target # <<>> /\ t.rank < target[Len(target)].rank THEN target[Len(target)] ELSE t

Attach ==
  /\ stage = "attach" /\ Len(target) < Cardinality(Comments)
  /\ target' = Append(target, InOrder(Choice(Nth(Len(target) + 1))))
  /\ UNCHANGED <<text, stage, tree, prev, rounds>>

-----------------------------------------------------------------------------
(* wok_print.                                                              *)

\* An entry's run: so many of the pool's comments from the first on.
Run(S) == IF S = {} THEN <<>> ELSE [j \in 1 .. Cardinality(S) |-> Nth(Min(S) + j - 1)]
Aimed(kind, k) == {j \in DOMAIN target : target[j].kind = kind /\ target[j].item = k}
LeadRun(k) == Run(Aimed("lead", k))
\* An item that owns its block has one trailing range, for the block.
SharedRun(k) == Run(Aimed("close", k) \cup Aimed("trail", k))
CloseRun(s) == IF s # 0 /\ text[s].owns = "where" THEN <<>>
               ELSE IF s # 0 /\ TakesTrail(s) THEN Run(Aimed("close", s)) ELSE SharedRun(s)
TrailRun(k) == IF TakesTrail(k) THEN Run(Aimed("trail", k)) ELSE <<>>

MutBlankBefore(k) ==
  LET s == tree[k].scope
  IN ~tree[k].flat /\ s # 0 /\ k # Min(tree[s].kids) /\ text[LineHead(k)].gap
\* The paragraph break, read above the first leading comment or the item.
BlankBefore(k) ==
  LET s == tree[k].scope
      at == IF Aimed("lead", k) = {} THEN k ELSE Nth(Min(Aimed("lead", k)))
  IN ~tree[k].flat /\ s # 0 /\ k # Min(tree[s].kids) /\ text[LineHead(at)].gap

PrintCol(k) ==
  1 + 2 * Depth(k) + 2 * Cardinality({a \in tree[k].up \ {0} : text[a].owns = "where"})

OwnLine(c, col, gap) == Comment(text[c].id, TRUE, col, text[c].line, gap)
ItemLines(k) ==
  LET run   == LeadRun(k)
      blank == BlankBefore(k)
      flat  == tree[k].flat
  IN [j \in DOMAIN run |-> OwnLine(run[j], PrintCol(k), j = 1 /\ blank)]
     \o <<[text[k] EXCEPT !.fresh = ~flat, !.col = IF flat THEN 20 ELSE PrintCol(k),
                          !.gap = blank /\ run = <<>>]>>
     \o (IF text[k].wide THEN <<Rest(text[k].id)>> ELSE <<>>)

\* The end of an item: its block's closing comments, then its own trailing.
ItemEnd(k) ==
  LET close == CloseRun(k)
      trail == TrailRun(k)
      col   == IF close = <<>> THEN 0 ELSE PrintCol(Min(tree[k].kids))
  IN [j \in DOMAIN close |-> OwnLine(close[j], col, FALSE)]
     \o [j \in DOMAIN trail |-> Comment(text[trail[j]].id, FALSE, 30 + j, text[trail[j]].line, FALSE)]

\* Items that end with k, innermost first.
Ended(k) == SetToSortSeq({a \in Items : tree[a].tail = k}, LAMBDA a, b : a > b)
Printed ==
  LET items == SetToSortSeq(Items, LAMBDA a, b : a < b)
      foot  == CloseRun(0)
      Lines(k) == ItemLines(k) \o FlattenSeq([j \in DOMAIN Ended(k) |-> ItemEnd(Ended(k)[j])])
  IN FlattenSeq([j \in DOMAIN items |-> Lines(items[j])])
     \o [j \in DOMAIN foot |-> OwnLine(foot[j], 1, FALSE)]

Reprint ==
  /\ stage = "attach" /\ Len(target) = Cardinality(Comments)
  /\ prev' = text /\ text' = Printed /\ target' = <<>>
  /\ rounds' = rounds + 1
  /\ stage' = IF rounds = 1 THEN "done" ELSE "read"
  /\ tree' = <<>>

-----------------------------------------------------------------------------
Init ==
  /\ text = <<>> /\ stage = "write" /\ tree = <<>> /\ target = <<>> /\ prev = <<>> /\ rounds = 0

Next ==
  \/ \E d \in 0 .. MaxItems - 1, owns \in Owners, wide, fresh, gap \in BOOLEAN :
       PutItem(d, owns, wide, fresh, gap)
  \/ PutRest
  \/ \E fresh, line, gap \in BOOLEAN, col \in Columns : PutComment(fresh, col, line, gap)
  \/ Written \/ Attach \/ Reprint

Spec == Init /\ [][Next]_vars

-----------------------------------------------------------------------------
(* Properties.                                                              *)

Ids(s, S) == [j \in 1 .. Cardinality(S) |->
               s[CHOOSE c \in S : Cardinality({b \in S : b < c}) = j - 1].id]

\* wok_trivia.h: "comments(Format(t)) == comments(t) -- same texts, same
\* order", and the tree stays: no comment is lost, doubled or passed by
\* another, none swallows what follows it on its line.
CommentsKept ==
  rounds > 0 =>
    /\ Ids(text, Comments) = Ids(prev, CommentsOf(prev))
    /\ Ids(text, Items) = Ids(prev, ItemsOf(prev))
    /\ \A k \in 1 .. Len(text) - 1 : text[k].line => text[k + 1].fresh

\* test_trivia.c 3: "Format(Parse(Format(t))) == Format(t) -- still a fixed
\* point"; here where no comment trails an item that the filler breaks, after
\* which the comment is no longer on the item's line.
TrailsBroken(s) ==
  \E k \in 1 .. Len(s) - 1 : s[k].kind = "rest" /\ s[k + 1].kind = "comment" /\ ~s[k + 1].fresh
FixedUnlessBroken == stage = "done" => text = prev \/ TrailsBroken(prev)
=============================================================================
