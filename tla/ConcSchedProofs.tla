--------------------------- MODULE ConcSchedProofs ---------------------------
(***************************************************************************)
(* Theorems about ConcSched, for every set of coroutines, supply and       *)
(* region size: type correctness, the exclusivity of a channel's queues,   *)
(* the distinctness of handle ids, the promise cache, and the walls that   *)
(* keep carriers out.                                                      *)
(***************************************************************************)
EXTENDS ConcSched, FiniteSetTheorems, TLAPS

-----------------------------------------------------------------------------
(* Map.insert keeps the promise map and the channel map well typed.        *)
LEMMA InsertCell ==
  ASSUME TypeOK, NEW i \in Nat, NEW x \in Cell
  PROVE  /\ DOMAIN Insert(cells, i, x) = DOMAIN cells \cup {i}
         /\ DOMAIN Insert(cells, i, x) \subseteq Nat
         /\ Insert(cells, i, x) \in [DOMAIN Insert(cells, i, x) -> Cell]
  BY DEF Insert, TypeOK

LEMMA InsertChan ==
  ASSUME TypeOK, NEW i \in Nat, NEW x \in Chan
  PROVE  /\ DOMAIN Insert(chans, i, x) = DOMAIN chans \cup {i}
         /\ DOMAIN Insert(chans, i, x) \subseteq Nat
         /\ Insert(chans, i, x) \in [DOMAIN Insert(chans, i, x) -> Chan]
  BY DEF Insert, TypeOK

(* Parking a task on a cell, and the four moves of a channel's queues.     *)
LEMMA CellPark ==
  ASSUME NEW c \in Cell, NEW t \in Task
  PROVE  [c EXCEPT !.waiters = Append(@, t)] \in Cell
  BY DEF Cell

LEMMA ChanMoves ==
  ASSUME NEW c \in Chan
  PROVE  /\ \A t \in Task : [c EXCEPT !.waiters = Append(@, t)] \in Chan
         /\ \A v \in Value : [c EXCEPT !.buf = Append(@, v)] \in Chan
         /\ c.buf # <<>> => /\ [c EXCEPT !.buf = Tail(@)] \in Chan
                            /\ Head(c.buf) \in Value
         /\ c.waiters # <<>> => /\ [c EXCEPT !.waiters = Tail(@)] \in Chan
                                /\ Head(c.waiters) \in Task
<1>1. \A t \in Task : [c EXCEPT !.waiters = Append(@, t)] \in Chan
  BY DEF Chan
<1>2. ASSUME NEW v \in Value
      PROVE  [c EXCEPT !.buf = Append(@, v)] \in Chan
  <2>1. Append(c.buf, v) \in Seq(Value)
    BY DEF Chan
  <2>2. QED
    BY <2>1 DEF Chan
<1>3. ASSUME c.buf # <<>>
      PROVE  [c EXCEPT !.buf = Tail(@)] \in Chan /\ Head(c.buf) \in Value
  BY <1>3 DEF Chan
<1>4. ASSUME c.waiters # <<>>
      PROVE  [c EXCEPT !.waiters = Tail(@)] \in Chan /\ Head(c.waiters) \in Task
  BY <1>4 DEF Chan
<1>5. QED
  BY <1>1, <1>2, <1>3, <1>4

(* Resuming a task with a value gives an entry of the ready queue.         *)
LEMMA ResumeType ==
  ASSUME NEW t \in Task, NEW v \in Value
  PROVE  Resume(t, v) \in Entry
  BY DEF Resume, Entry

(* Waking parked tasks gives entries of the ready queue.                   *)
LEMMA WokenType ==
  ASSUME NEW ws \in Seq(Task), NEW v \in Value
  PROVE  Woken(ws, v) \in Seq(Entry)
<1>1. \A n \in 1..Len(ws) : Resume(ws[n], v) \in Entry
  BY ResumeType
<1>2. QED
  BY <1>1 DEF Woken

(* The values programs and the scheduler exchange are values.              *)
LEMMA ValueType ==
  /\ Unit \in Value
  /\ \A i \in Nat : Handle(i) \in Value
  /\ Sendable \subseteq Value
  BY DEF Unit, Handle, Sendable, Plain, Carrier, Value

(* Settling a well-typed ready queue keeps the queues well typed.          *)
LEMMA SettleType ==
  ASSUME NEW r \in Seq(Entry), folds \in Seq(Entry), Settle(r)
  PROVE  /\ ready' \in Seq(Entry)
         /\ folds' \in Seq(Entry)
         /\ running' \in Task \cup {NoTask}
  BY DEF Settle

-----------------------------------------------------------------------------
(* Type correctness: the scheduler record keeps its shape through every    *)
(* request, wake-up and error.                                             *)
LEMMA TypeInit == Init => TypeOK
<1> SUFFICES ASSUME Init PROVE TypeOK
  OBVIOUS
<1> USE ConcAssumption DEF ConcAssumption
<1>1. foreign \subseteq Nat
  BY DEF Init
<1>0. status \in Status
  BY DEF Init, Status
<1>6. /\ nextId \in Nat /\ sup \in Nat
      /\ result \in BOOLEAN /\ live \subseteq Coro
  BY DEF Init
<1>2. ready \in Seq(Entry) /\ folds \in Seq(Entry)
  BY DEF Init
<1>3. /\ DOMAIN cells \subseteq Nat /\ cells \in [DOMAIN cells -> Cell]
      /\ DOMAIN chans \subseteq Nat /\ chans \in [DOMAIN chans -> Chan]
  BY DEF Init
<1>4. running \in Task \cup {NoTask}
  BY DEF Init, Task, Owner, Root
<1>5. QED
  BY <1>0, <1>1, <1>2, <1>3, <1>4, <1>6 DEF TypeOK

LEMMA TypeStep == TypeOK /\ [Next]_vars => TypeOK'
<1> SUFFICES ASSUME TypeOK, [Next]_vars PROVE TypeOK'
  OBVIOUS
<1> USE ConcAssumption DEF ConcAssumption
<1>0. ASSUME NEW err \in Status, Fail(err) PROVE TypeOK'
  BY <1>0 DEF TypeOK, Fail
<1>s. /\ "deadlock" \in Status /\ "drained" \in Status
      /\ "ids exhausted" \in Status /\ "promise not owned" \in Status
      /\ "channel not owned" \in Status /\ "carrier in Chan" \in Status
      /\ "carrier in Promise" \in Status /\ "unknown promise" \in Status
      /\ "fulfilled twice" \in Status /\ "returned" \in Status
  BY DEF Status
<1>r. ASSUME Segment
      PROVE  /\ running \in Task
             /\ \A v \in Value : Append(ready, Resume(running, v)) \in Seq(Entry)
  BY <1>r, ResumeType DEF TypeOK, Segment
<1>c. ASSUME Segment, NEW c \in Coro, NEW o \in Owner, NEW i \in Nat,
             StartChild(c, o, i)
      PROVE  /\ running' \in Task /\ folds' \in Seq(Entry)
             /\ live' \subseteq Coro /\ nextId' \in Nat /\ sup' \in Nat
  <2>1. Resume(running, Handle(i)) \in Entry
    BY <1>c, <1>r, ResumeType, ValueType
  <2>2. <<Resume(running, Handle(i))>> \o folds \in Seq(Entry)
    BY <2>1 DEF TypeOK
  <2>3. running' \in Task
    BY <1>c DEF StartChild, Task
  <2>4. QED
    BY <1>c, <2>2, <2>3 DEF StartChild, TypeOK
<1>u. SupAfterSegment \in Nat
  BY DEF SupAfterSegment, TypeOK
<1>1. CASE NestedMint
  <2>1. CASE CanMint(sup)
    <3>1. sup' \in Nat /\ foreign' \subseteq Nat
      BY <1>1, <2>1 DEF NestedMint, TypeOK
    <3>2. QED
      BY <1>1, <2>1, <3>1 DEF NestedMint, TypeOK
  <2>2. CASE ~CanMint(sup)
    BY <1>1, <2>2, <1>0, <1>s DEF NestedMint
  <2>3. QED
    BY <2>1, <2>2
<1>2. CASE Yield
  <2>1. Append(ready, Resume(running, Unit)) \in Seq(Entry)
    BY <1>2, <1>r, ValueType DEF Yield
  <2>2. QED
    BY <1>2, <1>u, <2>1, SettleType DEF Yield, TypeOK
<1>3. ASSUME NEW c \in Coro, Spawn(c) PROVE TypeOK'
  <2>1. CASE CanMint(SupAfterSegment)
    <3>1. StartChild(c, Detached, SupAfterSegment) /\ Segment
      BY <1>3, <2>1 DEF Spawn
    <3>2. Detached \in Owner
      BY DEF Detached, Owner
    <3>3. QED
      BY <1>3, <2>1, <3>1, <3>2, <1>c, <1>u DEF Spawn, TypeOK
  <2>2. CASE ~CanMint(SupAfterSegment)
    BY <1>3, <2>2, <1>0, <1>s DEF Spawn
  <2>3. QED
    BY <2>1, <2>2
<1>4. ASSUME NEW c \in Coro, Async(c) PROVE TypeOK'
  <2>1. CASE CanMint(SupAfterSegment)
    <3> DEFINE i == SupAfterSegment
    <3>1. StartChild(c, Fulfils(i), i) /\ Segment
      BY <1>4, <2>1 DEF Async
    <3>2. Fulfils(i) \in Owner
      BY <1>u DEF Fulfils, Owner
    <3>3. EmptyCell \in Cell
      BY ValueType DEF EmptyCell, Cell
    <3>4. /\ DOMAIN cells' \subseteq Nat
          /\ cells' \in [DOMAIN cells' -> Cell]
      <4>1. cells' = Insert(cells, i, EmptyCell)
        BY <1>4, <2>1 DEF Async
      <4>2. QED
        BY <4>1, <3>3, <1>u, InsertCell
    <3>5. QED
      BY <1>4, <2>1, <3>1, <3>2, <3>4, <1>c, <1>u DEF Async, TypeOK
  <2>2. CASE ~CanMint(SupAfterSegment)
    BY <1>4, <2>2, <1>0, <1>s DEF Async
  <2>3. QED
    BY <2>1, <2>2
<1>5. CASE NewChan
  <2>1. CASE CanMint(SupAfterSegment)
    <3>1. EmptyChan \in Chan
      BY DEF EmptyChan, Chan
    <3>2. /\ DOMAIN chans' \subseteq Nat
          /\ chans' \in [DOMAIN chans' -> Chan]
      <4>1. chans' = Insert(chans, SupAfterSegment, EmptyChan)
        BY <1>5, <2>1 DEF NewChan
      <4>2. QED
        BY <4>1, <3>1, <1>u, InsertChan
    <3>3. Append(ready, Resume(running, Handle(SupAfterSegment))) \in Seq(Entry)
      BY <1>5, <1>r, <1>u, ValueType DEF NewChan
    <3>4. /\ nextId' \in Nat
          /\ Settle(Append(ready, Resume(running, Handle(SupAfterSegment))))
          /\ UNCHANGED <<cells, result, sup, live, foreign, status>>
      BY <1>5, <2>1, <1>u DEF NewChan
    <3>5. QED
      BY <3>2, <3>3, <3>4, SettleType DEF TypeOK
  <2>2. CASE ~CanMint(SupAfterSegment)
    BY <1>5, <2>2, <1>0, <1>s DEF NewChan
  <2>3. QED
    BY <2>1, <2>2
<1>6. ASSUME NEW i \in Known, Await(i) PROVE TypeOK'
  <2>1. CASE i \notin DOMAIN cells
    BY <1>6, <2>1, <1>0, <1>s DEF Await
  <2>2. CASE i \in DOMAIN cells /\ cells[i].full /\ UNCHANGED cells
             /\ Settle(Append(ready, Resume(running, cells[i].val)))
    <3>1. Append(ready, Resume(running, cells[i].val)) \in Seq(Entry)
      BY <1>6, <2>2, <1>r DEF Await, TypeOK, Cell
    <3>2. QED
      BY <1>6, <2>2, <3>1, <1>u, SettleType DEF Await, TypeOK
  <2>3. CASE /\ i \in DOMAIN cells /\ Settle(ready)
             /\ cells' = Insert(cells, i, [cells[i] EXCEPT
                                  !.waiters = Append(@, running)])
    <3>0. cells[i] \in Cell /\ i \in Nat
      BY <2>3 DEF TypeOK
    <3>1. [cells[i] EXCEPT !.waiters = Append(@, running)] \in Cell
      BY <1>6, <2>3, <1>r, <3>0, CellPark DEF Await
    <3>2. /\ DOMAIN cells' \subseteq Nat
          /\ cells' \in [DOMAIN cells' -> Cell]
      BY <2>3, <3>0, <3>1, InsertCell
    <3>3. QED
      BY <1>6, <2>3, <3>2, <1>u, SettleType DEF Await, TypeOK
  <2>4. QED
    BY <1>6, <2>1, <2>2, <2>3 DEF Await
<1>7. ASSUME NEW i \in Known, Recv(i) PROVE TypeOK'
  <2>1. CASE i \notin DOMAIN chans
    BY <1>7, <2>1, <1>0, <1>s DEF Recv
  <2>2. CASE i \in DOMAIN chans
    <3> DEFINE ch == chans[i]
    <3>0. ch \in Chan /\ i \in Nat
      BY <2>2 DEF TypeOK
    <3>1. CASE /\ ch.buf # <<>>
               /\ chans' = Insert(chans, i, [ch EXCEPT !.buf = Tail(@)])
               /\ Settle(Append(ready, Resume(running, Head(ch.buf))))
      <4>1. [ch EXCEPT !.buf = Tail(@)] \in Chan /\ Head(ch.buf) \in Value
        BY <3>0, <3>1, ChanMoves
      <4>2. /\ DOMAIN chans' \subseteq Nat
            /\ chans' \in [DOMAIN chans' -> Chan]
        BY <3>0, <3>1, <4>1, InsertChan
      <4>3. Append(ready, Resume(running, Head(ch.buf))) \in Seq(Entry)
        BY <1>7, <4>1, <1>r DEF Recv
      <4>4. QED
        BY <1>7, <2>2, <3>1, <4>2, <4>3, <1>u, SettleType DEF Recv, TypeOK
    <3>2. CASE /\ chans' = Insert(chans, i, [ch EXCEPT
                                    !.waiters = Append(@, running)])
               /\ Settle(ready)
      <4>1. [ch EXCEPT !.waiters = Append(@, running)] \in Chan
        BY <1>7, <3>0, <1>r, ChanMoves DEF Recv
      <4>2. /\ DOMAIN chans' \subseteq Nat
            /\ chans' \in [DOMAIN chans' -> Chan]
        BY <3>0, <3>2, <4>1, InsertChan
      <4>3. QED
        BY <1>7, <2>2, <3>2, <4>2, <1>u, SettleType DEF Recv, TypeOK
    <3>3. QED
      BY <1>7, <2>2, <3>1, <3>2 DEF Recv
  <2>3. QED
    BY <2>1, <2>2
<1>8. ASSUME NEW i \in Known, NEW v \in Sendable, Send(i, v) PROVE TypeOK'
  <2>1. CASE containsCont(v) \/ i \notin DOMAIN chans
    BY <1>8, <2>1, <1>0, <1>s DEF Send
  <2>2. CASE ~containsCont(v) /\ i \in DOMAIN chans
    <3> DEFINE ch == chans[i]
    <3>0. ch \in Chan /\ i \in Nat /\ v \in Value
      BY <2>2, ValueType DEF TypeOK
    <3>1. CASE /\ ch.waiters # <<>>
               /\ chans' = Insert(chans, i, [ch EXCEPT !.waiters = Tail(@)])
               /\ Settle(ready \o <<Resume(Head(ch.waiters), v),
                                    Resume(running, Unit)>>)
      <4>1. [ch EXCEPT !.waiters = Tail(@)] \in Chan /\ Head(ch.waiters) \in Task
        BY <3>0, <3>1, ChanMoves
      <4>2. /\ DOMAIN chans' \subseteq Nat
            /\ chans' \in [DOMAIN chans' -> Chan]
        BY <3>0, <3>1, <4>1, InsertChan
      <4>3. /\ Resume(Head(ch.waiters), v) \in Entry
            /\ Resume(running, Unit) \in Entry
        BY <1>8, <3>0, <4>1, <1>r, ResumeType, ValueType DEF Send
      <4>4. ready \o <<Resume(Head(ch.waiters), v), Resume(running, Unit)>>
              \in Seq(Entry)
        BY <4>3 DEF TypeOK
      <4>5. QED
        BY <1>8, <2>2, <3>1, <4>2, <4>4, <1>u, SettleType DEF Send, TypeOK
    <3>2. CASE /\ chans' = Insert(chans, i, [ch EXCEPT !.buf = Append(@, v)])
               /\ Settle(Append(ready, Resume(running, Unit)))
      <4>1. [ch EXCEPT !.buf = Append(@, v)] \in Chan
        BY <3>0, ChanMoves
      <4>2. /\ DOMAIN chans' \subseteq Nat
            /\ chans' \in [DOMAIN chans' -> Chan]
        BY <3>0, <3>2, <4>1, InsertChan
      <4>3. Append(ready, Resume(running, Unit)) \in Seq(Entry)
        BY <1>8, <1>r, ValueType DEF Send
      <4>4. QED
        BY <1>8, <2>2, <3>2, <4>2, <4>3, <1>u, SettleType DEF Send, TypeOK
    <3>3. QED
      BY <1>8, <2>2, <3>1, <3>2 DEF Send
  <2>3. QED
    BY <2>1, <2>2
<1>9. CASE CompleteRoot
  BY <1>9, <1>u, SettleType DEF CompleteRoot, TypeOK
<1>10. CASE CompleteDetached
  BY <1>10, <1>u, SettleType DEF CompleteDetached, TypeOK
<1>11. ASSUME NEW v \in Sendable, Fulfil(v) PROVE TypeOK'
  <2> DEFINE pid == running.owner.p
  <2>1. CASE containsCont(v) \/ pid \notin DOMAIN cells \/ cells[pid].full
    BY <1>11, <2>1, <1>0, <1>s DEF Fulfil
  <2>2. CASE ~containsCont(v) /\ pid \in DOMAIN cells /\ ~cells[pid].full
    <3>1. cells[pid] \in Cell /\ pid \in Nat /\ v \in Value
      BY <2>2, ValueType DEF TypeOK
    <3>2. [full |-> TRUE, val |-> v, waiters |-> <<>>] \in Cell
      BY <3>1 DEF Cell
    <3>3. /\ DOMAIN cells' \subseteq Nat
          /\ cells' \in [DOMAIN cells' -> Cell]
      BY <1>11, <2>2, <3>1, <3>2, InsertCell DEF Fulfil
    <3>4. ready \o Woken(cells[pid].waiters, v) \in Seq(Entry)
      BY <3>1, WokenType DEF TypeOK, Cell
    <3>5. QED
      BY <1>11, <2>2, <3>3, <3>4, <1>u, SettleType DEF Fulfil, TypeOK
  <2>3. QED
    BY <2>1, <2>2
<1>12. CASE Return
  BY <1>12, <1>s DEF Return, TypeOK
<1>13. CASE Stuck
  BY <1>13, <1>0, <1>s DEF Stuck
<1>14. CASE ResumeNext
  <2>1. Head(ready) \in Entry /\ Tail(ready) \in Seq(Entry)
    BY <1>14 DEF ResumeNext, TypeOK
  <2>2. QED
    BY <1>14, <2>1 DEF ResumeNext, TypeOK, Entry
<1>15. CASE UNCHANGED vars
  BY <1>15 DEF vars, TypeOK
<1>16. QED
  BY <1>1, <1>2, <1>3, <1>4, <1>5, <1>6, <1>7, <1>8, <1>9, <1>10, <1>11,
     <1>12, <1>13, <1>14, <1>15 DEF Next

THEOREM TypeCorrect == Spec => []TypeOK
<1>1. QED
  BY TypeInit, TypeStep, PTL DEF Spec

-----------------------------------------------------------------------------
(* A channel's buffer and its queue of receivers are never both in use:    *)
(* only an empty buffer parks a receiver, only an empty queue of receivers *)
(* buffers a value, and taking from either leaves the other as it was.     *)
THEOREM ChannelQueuesExclusive == Spec => []ChanExclusive
<1>1. Init => ChanExclusive
  BY DEF Init, ChanExclusive
<1>2. TypeOK /\ ChanExclusive /\ [Next]_vars => ChanExclusive'
  <2> SUFFICES ASSUME TypeOK, ChanExclusive, [Next]_vars
               PROVE  ChanExclusive'
    OBVIOUS
  <2>0. ASSUME UNCHANGED chans PROVE ChanExclusive'
    BY <2>0 DEF ChanExclusive
  <2>i. ASSUME NEW i \in Nat, NEW x \in Chan, chans' = Insert(chans, i, x),
               x.buf = <<>> \/ x.waiters = <<>>
        PROVE  ChanExclusive'
    BY <2>i DEF Insert, ChanExclusive
  <2>1. CASE NewChan
    <3>1. CASE CanMint(SupAfterSegment)
      <4>1. /\ EmptyChan \in Chan /\ SupAfterSegment \in Nat
            /\ EmptyChan.buf = <<>>
        BY DEF EmptyChan, Chan, SupAfterSegment, TypeOK
      <4>2. chans' = Insert(chans, SupAfterSegment, EmptyChan)
        BY <2>1, <3>1 DEF NewChan
      <4>3. QED
        BY <4>1, <4>2, <2>i
    <3>2. CASE ~CanMint(SupAfterSegment)
      BY <2>1, <3>2, <2>0 DEF NewChan, Fail
    <3>3. QED
      BY <3>1, <3>2
  <2>2. ASSUME NEW i \in Known, Recv(i) PROVE ChanExclusive'
    <3>1. CASE i \notin DOMAIN chans
      BY <2>2, <3>1, <2>0 DEF Recv, Fail
    <3>2. CASE i \in DOMAIN chans
      <4> DEFINE ch == chans[i]
      <4>0. ch \in Chan /\ i \in Nat /\ (ch.buf = <<>> \/ ch.waiters = <<>>)
        BY <3>2 DEF TypeOK, ChanExclusive
      <4>r. running \in Task
        BY <2>2 DEF Recv, Segment, TypeOK
      <4>1. CASE /\ ch.buf # <<>>
                 /\ chans' = Insert(chans, i, [ch EXCEPT !.buf = Tail(@)])
        <5>1. /\ [ch EXCEPT !.buf = Tail(@)] \in Chan
              /\ [ch EXCEPT !.buf = Tail(@)].waiters = <<>>
          BY <4>0, <4>1, ChanMoves DEF Chan
        <5>2. QED
          BY <4>0, <4>1, <5>1, <2>i
      <4>2. CASE /\ ch.buf = <<>>
                 /\ chans' = Insert(chans, i, [ch EXCEPT
                                      !.waiters = Append(@, running)])
        <5>1. /\ [ch EXCEPT !.waiters = Append(@, running)] \in Chan
              /\ [ch EXCEPT !.waiters = Append(@, running)].buf = <<>>
          BY <4>0, <4>2, <4>r, ChanMoves DEF Chan
        <5>2. QED
          BY <4>0, <4>2, <5>1, <2>i
      <4>3. QED
        BY <2>2, <3>2, <4>1, <4>2 DEF Recv
    <3>3. QED
      BY <3>1, <3>2
  <2>3. ASSUME NEW i \in Known, NEW v \in Sendable, Send(i, v)
        PROVE  ChanExclusive'
    <3>1. CASE containsCont(v) \/ i \notin DOMAIN chans
      BY <2>3, <3>1, <2>0 DEF Send, Fail
    <3>2. CASE ~containsCont(v) /\ i \in DOMAIN chans
      <4> DEFINE ch == chans[i]
      <4>0. ch \in Chan /\ i \in Nat /\ (ch.buf = <<>> \/ ch.waiters = <<>>)
        BY <3>2 DEF TypeOK, ChanExclusive
      <4>1. CASE /\ ch.waiters # <<>>
                 /\ chans' = Insert(chans, i, [ch EXCEPT !.waiters = Tail(@)])
        <5>1. /\ [ch EXCEPT !.waiters = Tail(@)] \in Chan
              /\ [ch EXCEPT !.waiters = Tail(@)].buf = <<>>
          BY <4>0, <4>1, ChanMoves DEF Chan
        <5>2. QED
          BY <4>0, <4>1, <5>1, <2>i
      <4>2. CASE /\ ch.waiters = <<>>
                 /\ chans' = Insert(chans, i, [ch EXCEPT !.buf = Append(@, v)])
        <5>1. /\ [ch EXCEPT !.buf = Append(@, v)] \in Chan
              /\ [ch EXCEPT !.buf = Append(@, v)].waiters = <<>>
          BY <4>0, <4>2, ChanMoves, ValueType DEF Chan
        <5>2. QED
          BY <4>0, <4>2, <5>1, <2>i
      <4>3. QED
        BY <2>3, <3>2, <4>1, <4>2 DEF Send
    <3>3. QED
      BY <3>1, <3>2
  <2>4. CASE NestedMint
    BY <2>4, <2>0 DEF NestedMint, Fail
  <2>5. CASE Yield \/ CompleteRoot \/ CompleteDetached \/ Return \/ ResumeNext
    BY <2>5, <2>0 DEF Yield, CompleteRoot, CompleteDetached, Return, ResumeNext
  <2>6. ASSUME NEW c \in Coro, Spawn(c) \/ Async(c) PROVE ChanExclusive'
    BY <2>6, <2>0 DEF Spawn, Async, StartChild, Fail
  <2>7. ASSUME NEW i \in Known, Await(i) PROVE ChanExclusive'
    BY <2>7, <2>0 DEF Await, Fail
  <2>8. ASSUME NEW v \in Sendable, Fulfil(v) PROVE ChanExclusive'
    BY <2>8, <2>0 DEF Fulfil, Fail
  <2>9. CASE Stuck
    BY <2>9, <2>0 DEF Stuck, Fail
  <2>10. CASE UNCHANGED vars
    BY <2>10, <2>0 DEF vars
  <2>11. QED
    BY <2>1, <2>2, <2>3, <2>4, <2>5, <2>6, <2>7, <2>8, <2>9, <2>10 DEF Next
<1>3. QED
  BY <1>1, <1>2, TypeCorrect, PTL DEF Spec

-----------------------------------------------------------------------------
(* The live supply: the one threaded through the running segment, or       *)
(* schNextId between segments.  Every id minted so far, by this scheduler  *)
(* or by another of the entry, is below it: the strengthening that makes   *)
(* HandlesOwn inductive.                                                   *)
Supply == IF running # NoTask THEN sup ELSE nextId

IdsBelow ==
  /\ nextId <= Supply
  /\ \A i \in DOMAIN cells \cup DOMAIN chans \cup foreign : i < Supply

IdInv == TypeOK /\ IdsBelow /\ HandlesOwn

LEMMA TaskRuns == ASSUME NEW t \in Task PROVE t # NoTask
  BY DEF Task, NoTask, Owner

(* A step that settles the segment without minting keeps every id below    *)
(* the supply.                                                             *)
LEMMA SettleIds ==
  ASSUME IdInv, Segment, running' = NoTask, nextId' = sup,
         DOMAIN cells' = DOMAIN cells, DOMAIN chans' = DOMAIN chans,
         UNCHANGED foreign
  PROVE  IdsBelow' /\ HandlesOwn'
<1>1. Supply' = sup /\ Supply = sup
  BY DEF Segment, Supply
<1>2. IdsBelow'
  BY <1>1 DEF IdInv, IdsBelow, TypeOK
<1>3. HandlesOwn'
  BY DEF IdInv, HandlesOwn
<1>4. QED
  BY <1>2, <1>3

(* A step that leaves the supplies, the maps' ids and the running task     *)
(* alone keeps every id below the supply.                                  *)
LEMMA SameIds ==
  ASSUME IdInv, UNCHANGED <<nextId, sup, running, cells, chans, foreign>>
  PROVE  IdsBelow' /\ HandlesOwn'
  BY DEF IdInv, IdsBelow, HandlesOwn, Supply

(* Minting the id at the supply: it is new to both maps and to foreign.    *)
LEMMA MintFresh ==
  ASSUME IdInv, Segment
  PROVE  /\ sup \in Nat
         /\ sup \notin DOMAIN cells \cup DOMAIN chans \cup foreign
         /\ \A i \in DOMAIN cells \cup DOMAIN chans \cup foreign :
              i \in Nat /\ i < sup
  BY DEF IdInv, IdsBelow, Segment, Supply, TypeOK

(* Both halves of the induction.                                           *)
LEMMA IdInit == Init => IdInv
<1> SUFFICES ASSUME Init PROVE IdInv
  OBVIOUS
<1>1. TypeOK
  BY TypeInit
<1>2. DOMAIN cells = {} /\ DOMAIN chans = {} /\ running # NoTask
  BY DEF Init, NoTask, Root
<1>3. nextId = sup /\ sup \in Int /\ \A i \in foreign : i < sup
  BY ConcAssumption DEF Init, ConcAssumption
<1>4. QED
  BY <1>1, <1>2, <1>3 DEF IdInv, IdsBelow, HandlesOwn, Supply

LEMMA IdStep == IdInv /\ [Next]_vars => IdInv'
<1> SUFFICES ASSUME IdInv, [Next]_vars PROVE IdsBelow' /\ HandlesOwn'
  BY TypeStep DEF IdInv
<1>0. ASSUME NEW err, Fail(err) PROVE IdsBelow' /\ HandlesOwn'
  BY <1>0, SameIds DEF Fail
<1>t. TypeOK
  BY DEF IdInv
<1>1. CASE NestedMint
  <2>1. CASE CanMint(sup)
    <3>1. /\ Segment /\ sup' = sup + 1 /\ foreign' = foreign \cup {sup}
          /\ UNCHANGED <<nextId, cells, chans, running>>
      BY <1>1, <2>1 DEF NestedMint
    <3>2. HandlesOwn'
      BY <3>1, MintFresh DEF HandlesOwn, IdInv
    <3>3. Supply' = sup + 1 /\ nextId \in Nat /\ nextId <= sup
      BY <3>1, <1>t DEF Supply, Segment, IdInv, IdsBelow, TypeOK
    <3>4. QED
      BY <3>1, <3>2, <3>3, MintFresh DEF IdsBelow
  <2>2. CASE ~CanMint(sup)
    BY <1>1, <2>2, <1>0 DEF NestedMint
  <2>3. QED
    BY <2>1, <2>2
<1>2. CASE Yield \/ CompleteRoot \/ CompleteDetached
  BY <1>2, SettleIds
  DEF Yield, CompleteRoot, CompleteDetached, Settle, SupAfterSegment
<1>3. ASSUME NEW c \in Coro, NEW o \in Owner, Segment,
             StartChild(c, o, sup), UNCHANGED <<chans, foreign>>,
             DOMAIN cells' \subseteq DOMAIN cells \cup {sup}
      PROVE  IdsBelow' /\ HandlesOwn'
  <2>1. running' # NoTask
    BY <1>3, TaskRuns DEF StartChild, Task
  <2>2. Supply' = sup + 1 /\ nextId' = sup + 1
    BY <1>3, <2>1 DEF StartChild, Supply
  <2>3. HandlesOwn'
    BY <1>3, MintFresh DEF HandlesOwn, IdInv
  <2>4. QED
    BY <1>3, <2>2, <2>3, MintFresh DEF IdsBelow
<1>4. ASSUME NEW c \in Coro, Spawn(c) PROVE IdsBelow' /\ HandlesOwn'
  <2>1. CASE CanMint(sup)
    <3>1. Detached \in Owner
      BY DEF Detached, Owner
    <3>2. QED
      BY <1>4, <2>1, <3>1, <1>3 DEF Spawn, SupAfterSegment
  <2>2. CASE ~CanMint(sup)
    BY <1>4, <2>2, <1>0 DEF Spawn, SupAfterSegment
  <2>3. QED
    BY <2>1, <2>2
<1>5. ASSUME NEW c \in Coro, Async(c) PROVE IdsBelow' /\ HandlesOwn'
  <2>1. CASE CanMint(sup)
    <3>1. Fulfils(sup) \in Owner
      BY <1>t DEF Fulfils, Owner, TypeOK
    <3>2. /\ Segment /\ cells' = Insert(cells, sup, EmptyCell)
          /\ StartChild(c, Fulfils(sup), sup)
          /\ UNCHANGED <<chans, foreign>>
      BY <1>5, <2>1 DEF Async, SupAfterSegment
    <3>3. DOMAIN cells' \subseteq DOMAIN cells \cup {sup}
      BY <3>2 DEF Insert
    <3>4. QED
      BY <3>1, <3>2, <3>3, <1>3
  <2>2. CASE ~CanMint(sup)
    BY <1>5, <2>2, <1>0 DEF Async, SupAfterSegment
  <2>3. QED
    BY <2>1, <2>2
<1>6. CASE NewChan
  <2>1. CASE CanMint(sup)
    <3>1. /\ Segment /\ chans' = Insert(chans, sup, EmptyChan)
          /\ running' = NoTask /\ nextId' = sup + 1
          /\ UNCHANGED <<cells, foreign>>
      BY <1>6, <2>1 DEF NewChan, SupAfterSegment, Settle
    <3>2. DOMAIN chans' = DOMAIN chans \cup {sup}
      BY <3>1 DEF Insert
    <3>3. HandlesOwn'
      BY <3>1, <3>2, MintFresh DEF HandlesOwn, IdInv
    <3>4. Supply' = sup + 1
      BY <3>1 DEF Supply
    <3>5. QED
      BY <3>1, <3>2, <3>3, <3>4, MintFresh DEF IdsBelow
  <2>2. CASE ~CanMint(sup)
    BY <1>6, <2>2, <1>0 DEF NewChan, SupAfterSegment
  <2>3. QED
    BY <2>1, <2>2
<1>7. ASSUME NEW i \in Known, Await(i) PROVE IdsBelow' /\ HandlesOwn'
  <2>1. CASE i \notin DOMAIN cells
    BY <1>7, <2>1, <1>0 DEF Await
  <2>2. CASE i \in DOMAIN cells
    <3>1. DOMAIN cells' = DOMAIN cells
      BY <1>7, <2>2 DEF Await, Insert
    <3>2. QED
      BY <1>7, <2>2, <3>1, SettleIds DEF Await, Settle, SupAfterSegment
  <2>3. QED
    BY <2>1, <2>2
<1>8. ASSUME NEW i \in Known, Recv(i) PROVE IdsBelow' /\ HandlesOwn'
  <2>1. CASE i \notin DOMAIN chans
    BY <1>8, <2>1, <1>0 DEF Recv
  <2>2. CASE i \in DOMAIN chans
    <3>1. DOMAIN chans' = DOMAIN chans
      BY <1>8, <2>2 DEF Recv, Insert
    <3>2. QED
      BY <1>8, <2>2, <3>1, SettleIds DEF Recv, Settle, SupAfterSegment
  <2>3. QED
    BY <2>1, <2>2
<1>9. ASSUME NEW i \in Known, NEW v \in Sendable, Send(i, v)
      PROVE  IdsBelow' /\ HandlesOwn'
  <2>1. CASE containsCont(v) \/ i \notin DOMAIN chans
    BY <1>9, <2>1, <1>0 DEF Send
  <2>2. CASE ~containsCont(v) /\ i \in DOMAIN chans
    <3>1. DOMAIN chans' = DOMAIN chans
      BY <1>9, <2>2 DEF Send, Insert
    <3>2. QED
      BY <1>9, <2>2, <3>1, SettleIds DEF Send, Settle, SupAfterSegment
  <2>3. QED
    BY <2>1, <2>2
<1>10. ASSUME NEW v \in Sendable, Fulfil(v) PROVE IdsBelow' /\ HandlesOwn'
  <2> DEFINE pid == running.owner.p
  <2>1. CASE containsCont(v) \/ pid \notin DOMAIN cells \/ cells[pid].full
    BY <1>10, <2>1, <1>0 DEF Fulfil
  <2>2. CASE ~containsCont(v) /\ pid \in DOMAIN cells /\ ~cells[pid].full
    <3>1. DOMAIN cells' = DOMAIN cells
      BY <1>10, <2>2 DEF Fulfil, Insert
    <3>2. QED
      BY <1>10, <2>2, <3>1, SettleIds DEF Fulfil, Settle, SupAfterSegment
  <2>3. QED
    BY <2>1, <2>2
<1>11. CASE Return
  BY <1>11, SameIds DEF Return
<1>12. CASE Stuck
  BY <1>12, <1>0 DEF Stuck
<1>13. CASE ResumeNext
  <2>0. Head(ready) \in Entry
    BY <1>13, <1>t DEF ResumeNext, TypeOK
  <2>1. running' # NoTask
    BY <1>13, <2>0, TaskRuns DEF ResumeNext, Entry
  <2>2. Supply' = nextId /\ Supply = nextId
    BY <1>13, <2>1 DEF ResumeNext, Idle, Supply
  <2>3. UNCHANGED <<nextId, cells, chans, foreign>>
    BY <1>13 DEF ResumeNext
  <2>4. IdsBelow'
    BY <2>2, <2>3 DEF IdInv, IdsBelow
  <2>5. HandlesOwn'
    BY <2>3 DEF IdInv, HandlesOwn
  <2>6. QED
    BY <2>4, <2>5
<1>14. CASE UNCHANGED vars
  BY <1>14, SameIds DEF vars
<1>15. QED
  BY <1>1, <1>2, <1>4, <1>5, <1>6, <1>7, <1>8, <1>9, <1>10, <1>11, <1>12,
     <1>13, <1>14 DEF Next

(* A handle another scheduler minted never names a promise or a channel of *)
(* this one, and no id names both a promise and a channel.                 *)
THEOREM HandlesNeverAlias == Spec => []HandlesOwn
<1>1. IdInv => HandlesOwn
  BY DEF IdInv
<1>2. QED
  BY IdInit, IdStep, <1>1, PTL DEF Spec

-----------------------------------------------------------------------------
(* A promise is cached once: async makes its cell at an id no map has, and *)
(* await and the fulfilment only touch a pending cell.                     *)
LEMMA CacheStep ==
  ASSUME IdInv, [Next]_vars, NEW i \in DOMAIN cells, cells[i].full
  PROVE  i \in DOMAIN cells' /\ cells'[i] = cells[i]
<1>0. ASSUME NEW err, Fail(err) PROVE UNCHANGED cells
  BY <1>0 DEF Fail
<1>1. ASSUME NEW j, NEW c, cells' = Insert(cells, j, c), i # j
      PROVE  i \in DOMAIN cells' /\ cells'[i] = cells[i]
  BY <1>1 DEF Insert
<1>2. ASSUME NEW c \in Coro, Async(c)
      PROVE  i \in DOMAIN cells' /\ cells'[i] = cells[i]
  <2>1. CASE CanMint(sup)
    <3>1. Segment /\ cells' = Insert(cells, sup, EmptyCell)
      BY <1>2, <2>1 DEF Async, SupAfterSegment
    <3>2. i # sup
      BY <3>1, MintFresh
    <3>3. QED
      BY <3>1, <3>2, <1>1
  <2>2. CASE ~CanMint(sup)
    BY <1>0, <1>2, <2>2 DEF Async, SupAfterSegment
  <2>3. QED
    BY <2>1, <2>2
<1>3. ASSUME NEW j \in Known, Await(j)
      PROVE  i \in DOMAIN cells' /\ cells'[i] = cells[i]
  BY <1>0, <1>1, <1>3 DEF Await
<1>4. ASSUME NEW v \in Sendable, Fulfil(v)
      PROVE  i \in DOMAIN cells' /\ cells'[i] = cells[i]
  BY <1>0, <1>1, <1>4 DEF Fulfil
<1>5. ASSUME NEW c \in Coro, Spawn(c) PROVE UNCHANGED cells
  BY <1>0, <1>5 DEF Spawn
<1>6. ASSUME NEW j \in Known, Recv(j) PROVE UNCHANGED cells
  BY <1>0, <1>6 DEF Recv
<1>7. ASSUME NEW j \in Known, NEW v \in Sendable, Send(j, v) PROVE UNCHANGED cells
  BY <1>0, <1>7 DEF Send
<1>8. NestedMint \/ Yield \/ NewChan \/ CompleteRoot \/ CompleteDetached \/ Return
        \/ Stuck \/ ResumeNext \/ UNCHANGED vars => UNCHANGED cells
  BY <1>0 DEF NestedMint, Yield, NewChan, CompleteRoot, CompleteDetached, Return,
              Stuck, ResumeNext, vars
<1>9. QED
  BY <1>2, <1>3, <1>4, <1>5, <1>6, <1>7, <1>8 DEF Next

(* A full promise never changes, disappears or collects an awaiter, on any *)
(* step of the scheduler.                                                  *)
THEOREM FullCellsStable == Spec => CacheStable
<1>1. IdInv /\ [Next]_vars =>
        [\A i \in DOMAIN cells :
           cells[i].full => i \in DOMAIN cells' /\ cells'[i] = cells[i]]_vars
  BY CacheStep
<1>2. QED
  BY IdInit, IdStep, <1>1, PTL DEF Spec, CacheStable

-----------------------------------------------------------------------------
(* Resume values that are no carrier, the callers' included: what makes    *)
(* NoCarrierCrosses inductive, for the callers join the ready queue.       *)
Plainly(es) == \A n \in DOMAIN es : ~containsCont(es[n].val)

NoCarrierInv ==
  /\ \A i \in DOMAIN cells : ~containsCont(cells[i].val)
  /\ \A i \in DOMAIN chans : \A n \in DOMAIN chans[i].buf :
       ~containsCont(chans[i].buf[n])
  /\ Plainly(ready) /\ Plainly(folds)

(* Settling plain entries keeps every entry plain.                         *)
LEMMA SettlePlain ==
  ASSUME NEW r \in Seq(Entry), folds \in Seq(Entry), Plainly(r), Plainly(folds),
         Settle(r)
  PROVE  Plainly(ready') /\ Plainly(folds')
<1>1. Plainly(r \o folds) /\ Plainly(<<>>)
  BY DEF Plainly
<1>2. QED
  BY <1>1 DEF Settle

(* Requeueing a caller with a value that is no carrier.                    *)
LEMMA RequeuePlain ==
  ASSUME TypeOK, Plainly(ready), Plainly(folds), Segment, NEW v \in Value,
         ~containsCont(v), Settle(Append(ready, Resume(running, v)))
  PROVE  Plainly(ready') /\ Plainly(folds')
<1>1. Resume(running, v) \in Entry /\ Resume(running, v).val = v
  BY ResumeType DEF Resume, Segment, TypeOK
<1>2. Append(ready, Resume(running, v)) \in Seq(Entry)
  BY <1>1 DEF TypeOK
<1>3. Plainly(Append(ready, Resume(running, v)))
  BY <1>1 DEF Plainly, TypeOK
<1>4. QED
  BY <1>2, <1>3, SettlePlain DEF TypeOK

(* Every request keeps carriers out of the scheduler's values.             *)
LEMMA CarrierStep == TypeOK /\ NoCarrierInv /\ [Next]_vars => NoCarrierInv'
<1> SUFFICES ASSUME TypeOK, NoCarrierInv, [Next]_vars PROVE NoCarrierInv'
  OBVIOUS
<1>0. ASSUME UNCHANGED <<cells, chans, ready, folds>> PROVE NoCarrierInv'
  BY <1>0 DEF NoCarrierInv, Plainly
<1>f. ASSUME NEW err, Fail(err) PROVE NoCarrierInv'
  BY <1>f, <1>0 DEF Fail
<1>p. /\ Plainly(ready) /\ Plainly(folds)
      /\ ready \in Seq(Entry) /\ folds \in Seq(Entry) /\ sup \in Nat
  BY DEF NoCarrierInv, TypeOK
<1>u. /\ Unit \in Value /\ ~containsCont(Unit)
      /\ \A i \in Nat : Handle(i) \in Value /\ ~containsCont(Handle(i))
  BY ValueType DEF Unit, Handle, containsCont
<1>c. ASSUME NEW i \in DOMAIN cells \cup {sup}, NEW c, cells' = Insert(cells, i, c),
             ~containsCont(c.val), UNCHANGED chans, Plainly(ready'), Plainly(folds')
      PROVE  NoCarrierInv'
  BY <1>c DEF NoCarrierInv, Insert
<1>h. ASSUME NEW i \in DOMAIN chans \cup {sup}, NEW c, chans' = Insert(chans, i, c),
             \A n \in DOMAIN c.buf : ~containsCont(c.buf[n]),
             UNCHANGED cells, Plainly(ready'), Plainly(folds')
      PROVE  NoCarrierInv'
  BY <1>h DEF NoCarrierInv, Insert
<1>s. ASSUME UNCHANGED <<cells, chans>>, Plainly(ready'), Plainly(folds')
      PROVE  NoCarrierInv'
  BY <1>s DEF NoCarrierInv
<1>1. CASE NestedMint
  BY <1>1, <1>0, <1>f DEF NestedMint
<1>2. CASE Yield
  BY <1>2, <1>p, <1>u, <1>s, RequeuePlain DEF Yield
<1>3. ASSUME NEW c, NEW o, StartChild(c, o, sup), ready' = ready, Segment
      PROVE  Plainly(ready') /\ Plainly(folds')
  <2>1. Resume(running, Handle(sup)) \in Entry
    BY <1>3, <1>p, <1>u, ResumeType DEF Segment, TypeOK
  <2>2. Resume(running, Handle(sup)).val = Handle(sup)
    BY DEF Resume
  <2>3. Plainly(<<Resume(running, Handle(sup))>> \o folds)
    BY <1>p, <1>u, <2>1, <2>2 DEF Plainly
  <2>4. QED
    BY <1>3, <1>p, <2>3 DEF StartChild
<1>4. ASSUME NEW c \in Coro, Spawn(c) PROVE NoCarrierInv'
  <2>1. CASE CanMint(sup)
    BY <1>3, <1>4, <1>s, <2>1 DEF Spawn, SupAfterSegment
  <2>2. CASE ~CanMint(sup)
    BY <1>4, <1>f, <2>2 DEF Spawn, SupAfterSegment
  <2>3. QED
    BY <2>1, <2>2
<1>5. ASSUME NEW c \in Coro, Async(c) PROVE NoCarrierInv'
  <2>1. CASE CanMint(sup)
    <3>1. Plainly(ready') /\ Plainly(folds')
      BY <1>3, <1>5, <2>1 DEF Async, SupAfterSegment
    <3>2. ~containsCont(EmptyCell.val)
      BY <1>u DEF EmptyCell
    <3>3. cells' = Insert(cells, sup, EmptyCell) /\ UNCHANGED chans
      BY <1>5, <2>1 DEF Async, SupAfterSegment
    <3>4. QED
      BY <1>c, <3>1, <3>2, <3>3
  <2>2. CASE ~CanMint(sup)
    BY <1>5, <1>f, <2>2 DEF Async, SupAfterSegment
  <2>3. QED
    BY <2>1, <2>2
<1>6. CASE NewChan
  <2>1. CASE CanMint(sup)
    <3>1. Plainly(ready') /\ Plainly(folds')
      BY <1>6, <1>p, <1>u, <2>1, RequeuePlain DEF NewChan, SupAfterSegment
    <3>2. DOMAIN EmptyChan.buf = {}
      BY DEF EmptyChan
    <3>3. chans' = Insert(chans, sup, EmptyChan) /\ UNCHANGED cells
      BY <1>6, <2>1 DEF NewChan, SupAfterSegment
    <3>4. QED
      BY <1>h, <3>1, <3>2, <3>3
  <2>2. CASE ~CanMint(sup)
    BY <1>6, <1>f, <2>2 DEF NewChan, SupAfterSegment
  <2>3. QED
    BY <2>1, <2>2
<1>7. ASSUME NEW i \in Known, Await(i) PROVE NoCarrierInv'
  <2>1. CASE i \notin DOMAIN cells
    BY <1>7, <1>f, <2>1 DEF Await
  <2>2. CASE i \in DOMAIN cells
    <3>1. /\ Segment /\ UNCHANGED chans
          /\ cells[i] \in Cell /\ cells[i].val \in Value /\ ~containsCont(cells[i].val)
      BY <1>7, <2>2 DEF Await, TypeOK, Cell, NoCarrierInv
    <3>2. CASE UNCHANGED cells /\ Settle(Append(ready, Resume(running, cells[i].val)))
      BY <1>p, <1>s, <3>1, <3>2, RequeuePlain
    <3>3. CASE /\ Settle(ready)
               /\ cells' = Insert(cells, i, [cells[i] EXCEPT
                                    !.waiters = Append(@, running)])
      <4>1. [cells[i] EXCEPT !.waiters = Append(@, running)].val = cells[i].val
        BY <3>1 DEF Cell
      <4>2. QED
        BY <1>c, <1>p, <2>2, <3>1, <3>3, <4>1, SettlePlain
    <3>4. QED
      BY <1>7, <2>2, <3>2, <3>3 DEF Await
  <2>3. QED
    BY <2>1, <2>2
<1>8. ASSUME NEW i \in Known, Recv(i) PROVE NoCarrierInv'
  <2>1. CASE i \notin DOMAIN chans
    BY <1>8, <1>f, <2>1 DEF Recv
  <2>2. CASE i \in DOMAIN chans
    <3> DEFINE ch == chans[i]
    <3>1. /\ Segment /\ UNCHANGED cells /\ ch \in Chan
          /\ \A n \in DOMAIN ch.buf : ~containsCont(ch.buf[n])
      BY <1>8, <2>2 DEF Recv, TypeOK, NoCarrierInv
    <3>2. CASE /\ ch.buf # <<>>
               /\ chans' = Insert(chans, i, [ch EXCEPT !.buf = Tail(@)])
               /\ Settle(Append(ready, Resume(running, Head(ch.buf))))
      <4>1. /\ Head(ch.buf) \in Value /\ ~containsCont(Head(ch.buf))
            /\ \A n \in DOMAIN Tail(ch.buf) : ~containsCont(Tail(ch.buf)[n])
        BY <3>1, <3>2 DEF Chan
      <4>2. [ch EXCEPT !.buf = Tail(@)].buf = Tail(ch.buf)
        BY <3>1 DEF Chan
      <4>3. Plainly(ready') /\ Plainly(folds')
        BY <1>p, <3>1, <3>2, <4>1, RequeuePlain
      <4>4. QED
        BY <1>h, <2>2, <3>1, <3>2, <4>1, <4>2, <4>3
    <3>3. CASE /\ chans' = Insert(chans, i, [ch EXCEPT
                                    !.waiters = Append(@, running)])
               /\ Settle(ready)
      <4>1. [ch EXCEPT !.waiters = Append(@, running)].buf = ch.buf
        BY <3>1 DEF Chan
      <4>2. QED
        BY <1>h, <1>p, <2>2, <3>1, <3>3, <4>1, SettlePlain
    <3>4. QED
      BY <1>8, <2>2, <3>2, <3>3 DEF Recv
  <2>3. QED
    BY <2>1, <2>2
<1>9. ASSUME NEW i \in Known, NEW v \in Sendable, Send(i, v) PROVE NoCarrierInv'
  <2>1. CASE containsCont(v) \/ i \notin DOMAIN chans
    BY <1>9, <1>f, <2>1 DEF Send
  <2>2. CASE ~containsCont(v) /\ i \in DOMAIN chans
    <3> DEFINE ch == chans[i]
    <3>1. /\ Segment /\ UNCHANGED cells /\ ch \in Chan /\ v \in Value
          /\ \A n \in DOMAIN ch.buf : ~containsCont(ch.buf[n])
      BY <1>9, <2>2, ValueType DEF Send, TypeOK, NoCarrierInv
    <3>2. CASE /\ ch.waiters # <<>>
               /\ chans' = Insert(chans, i, [ch EXCEPT !.waiters = Tail(@)])
               /\ Settle(ready \o <<Resume(Head(ch.waiters), v),
                                    Resume(running, Unit)>>)
      <4> DEFINE x == Resume(Head(ch.waiters), v)  y == Resume(running, Unit)
      <4>1. x \in Entry /\ y \in Entry /\ x.val = v /\ y.val = Unit
        BY <1>u, <3>1, <3>2, ChanMoves, ResumeType DEF Resume, Segment, TypeOK
      <4>2. Settle(ready \o <<x, y>>)
        BY <3>2
      <4> HIDE DEF x, y
      <4>3. ready \o <<x, y>> \in Seq(Entry) /\ Plainly(<<x, y>>)
        BY <1>p, <1>u, <2>2, <4>1 DEF Plainly
      <4>4. Plainly(ready \o <<x, y>>)
        BY <1>p, <4>1, <4>3 DEF Plainly
      <4>5. Plainly(ready') /\ Plainly(folds')
        BY <1>p, <4>2, <4>3, <4>4, SettlePlain
      <4>6. [ch EXCEPT !.waiters = Tail(@)].buf = ch.buf
        BY <3>1 DEF Chan
      <4>7. QED
        BY <1>h, <2>2, <3>1, <3>2, <4>5, <4>6
    <3>3. CASE /\ chans' = Insert(chans, i, [ch EXCEPT !.buf = Append(@, v)])
               /\ Settle(Append(ready, Resume(running, Unit)))
      <4>1. [ch EXCEPT !.buf = Append(@, v)].buf = Append(ch.buf, v)
        BY <3>1 DEF Chan
      <4>2. \A n \in DOMAIN Append(ch.buf, v) : ~containsCont(Append(ch.buf, v)[n])
        BY <2>2, <3>1 DEF Chan
      <4>3. Plainly(ready') /\ Plainly(folds')
        BY <1>p, <1>u, <3>1, <3>3, RequeuePlain
      <4>4. QED
        BY <1>h, <2>2, <3>1, <3>3, <4>1, <4>2, <4>3
    <3>4. QED
      BY <1>9, <2>2, <3>2, <3>3 DEF Send
  <2>3. QED
    BY <2>1, <2>2
<1>10. CASE CompleteRoot \/ CompleteDetached
  BY <1>10, <1>p, <1>s, SettlePlain DEF CompleteRoot, CompleteDetached
<1>11. ASSUME NEW v \in Sendable, Fulfil(v) PROVE NoCarrierInv'
  <2> DEFINE pid == running.owner.p  ws == cells[pid].waiters
  <2>1. CASE containsCont(v) \/ pid \notin DOMAIN cells \/ cells[pid].full
    BY <1>11, <1>f, <2>1 DEF Fulfil
  <2>2. CASE ~containsCont(v) /\ pid \in DOMAIN cells /\ ~cells[pid].full
    <3>1. /\ cells' = Insert(cells, pid, [full |-> TRUE, val |-> v, waiters |-> <<>>])
          /\ Settle(ready \o Woken(ws, v)) /\ UNCHANGED chans
      BY <1>11, <2>2 DEF Fulfil
    <3>2. ws \in Seq(Task) /\ v \in Value
      BY <2>2, ValueType DEF TypeOK, Cell
    <3> HIDE DEF ws
    <3>3. Woken(ws, v) \in Seq(Entry)
      BY <3>2, WokenType
    <3>4. Plainly(Woken(ws, v))
      BY <2>2, <3>2 DEF Woken, Resume, Plainly
    <3>5. ready \o Woken(ws, v) \in Seq(Entry) /\ Plainly(ready \o Woken(ws, v))
      BY <1>p, <3>3, <3>4 DEF Plainly
    <3>6. Plainly(ready') /\ Plainly(folds')
      BY <1>p, <3>1, <3>5, SettlePlain
    <3>7. QED
      BY <1>c, <2>2, <3>1, <3>6
  <2>3. QED
    BY <2>1, <2>2
<1>12. CASE Return
  BY <1>12, <1>0 DEF Return
<1>13. CASE Stuck
  BY <1>13, <1>f DEF Stuck
<1>14. CASE ResumeNext
  <2>1. Plainly(Tail(ready))
    BY <1>14, <1>p DEF ResumeNext, Plainly
  <2>2. QED
    BY <1>14, <1>p, <1>s, <2>1 DEF ResumeNext
<1>15. CASE UNCHANGED vars
  BY <1>15, <1>0 DEF vars
<1>16. QED
  BY <1>1, <1>2, <1>4, <1>5, <1>6, <1>7, <1>8, <1>9, <1>10, <1>11, <1>12, <1>13,
     <1>14, <1>15 DEF Next

(* No continuation carrier waits in a promise, in a channel's buffer or as *)
(* a resume value: the scheduler never copies or crosses one.              *)
THEOREM NoCarrierEver == Spec => []NoCarrierCrosses
<1>1. Init => NoCarrierInv
  <2>1. Plainly(<<>>)
    BY DEF Plainly
  <2>2. QED
    BY <2>1 DEF Init, NoCarrierInv
<1>2. NoCarrierInv => NoCarrierCrosses
  BY DEF NoCarrierInv, NoCarrierCrosses, Plainly, Range
<1>3. QED
  BY <1>1, <1>2, CarrierStep, TypeCorrect, PTL DEF Spec

-----------------------------------------------------------------------------
(***************************************************************************)
(* Where every coroutine of ConcSched is, for every set of coroutines,     *)
(* supply, region size and bound: each live one in exactly one place, each *)
(* pending promise with exactly one producer, no internal error and no     *)
(* false deadlock.                                                         *)
(*                                                                         *)
(* The proofs see the scheduler as a family of queues of tasks.  The main  *)
(* one, the line, is the ready queue, the running task and the callers     *)
(* waiting in processStep, in the order in which they would be resumed;    *)
(* the others are the awaiters of each promise and the receivers of each   *)
(* channel.  A request then is one or two of four moves on the family      *)
(* (GivenUp, PutIn, ReplacedBy, Extended), and the invariant says that no  *)
(* coroutine stands at two spots.                                          *)
(***************************************************************************)

\* The family of queues.  Handle ids are naturals; the line has a name beside.
Main == -1

\* The ready queue, the running task, the callers waiting in processStep.
Line ==
  [n \in 1..(Len(ready) + (IF running = NoTask THEN 0 ELSE 1 + Len(folds))) |->
     IF n <= Len(ready) THEN ready[n].task
     ELSE IF n = Len(ready) + 1 THEN running
     ELSE folds[n - Len(ready) - 1].task]

\* The line, and the awaiters and receivers under their handle's id.
Queues ==
  [i \in {Main} \cup DOMAIN cells \cup DOMAIN chans |->
     IF i = Main THEN Line
     ELSE IF i \in DOMAIN cells THEN cells[i].waiters ELSE chans[i].waiters]

\* A coroutine stands at one spot at most.
Once(Q) ==
  \A i, j \in DOMAIN Q : \A m \in DOMAIN Q[i], n \in DOMAIN Q[j] :
    Q[i][m].co = Q[j][n].co => i = j /\ m = n

\* The tasks of a family of queues.
Everyone(Q) == UNION {{Q[i][m] : m \in DOMAIN Q[i]} : i \in DOMAIN Q}

\* R is Q with spot p of queue i, of length l, given up, ...
GivenUp(Q, R, i, l, p) ==
  /\ i \in DOMAIN Q /\ l \in Nat /\ p \in 1..l
  /\ DOMAIN R = DOMAIN Q /\ \A k \in DOMAIN Q \ {i} : R[k] = Q[k]
  /\ DOMAIN Q[i] = 1..l /\ DOMAIN R[i] = 1..(l - 1)
  /\ \A n \in 1..(l - 1) : R[i][n] = Q[i][IF n < p THEN n ELSE n + 1]

\* ... with task t put in at spot p, ...
PutIn(Q, R, i, l, p, t) ==
  /\ i \in DOMAIN Q /\ l \in Nat /\ p \in 1..(l + 1)
  /\ DOMAIN R = DOMAIN Q /\ \A k \in DOMAIN Q \ {i} : R[k] = Q[k]
  /\ DOMAIN Q[i] = 1..l /\ DOMAIN R[i] = 1..(l + 1) /\ R[i][p] = t
  /\ \A n \in 1..l : R[i][IF n < p THEN n ELSE n + 1] = Q[i][n]

\* ... with the task at spot p replaced by the w tasks of queue j, ...
ReplacedBy(Q, R, i, l, p, j, w) ==
  /\ i \in DOMAIN Q /\ j \in DOMAIN Q \ {i} /\ l \in Nat /\ w \in Nat /\ p \in 1..l
  /\ DOMAIN R = DOMAIN Q /\ \A k \in DOMAIN Q \ {i, j} : R[k] = Q[k]
  /\ DOMAIN Q[i] = 1..l /\ DOMAIN Q[j] = 1..w
  /\ DOMAIN R[i] = 1..(l - 1 + w) /\ DOMAIN R[j] = {}
  /\ \A n \in 1..(l - 1 + w) :
       R[i][n] = IF n < p THEN Q[i][n]
                 ELSE IF n < p + w THEN Q[j][n - p + 1] ELSE Q[i][n - w + 1]

\* ... with empty queues beside it.
Extended(Q, R) ==
  /\ DOMAIN Q \subseteq DOMAIN R
  /\ \A i \in DOMAIN Q : /\ DOMAIN R[i] = DOMAIN Q[i]
                         /\ \A n \in DOMAIN Q[i] : R[i][n] = Q[i][n]
  /\ \A i \in DOMAIN R \ DOMAIN Q : DOMAIN R[i] = {}

(* A task that gives its spot up leaves everyone else at one spot: the      *)
(* segment that ends, the receiver a send wakes, the head loop takes.       *)
LEMMA Leaves ==
  ASSUME NEW Q, NEW R, NEW i, NEW l, NEW p, Once(Q), GivenUp(Q, R, i, l, p)
  PROVE  Once(R) /\ Everyone(R) = Everyone(Q) \ {Q[i][p]}
<1> USE DEF GivenUp
<1> DEFINE O(k, n) == IF k = i /\ n >= p THEN n + 1 ELSE n
<1>1. \A k \in DOMAIN R : \A n \in DOMAIN R[k] :
        O(k, n) \in DOMAIN Q[k] /\ R[k][n] = Q[k][O(k, n)] /\ (k = i => O(k, n) # p)
  OBVIOUS
<1>2. \A k \in DOMAIN R : \A m, n \in DOMAIN R[k] : O(k, m) = O(k, n) => m = n
  OBVIOUS
<1>3. \A k \in DOMAIN Q : \A n \in DOMAIN Q[k] :
        (k = i /\ n = p) \/ \E m \in DOMAIN R[k] : O(k, m) = n
  <2>1. ASSUME NEW n \in DOMAIN Q[i], n # p PROVE \E m \in DOMAIN R[i] : O(i, m) = n
    <3>1. CASE n < p
      BY <2>1, <3>1
    <3>2. CASE n > p
      <4>1. n - 1 \in DOMAIN R[i] /\ O(i, n - 1) = n
        BY <2>1, <3>2
      <4>2. QED
        BY <4>1
    <3>3. QED
      BY <2>1, <3>1, <3>2
  <2>2. QED
    BY <2>1
<1> HIDE DEF O
<1>4. Once(R)
  BY <1>1, <1>2 DEF Once
<1>5. Everyone(R) = Everyone(Q) \ {Q[i][p]}
  BY <1>1, <1>3 DEF Everyone, Once
<1>6. QED
  BY <1>4, <1>5

(* A task put in that stood nowhere stands at one spot: a child's first     *)
(* segment, an awaiter or receiver that parks, the task loop resumes.       *)
LEMMA Joins ==
  ASSUME NEW Q, NEW R, NEW i, NEW l, NEW p, NEW t, Once(Q), PutIn(Q, R, i, l, p, t),
         \A u \in Everyone(Q) : u.co # t.co
  PROVE  Once(R) /\ Everyone(R) = Everyone(Q) \cup {t}
<1> USE DEF PutIn
<1> DEFINE O(k, n) == IF k = i /\ n > p THEN n - 1 ELSE n
<1>1. \A k \in DOMAIN R : \A n \in DOMAIN R[k] :
        \/ k = i /\ n = p
        \/ O(k, n) \in DOMAIN Q[k] /\ R[k][n] = Q[k][O(k, n)]
  <2>1. ASSUME NEW n \in 1..(l + 1), n # p
        PROVE  O(i, n) \in DOMAIN Q[i] /\ R[i][n] = Q[i][O(i, n)]
    <3>1. CASE n < p
      <4>1. n \in 1..l
        BY <3>1
      <4>2. QED
        BY <3>1, <4>1
    <3>2. CASE n > p
      <4>1. n - 1 \in 1..l /\ ~(n - 1 < p) /\ (n - 1) + 1 = n /\ O(i, n) = n - 1
        BY <3>2
      <4>2. QED
        BY <4>1
    <3>3. QED
      BY <2>1, <3>1, <3>2
  <2>2. QED
    BY <2>1
<1>2. \A k \in DOMAIN R : \A m, n \in DOMAIN R[k] :
        O(k, m) = O(k, n) => m = n \/ (k = i /\ p \in {m, n})
  OBVIOUS
<1>3. \A k \in DOMAIN Q : \A n \in DOMAIN Q[k] :
        \E m \in DOMAIN R[k] : ~(k = i /\ m = p) /\ O(k, m) = n
  <2>1. ASSUME NEW n \in DOMAIN Q[i]
        PROVE  \E m \in DOMAIN R[i] : m # p /\ O(i, m) = n
    <3>1. CASE n < p
      BY <2>1, <3>1
    <3>2. CASE n >= p
      <4>1. n + 1 \in DOMAIN R[i] /\ O(i, n + 1) = n /\ n + 1 # p
        BY <2>1, <3>2
      <4>2. QED
        BY <4>1
    <3>3. QED
      BY <2>1, <3>1, <3>2
  <2>2. QED
    BY <2>1
<1> HIDE DEF O
<1>4. Once(R)
  <2>1. \A k \in DOMAIN Q : \A n \in DOMAIN Q[k] : Q[k][n].co # t.co
    BY DEF Everyone
  <2>2. QED
    BY <1>1, <1>2, <2>1 DEF Once
<1>5. Everyone(R) = Everyone(Q) \cup {t}
  <2>1. Everyone(R) \subseteq Everyone(Q) \cup {t}
    BY <1>1 DEF Everyone
  <2>2. t \in Everyone(R)
    <3>1. p \in DOMAIN R[i]
      OBVIOUS
    <3>2. QED
      BY <3>1 DEF Everyone
  <2>3. Everyone(Q) \subseteq Everyone(R)
    BY <1>1, <1>3 DEF Everyone
  <2>4. QED
    BY <2>1, <2>2, <2>3
<1>6. QED
  BY <1>4, <1>5

(* The running task leaves and the awaiters of a promise, all of them and   *)
(* in order, take its place: what fulfilling a promise does to the queues.  *)
LEMMA Wakes ==
  ASSUME NEW Q, NEW R, NEW i, NEW l, NEW p, NEW j, NEW w, Once(Q),
         ReplacedBy(Q, R, i, l, p, j, w)
  PROVE  Once(R) /\ Everyone(R) = Everyone(Q) \ {Q[i][p]}
<1> USE DEF ReplacedBy
<1> DEFINE K(k, n) == IF k = i /\ n >= p /\ n < p + w THEN j ELSE k
           O(k, n) == IF k = i /\ n >= p
                      THEN IF n < p + w THEN n - p + 1 ELSE n - w + 1 ELSE n
<1>1. \A k \in DOMAIN R : \A n \in DOMAIN R[k] :
        /\ K(k, n) \in DOMAIN Q /\ O(k, n) \in DOMAIN Q[K(k, n)]
        /\ R[k][n] = Q[K(k, n)][O(k, n)]
        /\ ~(K(k, n) = i /\ O(k, n) = p)
  OBVIOUS
<1>2. \A k, h \in DOMAIN R : \A m \in DOMAIN R[k], n \in DOMAIN R[h] :
        K(k, m) = K(h, n) /\ O(k, m) = O(h, n) => k = h /\ m = n
  OBVIOUS
<1>3. \A k \in DOMAIN Q : \A n \in DOMAIN Q[k] :
        \/ k = i /\ n = p
        \/ \E h \in DOMAIN R : \E m \in DOMAIN R[h] : K(h, m) = k /\ O(h, m) = n
  <2>1. ASSUME NEW n \in DOMAIN Q[i], n # p
        PROVE  \E m \in DOMAIN R[i] : K(i, m) = i /\ O(i, m) = n
    <3>1. CASE n < p
      BY <2>1, <3>1
    <3>2. CASE n > p
      <4>1. /\ n - 1 + w \in DOMAIN R[i] /\ K(i, n - 1 + w) = i 
            /\ O(i, n - 1 + w) = n
        BY <2>1, <3>2
      <4>2. QED
        BY <4>1
    <3>3. QED
      BY <2>1, <3>1, <3>2
  <2>2. ASSUME NEW n \in DOMAIN Q[j]
        PROVE  \E m \in DOMAIN R[i] : K(i, m) = j /\ O(i, m) = n
    <3>1. /\ n + p - 1 \in DOMAIN R[i] /\ K(i, n + p - 1) = j
          /\ O(i, n + p - 1) = n
      BY <2>2
    <3>2. QED
      BY <3>1
  <2>3. ASSUME NEW k \in DOMAIN Q \ {i, j}, NEW n \in DOMAIN Q[k]
        PROVE  K(k, n) = k /\ O(k, n) = n /\ k \in DOMAIN R /\ n \in DOMAIN R[k]
    OBVIOUS
  <2>4. SUFFICES ASSUME NEW k \in DOMAIN Q, NEW n \in DOMAIN Q[k], ~(k = i /\ n = p)
                 PROVE  \E h \in DOMAIN R : \E m \in DOMAIN R[h] : K(h, m) = k /\ O(h, m) = n
    OBVIOUS
  <2> HIDE DEF K, O
  <2>5. CASE k = i
    BY <2>1, <2>4, <2>5
  <2>6. CASE k = j
    BY <2>2, <2>4, <2>6
  <2>7. CASE k \notin {i, j}
    BY <2>3, <2>4, <2>7
  <2>8. QED
    BY <2>5, <2>6, <2>7
<1> HIDE DEF K, O
<1>4. Once(R)
  BY <1>1, <1>2 DEF Once
<1>5. Everyone(R) = Everyone(Q) \ {Q[i][p]}
  BY <1>1, <1>3 DEF Everyone, Once
<1>6. QED
  BY <1>4, <1>5
-----------------------------------------------------------------------------
(* What the requests do to the line, whose running task is at spot        *)
(* Len(ready) + 1.                                                         *)
LEMMA LineRunning ==
  ASSUME TypeOK, Segment
  PROVE  /\ DOMAIN Line = 1..(Len(ready) + 1 + Len(folds))
         /\ Line[Len(ready) + 1] = running
         /\ Len(ready) + 1 \in DOMAIN Line
         /\ Len(ready) \in Nat /\ Len(folds) \in Nat
  BY DEF Line, Segment, TypeOK

(* Settling puts what the request made ready behind the ready queue, the    *)
(* callers behind that, and takes the running task out.                     *)
LEMMA LineSettled ==
  ASSUME TypeOK, Segment, NEW ext \in Seq(Entry), Settle(ready \o ext)
  PROVE  LET a == Len(ready)  e == Len(ext)  f == Len(folds) IN
         /\ DOMAIN Line' = 1..(a + e + f)
         /\ \A n \in 1..a : Line'[n] = Line[n]
         /\ \A n \in 1..e : Line'[a + n] = ext[n].task
         /\ \A n \in 1..f : Line'[a + e + n] = Line[a + 1 + n]
<1> DEFINE a == Len(ready)  e == Len(ext)  f == Len(folds)
<1>1. a \in Nat /\ e \in Nat /\ f \in Nat
  BY DEF TypeOK
<1>2. /\ Len(ready') = a + e + f
      /\ \A n \in 1..a : ready'[n] = ready[n]
      /\ \A n \in 1..e : ready'[a + n] = ext[n]
      /\ \A n \in 1..f : ready'[a + e + n] = folds[n]
  BY DEF TypeOK, Settle
<1>3. /\ DOMAIN Line = 1..(a + 1 + f)
      /\ \A n \in 1..a : Line[n] = ready[n].task
      /\ \A n \in 1..f : Line[a + 1 + n] = folds[n].task
  BY <1>1 DEF Line, Segment
<1>4. /\ DOMAIN Line' = 1..(a + e + f)
      /\ \A n \in 1..(a + e + f) : Line'[n] = ready'[n].task
  BY <1>1, <1>2 DEF Line, Settle
<1> HIDE DEF a, e, f
<1>5. \A n \in 1..a : n \in 1..(a + e + f)
  BY <1>1
<1>6. \A n \in 1..e : a + n \in 1..(a + e + f)
  BY <1>1
<1>7. \A n \in 1..f : a + e + n \in 1..(a + e + f)
  BY <1>1
<1>8. \A n \in 1..a : Line'[n] = Line[n]
  BY <1>2, <1>3, <1>4, <1>5
<1>9. \A n \in 1..e : Line'[a + n] = ext[n].task
  BY <1>2, <1>4, <1>6
<1>10. \A n \in 1..f : Line'[a + e + n] = Line[a + 1 + n]
  BY <1>2, <1>3, <1>4, <1>7
<1>11. QED
  BY <1>4, <1>8, <1>9, <1>10 DEF a, e, f
-----------------------------------------------------------------------------
\* The queues under their names.
QueueShape ==
  /\ DOMAIN Queues = {Main} \cup DOMAIN cells \cup DOMAIN chans
  /\ Main \notin DOMAIN cells \cup DOMAIN chans
  /\ Queues[Main] = Line
  /\ \A i \in DOMAIN cells : /\ Queues[i] = cells[i].waiters
                             /\ cells[i].waiters \in Seq(Task)
  /\ \A i \in DOMAIN chans : /\ Queues[i] = chans[i].waiters
                             /\ chans[i].waiters \in Seq(Task)

(* Handle ids are naturals and no id names two maps, so every queue has a   *)
(* name of its own.                                                         *)
LEMMA QueueOf == TypeOK /\ HandlesOwn => QueueShape
  BY DEF TypeOK, HandlesOwn, Queues, Main, Cell, Chan, QueueShape

(* A new promise or channel brings an empty queue and moves nobody.         *)
LEMMA Grows ==
  ASSUME NEW Q, NEW R, Once(Q), Extended(Q, R)
  PROVE  Once(R) /\ Everyone(R) = Everyone(Q)
<1>1. \A i \in DOMAIN R : \A n \in DOMAIN R[i] :
        i \in DOMAIN Q /\ n \in DOMAIN Q[i] /\ R[i][n] = Q[i][n]
  BY DEF Extended
<1>2. QED
  BY <1>1 DEF Once, Everyone, Extended

(* Two tasks of one coroutine are the same task.                            *)
LEMMA OnceTask ==
  ASSUME NEW Q, Once(Q), NEW s \in Everyone(Q), NEW t \in Everyone(Q), s.co = t.co
  PROVE  s = t
  BY DEF Once, Everyone

\* Both ends of a step have one queue per name.
Shaped == QueueShape /\ QueueShape' /\ TypeOK

(* A request answered at once (yield, newChan, a full await, a buffered     *)
(* send or recv) leaves the caller at the back of the ready queue: nobody   *)
(* moves in or out.                                                         *)
LEMMA Requeues ==
  ASSUME Shaped, Once(Queues), Segment, NEW x \in Entry, x.task = running,
         Settle(Append(ready, x)), DOMAIN Queues \subseteq DOMAIN Queues',
         \A i \in DOMAIN Queues \ {Main} : Queues'[i] = Queues[i],
         \A i \in DOMAIN Queues' \ DOMAIN Queues : DOMAIN Queues'[i] = {}
  PROVE  Once(Queues') /\ Everyone(Queues') = Everyone(Queues)
<1> DEFINE a == Len(ready)  f == Len(folds)
<1>0. TypeOK /\ QueueShape /\ QueueShape'
  BY DEF Shaped
<1>1. a \in Nat /\ f \in Nat /\ DOMAIN Line = 1..(a + 1 + f) /\ Line[a + 1] = running
  BY <1>0, LineRunning
<1>2. <<x>> \in Seq(Entry) /\ Len(<<x>>) = 1 /\ <<x>>[1] = x
      /\ ready \o <<x>> = Append(ready, x)
  BY <1>0 DEF TypeOK
<1>3. /\ DOMAIN Line' = 1..(a + 1 + f)
      /\ \A n \in 1..a : Line'[n] = Line[n]
      /\ \A n \in 1..1 : Line'[a + n] = <<x>>[n].task
      /\ \A n \in 1..f : Line'[a + 1 + n] = Line[a + 1 + n]
  BY <1>0, <1>2, LineSettled
<1> HIDE DEF a, f
<1>4. \A n \in DOMAIN Line : Line'[n] = Line[n]
  <2> TAKE n \in DOMAIN Line
  <2>1. CASE n <= a
    BY <1>1, <1>3, <2>1
  <2>2. CASE n = a + 1
    BY <1>1, <1>2, <1>3, <2>2
  <2>3. CASE n > a + 1
    <3>1. n - a - 1 \in 1..f /\ a + 1 + (n - a - 1) = n
      BY <1>1, <2>3
    <3>2. QED
      BY <1>3, <3>1
  <2>4. QED
    BY <1>1, <2>1, <2>2, <2>3
<1>5. \A i \in DOMAIN Queues : /\ DOMAIN Queues'[i] = DOMAIN Queues[i]
                               /\ \A n \in DOMAIN Queues[i] : Queues'[i][n] = Queues[i][n]
  BY <1>0, <1>1, <1>3, <1>4 DEF QueueShape
<1>6. QED
  BY <1>5, Grows DEF Extended

(* A segment that ends without requeueing its task takes it out of the      *)
(* line and disturbs no other queue.                                        *)
LEMMA Departs ==
  ASSUME Shaped, Once(Queues), Segment, NEW Q,
         Settle(ready), DOMAIN Q = DOMAIN Queues, Q[Main] = Line',
         \A i \in DOMAIN Queues \ {Main} : Q[i] = Queues[i]
  PROVE  Once(Q) /\ Everyone(Q) = Everyone(Queues) \ {running}
<1> DEFINE a == Len(ready)  f == Len(folds)
<1>0. TypeOK /\ QueueShape /\ Main \in DOMAIN Queues /\ Queues[Main] = Line
  BY DEF Shaped, QueueShape
<1>1. a \in Nat /\ f \in Nat /\ DOMAIN Line = 1..(a + 1 + f) /\ Line[a + 1] = running
  BY <1>0, LineRunning
<1>2. <<>> \in Seq(Entry) /\ Len(<<>>) = 0 /\ ready \o <<>> = ready
  BY <1>0 DEF TypeOK
<1>3. /\ DOMAIN Line' = 1..(a + 0 + f)
      /\ \A n \in 1..a : Line'[n] = Line[n]
      /\ \A n \in 1..f : Line'[a + 0 + n] = Line[a + 1 + n]
  BY <1>0, <1>2, LineSettled
<1> HIDE DEF a, f
<1> DEFINE l == a + 1 + f  p == a + 1
<1>5. l \in Nat /\ p \in 1..l
  BY <1>1
<1>6. DOMAIN Queues[Main] = 1..l /\ DOMAIN Q[Main] = 1..(l - 1)
  <2>1. a + 0 + f = l - 1
    BY <1>1
  <2>2. QED
    BY <2>1, <1>0, <1>1, <1>3
<1>7. \A n \in 1..(l - 1) : Q[Main][n] = Queues[Main][IF n < p THEN n ELSE n + 1]
  <2> TAKE n \in 1..(l - 1)
  <2>1. Q[Main] = Line' /\ Queues[Main] = Line
    BY <1>0
  <2>2. CASE n < p
    <3>1. n \in 1..a
      BY <1>1, <2>2
    <3>2. Line'[n] = Line[n]
      BY <1>3, <3>1
    <3> HIDE DEF l, p
    <3>3. QED
      BY <2>1, <2>2, <3>2
  <2>3. CASE ~(n < p)
    <3>1. n - a \in 1..f /\ a + 0 + (n - a) = n /\ a + 1 + (n - a) = n + 1
      BY <1>1, <2>3
    <3>2. Line'[n] = Line[n + 1]
      BY <1>3, <3>1
    <3> HIDE DEF l, p
    <3>3. QED
      BY <2>1, <2>3, <3>2
  <2>4. QED
    BY <2>2, <2>3
<1>8. Queues[Main][p] = running
  BY <1>0, <1>1
<1> HIDE DEF l, p
<1>9. GivenUp(Queues, Q, Main, l, p)
  BY <1>0, <1>5, <1>6, <1>7 DEF GivenUp
<1>10. QED
  BY <1>8, <1>9, Leaves

(* Parking on a promise or a channel moves the caller from the line to the  *)
(* back of that queue (Sched.hs:137-139,178-180).                           *)
LEMMA Parks ==
  ASSUME Shaped, Once(Queues), Segment, Settle(ready), NEW i \in DOMAIN Queues \ {Main},
         DOMAIN Queues' = DOMAIN Queues, Queues'[i] = Append(Queues[i], running),
         \A k \in DOMAIN Queues \ {Main, i} : Queues'[k] = Queues[k]
  PROVE  Once(Queues') /\ Everyone(Queues') = Everyone(Queues)
<1> DEFINE Q == [k \in DOMAIN Queues |-> IF k = Main THEN Line' ELSE Queues[k]]
           w == Len(Queues[i])
<1>0. TypeOK /\ QueueShape /\ QueueShape' /\ Main \in DOMAIN Queues
  BY DEF Shaped, QueueShape
<1>1. Once(Q) /\ Everyone(Q) = Everyone(Queues) \ {running}
  <2>1. /\ DOMAIN Q = DOMAIN Queues /\ Q[Main] = Line'
        /\ \A k \in DOMAIN Queues \ {Main} : Q[k] = Queues[k]
    BY <1>0
  <2>2. QED
    BY <2>1, Departs
<1>2. running \in Everyone(Queues)
  BY <1>0, LineRunning DEF Everyone, QueueShape
<1>3. \A u \in Everyone(Q) : u.co # running.co
  BY <1>1, <1>2, OnceTask
<1>4. Queues[i] \in Seq(Task) /\ running \in Task
  BY <1>0 DEF QueueShape, Segment, TypeOK
<1>5. /\ w \in Nat /\ DOMAIN Queues[i] = 1..w /\ DOMAIN Queues'[i] = 1..(w + 1)
      /\ Queues'[i][w + 1] = running
      /\ \A n \in 1..w : Queues'[i][n] = Queues[i][n]
  BY <1>4
<1>6. /\ DOMAIN Q = DOMAIN Queues /\ Q[i] = Queues[i]
      /\ \A k \in DOMAIN Q \ {i} : Queues'[k] = Q[k]
  BY <1>0 DEF QueueShape
<1> HIDE DEF Q, w
<1>7. \A n \in 1..w : Queues'[i][IF n < w + 1 THEN n ELSE n + 1] = Q[i][n]
  BY <1>5, <1>6
<1>8. PutIn(Q, Queues', i, w, w + 1, running)
  BY <1>5, <1>6, <1>7 DEF PutIn
<1>9. Once(Queues') /\ Everyone(Queues') = Everyone(Q) \cup {running}
  BY <1>1, <1>3, <1>8, Joins
<1>10. QED
  BY <1>1, <1>2, <1>9

(* A send to a parked receiver moves the one parked first to the ready      *)
(* queue and requeues the sender (Sched.hs:157-163).                        *)
LEMMA Hands ==
  ASSUME Shaped, Once(Queues), Segment, NEW i \in DOMAIN Queues \ {Main},
         Queues[i] # <<>>, NEW x \in Entry, NEW y \in Entry,
         x.task = Head(Queues[i]), y.task = running, Settle(ready \o <<x, y>>),
         DOMAIN Queues' = DOMAIN Queues, Queues'[i] = Tail(Queues[i]),
         \A k \in DOMAIN Queues \ {Main, i} : Queues'[k] = Queues[k]
  PROVE  Once(Queues') /\ Everyone(Queues') = Everyone(Queues)
<1> DEFINE Q == [k \in DOMAIN Queues |-> IF k = i THEN Queues'[i] ELSE Queues[k]]
           w == Len(Queues[i])
           t == Head(Queues[i])
           a == Len(ready)  f == Len(folds)
<1>0. TypeOK /\ QueueShape /\ QueueShape' /\ Main \in DOMAIN Queues
  BY DEF Shaped, QueueShape
<1>1. Queues[i] \in Seq(Task)
  BY <1>0 DEF QueueShape
<1>2. /\ w \in Nat /\ 1 \in 1..w /\ DOMAIN Queues[i] = 1..w
      /\ DOMAIN Queues'[i] = 1..(w - 1) /\ t = Queues[i][1]
      /\ \A n \in 1..(w - 1) : Queues'[i][n] = Queues[i][n + 1]
  BY <1>1
<1>3. /\ DOMAIN Q = DOMAIN Queues /\ Q[i] = Queues'[i] /\ Q[Main] = Queues[Main]
      /\ \A k \in DOMAIN Queues \ {i} : Q[k] = Queues[k]
      /\ \A k \in DOMAIN Queues \ {Main} : Queues'[k] = Q[k]
  BY <1>0 DEF QueueShape
<1> HIDE DEF Q, w, t
<1>4. \A n \in 1..(w - 1) : Q[i][n] = Queues[i][IF n < 1 THEN n ELSE n + 1]
  BY <1>2, <1>3
<1>5. GivenUp(Queues, Q, i, w, 1)
  BY <1>2, <1>3, <1>4 DEF GivenUp
<1>6. Once(Q) /\ Everyone(Q) = Everyone(Queues) \ {t}
  BY <1>2, <1>5, Leaves
<1>7. t \in Everyone(Queues)
  BY <1>2 DEF Everyone
<1>8. \A u \in Everyone(Q) : u.co # t.co
  BY <1>6, <1>7, OnceTask
<1>9. a \in Nat /\ f \in Nat /\ DOMAIN Line = 1..(a + 1 + f) /\ Line[a + 1] = running
  BY <1>0, LineRunning
<1>10. /\ <<x, y>> \in Seq(Entry) /\ Len(<<x, y>>) = 2
       /\ <<x, y>>[1].task = t /\ <<x, y>>[2].task = running
  BY DEF t
<1>11. /\ DOMAIN Line' = 1..(a + 2 + f)
       /\ \A n \in 1..a : Line'[n] = Line[n]
       /\ \A n \in 1..2 : Line'[a + n] = <<x, y>>[n].task
       /\ \A n \in 1..f : Line'[a + 2 + n] = Line[a + 1 + n]
  BY <1>0, <1>10, LineSettled
<1> HIDE DEF a, f
<1> DEFINE l == a + 1 + f  p == a + 1
<1>12. /\ l \in Nat /\ p \in 1..(l + 1) /\ DOMAIN Line' = 1..(l + 1)
       /\ DOMAIN Line = 1..l
  <2>1. a + 2 + f = l + 1
    BY <1>9
  <2>2. QED
    BY <1>9, <1>11, <2>1
<1>13. Line'[p] = t
  <2>1. 1 \in 1..2
    OBVIOUS
  <2>2. QED
    BY <1>10, <1>11, <2>1
<1>14. \A n \in 1..l : Line'[IF n < p THEN n ELSE n + 1] = Line[n]
  <2> TAKE n \in 1..l
  <2>1. CASE n <= a
    BY <1>9, <1>11, <2>1
  <2>2. CASE n = a + 1
    <3>1. 2 \in 1..2 /\ a + 1 + 1 = a + 2
      BY <1>9
    <3>2. QED
      BY <1>9, <1>10, <1>11, <2>2, <3>1
  <2>3. CASE n > a + 1
    <3>1. n - a - 1 \in 1..f /\ a + 1 + (n - a - 1) = n /\ a + 2 + (n - a - 1) = n + 1
      BY <1>9, <2>3
    <3>2. Line'[n + 1] = Line[n]
      BY <1>11, <3>1
    <3>3. ~(n < p)
      BY <1>9, <2>3
    <3>4. QED
      BY <3>2, <3>3
  <2>4. QED
    BY <1>9, <2>1, <2>2, <2>3
<1> HIDE DEF l, p
<1>15. PutIn(Q, Queues', Main, l, p, t)
  BY <1>0, <1>3, <1>12, <1>13, <1>14 DEF PutIn, QueueShape
<1>16. Once(Queues') /\ Everyone(Queues') = Everyone(Q) \cup {t}
  BY <1>6, <1>8, <1>15, Joins
<1>17. QED
  BY <1>6, <1>7, <1>16

(* Fulfilling a promise ends the producer and moves every awaiter to the    *)
(* ready queue (Sched.hs:202-207).                                          *)
LEMMA Wakens ==
  ASSUME Shaped, Once(Queues), Segment, NEW i \in DOMAIN Queues \ {Main},
         NEW v \in Value, Settle(ready \o Woken(Queues[i], v)),
         DOMAIN Queues' = DOMAIN Queues, Queues'[i] = <<>>,
         \A k \in DOMAIN Queues \ {Main, i} : Queues'[k] = Queues[k]
  PROVE  Once(Queues') /\ Everyone(Queues') = Everyone(Queues) \ {running}
<1> DEFINE w == Len(Queues[i])  ws == Woken(Queues[i], v)
           a == Len(ready)  f == Len(folds)
<1>0. TypeOK /\ QueueShape /\ QueueShape' /\ Main \in DOMAIN Queues
  BY DEF Shaped, QueueShape
<1>1. Queues[i] \in Seq(Task)
  BY <1>0 DEF QueueShape
<1>2. /\ w \in Nat /\ DOMAIN Queues[i] = 1..w /\ DOMAIN Queues'[i] = {}
      /\ ws \in Seq(Entry) /\ Len(ws) = w
      /\ \A n \in 1..w : ws[n].task = Queues[i][n]
  <2>1. ws \in Seq(Entry)
    BY <1>1, WokenType
  <2>2. QED
    BY <1>1, <2>1 DEF Woken, Resume
<1>3. a \in Nat /\ f \in Nat /\ DOMAIN Line = 1..(a + 1 + f) /\ Line[a + 1] = running
  BY <1>0, LineRunning
<1>4. /\ DOMAIN Line' = 1..(a + w + f)
      /\ \A n \in 1..a : Line'[n] = Line[n]
      /\ \A n \in 1..w : Line'[a + n] = ws[n].task
      /\ \A n \in 1..f : Line'[a + w + n] = Line[a + 1 + n]
  BY <1>0, <1>2, LineSettled
<1> HIDE DEF a, f, w, ws
<1> DEFINE l == a + 1 + f  p == a + 1
<1>5. /\ l \in Nat /\ p \in 1..l /\ DOMAIN Line' = 1..(l - 1 + w)
      /\ DOMAIN Line = 1..l
  <2>1. a + w + f = l - 1 + w
    BY <1>2, <1>3
  <2>2. QED
    BY <1>3, <1>4, <2>1
<1>6. \A n \in 1..(l - 1 + w) :
        Line'[n] = IF n < p THEN Line[n]
                   ELSE IF n < p + w THEN Queues[i][n - p + 1] ELSE Line[n - w + 1]
  <2> TAKE n \in 1..(l - 1 + w)
  <2>1. CASE n < p
    <3>1. n \in 1..a
      BY <1>3, <2>1
    <3>2. QED
      BY <1>4, <2>1, <3>1
  <2>2. CASE ~(n < p) /\ n < p + w
    <3>1. n - a \in 1..w /\ a + (n - a) = n /\ n - p + 1 = n - a
      BY <1>2, <1>3, <2>2
    <3>2. Line'[n] = Queues[i][n - a]
      BY <1>2, <1>4, <3>1
    <3>3. QED
      BY <2>2, <3>1, <3>2
  <2>3. CASE ~(n < p) /\ ~(n < p + w)
    <3>1. /\ n - a - w \in 1..f /\ a + w + (n - a - w) = n
          /\ a + 1 + (n - a - w) = n - w + 1
      BY <1>2, <1>3, <2>3
    <3>2. Line'[n] = Line[n - w + 1]
      BY <1>4, <3>1
    <3>3. QED
      BY <2>3, <3>2
  <2>4. QED
    BY <2>1, <2>2, <2>3
<1>7. Line[p] = running
  BY <1>3
<1> HIDE DEF l, p
<1>8. ReplacedBy(Queues, Queues', Main, l, p, i, w)
  BY <1>0, <1>2, <1>5, <1>6 DEF ReplacedBy, QueueShape
<1>9. QED
  BY <1>0, <1>7, <1>8, Wakes DEF QueueShape

(* spawn and async add the child and keep the caller, which waits in the    *)
(* recursion of processStep (Sched.hs:99-131).                              *)
LEMMA Starts ==
  ASSUME Shaped, Once(Queues), Segment, running' # NoTask,
         NEW x \in Entry, x.task = running,
         folds' = <<x>> \o folds, ready' = ready,
         \A u \in Everyone(Queues) : u.co # running'.co,
         DOMAIN Queues \subseteq DOMAIN Queues',
         \A i \in DOMAIN Queues \ {Main} : Queues'[i] = Queues[i],
         \A i \in DOMAIN Queues' \ DOMAIN Queues : DOMAIN Queues'[i] = {}
  PROVE  Once(Queues') /\ Everyone(Queues') = Everyone(Queues) \cup {running'}
<1> DEFINE Q == [k \in DOMAIN Queues' |-> IF k = Main THEN Line ELSE Queues'[k]]
           a == Len(ready)  f == Len(folds)
<1>0. TypeOK /\ QueueShape /\ QueueShape' /\ Main \in DOMAIN Queues
  BY DEF Shaped, QueueShape
<1>1. /\ DOMAIN Q = DOMAIN Queues' /\ Q[Main] = Line /\ Main \in DOMAIN Q
      /\ \A k \in DOMAIN Q \ {Main} : Queues'[k] = Q[k]
      /\ \A k \in DOMAIN Queues : Q[k] = Queues[k]
  BY <1>0 DEF QueueShape
<1> HIDE DEF Q
<1>2. Extended(Queues, Q)
  BY <1>0, <1>1 DEF Extended, QueueShape
<1>3. Once(Q) /\ Everyone(Q) = Everyone(Queues)
  BY <1>2, Grows
<1>4. a \in Nat /\ f \in Nat /\ DOMAIN Line = 1..(a + 1 + f) /\ Line[a + 1] = running
  BY <1>0, LineRunning
<1>5. /\ Len(folds') = f + 1 /\ folds'[1] = x /\ folds' \in Seq(Entry)
      /\ \A n \in 1..f : folds'[n + 1] = folds[n]
  BY <1>0 DEF TypeOK
<1>6. /\ DOMAIN Line' = 1..(a + 1 + (f + 1))
      /\ \A n \in 1..a : Line'[n] = ready[n].task
      /\ Line'[a + 1] = running'
      /\ \A n \in 1..(f + 1) : Line'[a + 1 + n] = folds'[n].task
  BY <1>4, <1>5 DEF Line
<1>7. /\ \A n \in 1..a : Line[n] = ready[n].task
      /\ \A n \in 1..f : Line[a + 1 + n] = folds[n].task
  BY <1>4 DEF Line, Segment
<1> HIDE DEF a, f
<1> DEFINE l == a + 1 + f  p == a + 1
<1>8. l \in Nat /\ p \in 1..(l + 1) /\ DOMAIN Line = 1..l /\ DOMAIN Line' = 1..(l + 1)
  <2>1. a + 1 + (f + 1) = l + 1
    BY <1>4
  <2>2. QED
    BY <1>4, <1>6, <2>1
<1>9. \A n \in 1..l : Line'[IF n < p THEN n ELSE n + 1] = Line[n]
  <2> TAKE n \in 1..l
  <2>1. CASE n <= a
    BY <1>4, <1>6, <1>7, <2>1
  <2>2. CASE n = a + 1
    <3>1. 1 \in 1..(f + 1) /\ ~(n < p)
      BY <1>4, <2>2
    <3>2. Line'[a + 1 + 1] = running
      BY <1>5, <1>6, <3>1
    <3>3. QED
      BY <1>4, <2>2, <3>1, <3>2
  <2>3. CASE n > a + 1
    <3>1. /\ n - a - 1 \in 1..f /\ a + 1 + (n - a - 1) = n
          /\ n - a - 1 + 1 \in 1..(f + 1) /\ a + 1 + (n - a - 1 + 1) = n + 1
          /\ ~(n < p)
      BY <1>4, <2>3
    <3>2. Line'[n + 1] = Line[n]
      BY <1>5, <1>6, <1>7, <3>1
    <3>3. QED
      BY <3>1, <3>2
  <2>4. QED
    BY <1>4, <2>1, <2>2, <2>3
<1>10. Line'[p] = running'
  BY <1>6
<1> HIDE DEF l, p
<1>11. PutIn(Q, Queues', Main, l, p, running')
  BY <1>0, <1>1, <1>8, <1>9, <1>10 DEF PutIn, QueueShape
<1>12. Once(Queues') /\ Everyone(Queues') = Everyone(Q) \cup {running'}
  BY <1>3, <1>11, Joins
<1>13. QED
  BY <1>3, <1>12

(* loop moves the head of the ready queue into the machine                  *)
(* (Sched.hs:230-234).                                                      *)
LEMMA Resumes ==
  ASSUME Shaped, Once(Queues), running = NoTask, ready # <<>>,
         running' = Head(ready).task, running' # NoTask, ready' = Tail(ready), folds' = <<>>,
         DOMAIN Queues' = DOMAIN Queues,
         \A i \in DOMAIN Queues \ {Main} : Queues'[i] = Queues[i]
  PROVE  Once(Queues') /\ Everyone(Queues') = Everyone(Queues)
<1> DEFINE a == Len(ready)  t == running'
           M == [n \in 1..(a - 1) |-> Line[n + 1]]
           Q == [k \in DOMAIN Queues |-> IF k = Main THEN M ELSE Queues[k]]
<1>0. TypeOK /\ QueueShape /\ QueueShape' /\ Main \in DOMAIN Queues
  BY DEF Shaped, QueueShape
<1>1. /\ a \in Nat /\ 1 \in 1..a /\ DOMAIN Line = 1..a
      /\ \A n \in 1..a : Line[n] = ready[n].task
  BY <1>0 DEF Line, TypeOK
<1>2. /\ DOMAIN Line' = 1..a /\ Line'[a] = t
      /\ \A n \in 1..(a - 1) : Line'[n] = ready[n + 1].task
      /\ Line[1] = t
  <2>1. Len(ready') = a - 1 /\ \A n \in 1..(a - 1) : ready'[n] = ready[n + 1]
    BY <1>0, <1>1 DEF TypeOK
  <2>2. t = ready[1].task
    BY <1>0, <1>1 DEF TypeOK
  <2>3. /\ DOMAIN Line' = 1..(Len(ready') + (1 + Len(folds')))
        /\ \A n \in DOMAIN Line' : Line'[n] = IF n <= Len(ready') THEN ready'[n].task
                                              ELSE IF n = Len(ready') + 1 THEN t
                                              ELSE folds'[n - Len(ready') - 1].task
    BY DEF Line
  <2>4. Len(folds') = 0 /\ a - 1 + (1 + 0) = a /\ a \in 1..a
    BY <1>1
  <2>5. \A n \in 1..(a - 1) : n \in 1..a /\ n <= a - 1
    BY <1>1
  <2>6. DOMAIN Line' = 1..a
    BY <2>1, <2>3, <2>4
  <2>7. Line'[a] = t
    BY <1>1, <2>1, <2>3, <2>4, <2>6
  <2>8. \A n \in 1..(a - 1) : Line'[n] = ready[n + 1].task
    BY <1>1, <2>1, <2>3, <2>5, <2>6
  <2>9. Line[1] = t
    BY <1>1, <2>2
  <2>10. QED
    BY <2>6, <2>7, <2>8, <2>9
<1>3. \A n \in 1..(a - 1) : n + 1 \in 1..a /\ Line'[n] = Line[n + 1]
  BY <1>1, <1>2
<1>4. /\ DOMAIN Q = DOMAIN Queues /\ DOMAIN Q[Main] = 1..(a - 1)
      /\ \A n \in 1..(a - 1) : Q[Main][n] = Line[n + 1]
      /\ \A k \in DOMAIN Queues \ {Main} : Q[k] = Queues[k]
  BY <1>0
<1> HIDE DEF M, Q, a, t
<1>5. GivenUp(Queues, Q, Main, a, 1)
  <2>1. \A n \in 1..(a - 1) : Q[Main][n] = Line[IF n < 1 THEN n ELSE n + 1]
    BY <1>1, <1>4
  <2>2. QED
    BY <1>0, <1>1, <1>4, <2>1 DEF GivenUp, QueueShape
<1>6. Once(Q) /\ Everyone(Q) = Everyone(Queues) \ {t}
  BY <1>0, <1>2, <1>5, Leaves DEF QueueShape
<1>7. t \in Everyone(Queues)
  <2>1. t = Queues[Main][1] /\ 1 \in DOMAIN Queues[Main]
    BY <1>0, <1>1, <1>2 DEF QueueShape
  <2>2. QED
    BY <1>0, <2>1 DEF Everyone
<1>8. \A u \in Everyone(Q) : u.co # t.co
  BY <1>6, <1>7, OnceTask
<1> DEFINE l == a - 1
<1>9. /\ l \in Nat /\ l + 1 = a /\ l + 1 \in 1..(l + 1) 
      /\ \A n \in 1..l : Line'[IF n < l + 1 THEN n ELSE n + 1] = Q[Main][n]
  BY <1>1, <1>3, <1>4
<1>10. PutIn(Q, Queues', Main, l, l + 1, t)
  <2>1. DOMAIN Q[Main] = 1..l /\ DOMAIN Line' = 1..(l + 1) /\ Line'[l + 1] = t
    BY <1>2, <1>4, <1>9
  <2> HIDE DEF l
  <2>2. QED
    BY <1>0, <1>4, <1>9, <2>1 DEF PutIn, QueueShape
<1>11. Once(Queues') /\ Everyone(Queues') = Everyone(Q) \cup {t}
  BY <1>6, <1>8, <1>10, Joins
<1>12. QED
  BY <1>6, <1>7, <1>11
-----------------------------------------------------------------------------
(* Crewed: no coroutine stands twice, the coroutines that stand anywhere   *)
(* are the live ones, and callers wait only on a running segment.          *)
(* Produced: no two tasks owe the same promise, or the root's result; a    *)
(* promise is owed while it is pending, the result until it is set; and a  *)
(* full promise has no awaiters.                                           *)
Crewed ==
  /\ Once(Queues)
  /\ {t.co : t \in LiveTasks} = live
  /\ running = NoTask => folds = <<>>

Produced ==
  /\ \A s, t \in LiveTasks : s.owner = t.owner /\ s.owner.k # "detached" => s = t
  /\ \A t \in LiveTasks : t.owner.k = "fulfils" =>
       t.owner.p \in DOMAIN cells /\ ~cells[t.owner.p].full
  /\ \A i \in DOMAIN cells :
       IF cells[i].full THEN cells[i].waiters = <<>>
       ELSE \E t \in LiveTasks : t.owner = Fulfils(i)
  /\ result <=> \A t \in LiveTasks : t.owner # Root

Crew == IdInv /\ Crewed /\ Produced

(* The tasks of the queues are the live tasks, and every one is a task.     *)
LEMMA Everybody ==
  TypeOK /\ QueueShape /\ (running = NoTask => folds = <<>>)
    => Everyone(Queues) = LiveTasks /\ LiveTasks \subseteq Task
<1> SUFFICES ASSUME TypeOK, QueueShape, running = NoTask => folds = <<>>
             PROVE  Everyone(Queues) = LiveTasks /\ LiveTasks \subseteq Task
  OBVIOUS
<1> DEFINE a == Len(ready)  f == Len(folds)
<1>1. /\ a \in Nat /\ f \in Nat /\ DOMAIN ready = 1..a /\ DOMAIN folds = 1..f
      /\ running = NoTask => f = 0
      /\ \A n \in 1..a : ready[n].task \in Task
      /\ \A n \in 1..f : folds[n].task \in Task
  <2>1. ready \in Seq(Entry) /\ folds \in Seq(Entry)
    BY DEF TypeOK
  <2>2. \A e \in Entry : e.task \in Task
    BY DEF Entry
  <2>3. /\ a \in Nat /\ f \in Nat /\ DOMAIN ready = 1..a /\ DOMAIN folds = 1..f
        /\ \A n \in 1..a : ready[n] \in Entry
        /\ \A n \in 1..f : folds[n] \in Entry
    BY <2>1
  <2>4. running = NoTask => f = 0
    OBVIOUS
  <2>5. QED
    BY <2>2, <2>3, <2>4
<1>2. /\ DOMAIN Line = 1..(a + IF running = NoTask THEN 0 ELSE 1 + f)
      /\ \A n \in DOMAIN Line : Line[n] = IF n <= a THEN ready[n].task
                                          ELSE IF n = a + 1 THEN running
                                          ELSE folds[n - a - 1].task
  BY DEF Line
<1> HIDE DEF a, f
<1> DEFINE Ahead == {ready[n].task : n \in 1..a}  Back == {folds[n].task : n \in 1..f}
           Now == {running} \ {NoTask}
<1>3. {Line[n] : n \in DOMAIN Line} = Ahead \cup Back \cup Now
  <2>1. \A n \in DOMAIN Line : Line[n] \in Ahead \cup Back \cup Now
    <3> TAKE n \in DOMAIN Line
    <3>1. CASE n <= a
      <4>1. n \in 1..a
        BY <1>1, <1>2, <3>1
      <4>2. QED
        BY <1>2, <3>1, <4>1
    <3>2. CASE n = a + 1
      BY <1>1, <1>2, <3>2
    <3>3. CASE n > a + 1
      <4>1. n - a - 1 \in 1..f /\ ~(n <= a) /\ n # a + 1
        BY <1>1, <1>2, <3>3
      <4>2. QED
        BY <1>2, <4>1
    <3>4. QED
      BY <1>1, <1>2, <3>1, <3>2, <3>3
  <2>2. \A n \in 1..a : n \in DOMAIN Line /\ Line[n] = ready[n].task
    BY <1>1, <1>2
  <2>3. \A n \in 1..f : a + 1 + n \in DOMAIN Line /\ Line[a + 1 + n] = folds[n].task
    <3> TAKE n \in 1..f
    <3>1. running # NoTask /\ a + 1 + n \in 1..(a + (1 + f)) /\ ~(a + 1 + n <= a)
          /\ a + 1 + n # a + 1 /\ a + 1 + n - a - 1 = n
      BY <1>1
    <3>2. a + 1 + n \in DOMAIN Line
      BY <1>2, <3>1
    <3>3. Line[a + 1 + n] = folds[a + 1 + n - a - 1].task
      BY <1>1, <1>2, <3>1, <3>2
    <3>4. QED
      BY <3>1, <3>2, <3>3
  <2>4. running # NoTask => a + 1 \in DOMAIN Line /\ Line[a + 1] = running
    BY <1>1, <1>2
  <2>5. QED
    BY <2>1, <2>2, <2>3, <2>4
<1>4. {e.task : e \in Range(ready) \cup Range(folds)} = Ahead \cup Back
  BY <1>1 DEF Range
<1>p. \A t : t \in Parked <=> \/ \E i \in DOMAIN cells : t \in Range(cells[i].waiters)
                             \/ \E i \in DOMAIN chans : t \in Range(chans[i].waiters)
  BY DEF Parked
<1>5. \A t : t \in Parked <=> \E i \in DOMAIN cells \cup DOMAIN chans :
                             \E m \in DOMAIN Queues[i] : t = Queues[i][m]
  <2>1. \A i \in DOMAIN cells :
          Range(cells[i].waiters) = {Queues[i][m] : m \in DOMAIN Queues[i]}
    BY DEF Range, QueueShape
  <2>2. \A i \in DOMAIN chans :
          Range(chans[i].waiters) = {Queues[i][m] : m \in DOMAIN Queues[i]}
    BY DEF Range, QueueShape
  <2>3. \A i \in DOMAIN cells : \A t : 
          t \in Range(cells[i].waiters) <=> \E m \in DOMAIN Queues[i] : t = Queues[i][m]
    BY <2>1
  <2>4. \A i \in DOMAIN chans : \A t : 
          t \in Range(chans[i].waiters) <=> \E m \in DOMAIN Queues[i] : t = Queues[i][m]
    BY <2>2
  <2> TAKE t
  <2> DEFINE Stands(i) == \E m \in DOMAIN Queues[i] : t = Queues[i][m]
  <2>5. \A i \in DOMAIN cells : t \in Range(cells[i].waiters) <=> Stands(i)
    BY <2>3
  <2>6. \A i \in DOMAIN chans : t \in Range(chans[i].waiters) <=> Stands(i)
    BY <2>4
  <2>7. t \in Parked <=> \E i \in DOMAIN cells \cup DOMAIN chans : Stands(i)
    <3> HIDE DEF Stands
    <3>1. QED
      BY <1>p, <2>5, <2>6
  <2>8. QED
    BY <2>7
<1>6. Everyone(Queues) = {Line[n] : n \in DOMAIN Line} \cup Parked
  <2>1. {Queues[Main][m] : m \in DOMAIN Queues[Main]} = {Line[n] : n \in DOMAIN Line}
    BY DEF QueueShape
  <2>2. QED
    BY <1>5, <2>1 DEF Everyone, QueueShape
<1>7. Everyone(Queues) = LiveTasks
  BY <1>3, <1>4, <1>6 DEF LiveTasks
<1>8. Parked \subseteq Task
  <2>1. \A ws \in Seq(Task) : Range(ws) \subseteq Task
    BY DEF Range
  <2>2. QED
    BY <1>p, <2>1 DEF QueueShape
<1>9. Now \subseteq Task
  BY DEF TypeOK
<1>10. QED
  BY <1>1, <1>3, <1>6, <1>7, <1>8, <1>9

(* The same, with the shape of the queues, from the parts of the            *)
(* invariant.                                                               *)
LEMMA Aboard ==
  TypeOK /\ HandlesOwn /\ (running = NoTask => folds = <<>>)
    => QueueShape /\ Everyone(Queues) = LiveTasks /\ LiveTasks \subseteq Task
  BY QueueOf, Everybody

(* A step that moves tasks about, and neither starts nor ends one, keeps    *)
(* the crew.                                                                *)
LEMMA Stays ==
  ASSUME Crew, TypeOK', HandlesOwn', Once(Queues'), Everyone(Queues') = Everyone(Queues),
         live' = live, running' = NoTask => folds' = <<>>
  PROVE  Crewed' /\ LiveTasks' = LiveTasks
<1>1. Everyone(Queues) = LiveTasks
  BY Aboard DEF Crew, Crewed, IdInv
<1>2. (TypeOK /\ HandlesOwn /\ (running = NoTask => folds = <<>>)
        => QueueShape /\ Everyone(Queues) = LiveTasks /\ LiveTasks \subseteq Task)'
  BY Aboard, PTL
<1>3. QED
  BY <1>1, <1>2 DEF Crew, Crewed, IdInv

(* A step that ends the running coroutine takes exactly its task out of     *)
(* the crew.                                                                *)
LEMMA Quits ==
  ASSUME Crew, TypeOK', HandlesOwn', Segment, Once(Queues'),
         Everyone(Queues') = Everyone(Queues) \ {running},
         live' = live \ {running.co}, running' = NoTask => folds' = <<>>
  PROVE  Crewed' /\ LiveTasks' = LiveTasks \ {running} /\ running \in LiveTasks
<1>1. Everyone(Queues) = LiveTasks
  BY Aboard DEF Crew, Crewed, IdInv
<1>2. (TypeOK /\ HandlesOwn /\ (running = NoTask => folds = <<>>)
        => QueueShape /\ Everyone(Queues) = LiveTasks /\ LiveTasks \subseteq Task)'
  BY Aboard, PTL
<1>3. LiveTasks' = LiveTasks \ {running}
  BY <1>1, <1>2 
<1>4. running \in LiveTasks
  BY DEF LiveTasks, Segment
<1>5. \A t \in LiveTasks : t.co = running.co => t = running
  BY <1>1, <1>4, OnceTask DEF Crew, Crewed, IdInv
<1>6. {t.co : t \in LiveTasks \ {running}} = {t.co : t \in LiveTasks} \ {running.co}
  BY <1>4, <1>5
<1>7. QED
  BY <1>3, <1>4, <1>6 DEF Crew, Crewed, IdInv

(* A step that starts a coroutine nobody carries adds exactly its task.     *)
LEMMA Enters ==
  ASSUME Crew, TypeOK', HandlesOwn', running' # NoTask, Once(Queues'),
         Everyone(Queues') = Everyone(Queues) \cup {running'},
         live' = live \cup {running'.co}
  PROVE  Crewed' /\ LiveTasks' = LiveTasks \cup {running'}
<1>1. Everyone(Queues) = LiveTasks
  BY Aboard DEF Crew, Crewed, IdInv
<1>2. (TypeOK /\ HandlesOwn /\ (running = NoTask => folds = <<>>)
        => QueueShape /\ Everyone(Queues) = LiveTasks /\ LiveTasks \subseteq Task)'
  BY Aboard, PTL
<1>3. LiveTasks' = LiveTasks \cup {running'}
  BY <1>1, <1>2 
<1>4. {t.co : t \in LiveTasks \cup {running'}} = {t.co : t \in LiveTasks} \cup {running'.co}
  OBVIOUS
<1>5. QED
  BY <1>3, <1>4 DEF Crew, Crewed, IdInv

(* An error, the drive's return, and an id minted by a nested drive leave   *)
(* every queue alone.                                                       *)
LEMMA SameCrew ==
  ASSUME Crew, UNCHANGED <<ready, running, folds, cells, chans, live, result>>
  PROVE  Crewed' /\ Produced' /\ LiveTasks' = LiveTasks
<1>1. UNCHANGED <<Line, LiveTasks>>
  BY DEF Line, LiveTasks, Parked
<1>2. UNCHANGED Queues
  BY <1>1 DEF Queues
<1>3. QED
  BY <1>1, <1>2 DEF Crew, Crewed, Produced, IdInv

(* A request that touches neither map leaves every parked queue alone.      *)
LEMMA SameQueues ==
  ASSUME Shaped, UNCHANGED <<cells, chans>>
  PROVE  /\ DOMAIN Queues' = DOMAIN Queues
         /\ \A k \in DOMAIN Queues \ {Main} : Queues'[k] = Queues[k]
  BY DEF Shaped, QueueShape

(* Map.insert on the promise map changes one parked queue.                  *)
LEMMA CellChanged ==
  ASSUME Shaped, NEW i, NEW c, cells' = Insert(cells, i, c), UNCHANGED chans
  PROVE  /\ DOMAIN Queues' = DOMAIN Queues \cup {i} /\ i # Main
         /\ Queues'[i] = c.waiters
         /\ \A k \in DOMAIN Queues \ {Main, i} : Queues'[k] = Queues[k]
<1>1. /\ DOMAIN cells' = DOMAIN cells \cup {i} /\ cells'[i] = c
      /\ \A k \in DOMAIN cells \ {i} : cells'[k] = cells[k]
  BY DEF Insert
<1>2. QED
  BY <1>1 DEF Shaped, QueueShape

(* Map.insert on the channel map changes one parked queue.                  *)
LEMMA ChanChanged ==
  ASSUME Shaped, NEW i, NEW c, chans' = Insert(chans, i, c), UNCHANGED cells
  PROVE  /\ DOMAIN Queues' = DOMAIN Queues \cup {i} /\ i # Main
         /\ Queues'[i] = c.waiters
         /\ \A k \in DOMAIN Queues \ {Main, i} : Queues'[k] = Queues[k]
<1>1. /\ DOMAIN chans' = DOMAIN chans \cup {i} /\ chans'[i] = c
      /\ \A k \in DOMAIN chans \ {i} : chans'[k] = chans[k]
  BY DEF Insert
<1>2. QED
  BY <1>1 DEF Shaped, QueueShape

(* Moving tasks about, with no promise filled and the root not completed,   *)
(* leaves every producer what it was.                                       *)
LEMMA SameProducers ==
  ASSUME Produced, LiveTasks' = LiveTasks, result' = result, DOMAIN cells' = DOMAIN cells,
         \A i \in DOMAIN cells : /\ cells'[i].full = cells[i].full
                                 /\ cells[i].full => cells'[i].waiters = cells[i].waiters
  PROVE  Produced'
  BY DEF Produced

(* The crew and its producers are inductive: each request, wake-up and      *)
(* turn of the loop keeps them.                                             *)
LEMMA CrewStep == Crew /\ [Next]_vars => Crew'
<1> SUFFICES ASSUME Crew, [Next]_vars PROVE Crewed' /\ Produced'
  BY IdStep DEF Crew
<1>t. TypeOK /\ HandlesOwn /\ Once(Queues) /\ Produced /\ IdInv /\ TypeOK' /\ HandlesOwn'
  BY IdStep DEF Crew, Crewed, IdInv
<1>q. /\ \A i \in DOMAIN cells : i \in DOMAIN Queues \ {Main} /\ Queues[i] = cells[i].waiters
      /\ \A i \in DOMAIN chans : i \in DOMAIN Queues \ {Main} /\ Queues[i] = chans[i].waiters
      /\ \A i : i \notin DOMAIN cells \cup DOMAIN chans /\ i # Main => i \notin DOMAIN Queues
  BY <1>t, QueueOf DEF QueueShape
<1>s. Shaped
  <2>1. (TypeOK /\ HandlesOwn => QueueShape)'
    BY QueueOf, PTL
  <2>2. QED
    BY <1>t, <2>1, QueueOf DEF Shaped
<1>f. ASSUME NEW err, Fail(err) PROVE Crewed' /\ Produced'
  BY <1>f, SameCrew DEF Fail
<1>r. ASSUME Segment, NEW v \in Value
      PROVE  Resume(running, v) \in Entry /\ Resume(running, v).task = running
  <2>1. running \in Task
    BY <1>r, <1>t DEF Segment, TypeOK
  <2>2. QED
    BY <2>1, ResumeType DEF Resume
<1>b. ASSUME Segment, NEW v \in Value, Settle(Append(ready, Resume(running, v))),
             DOMAIN Queues \subseteq DOMAIN Queues', live' = live,
             \A i \in DOMAIN Queues \ {Main} : Queues'[i] = Queues[i],
             \A i \in DOMAIN Queues' \ DOMAIN Queues : DOMAIN Queues'[i] = {}
      PROVE  Crewed' /\ LiveTasks' = LiveTasks
  <2>1. Resume(running, v) \in Entry /\ Resume(running, v).task = running
    BY <1>b, <1>r
  <2>2. Once(Queues') /\ Everyone(Queues') = Everyone(Queues)
    BY <1>b, <1>s, <1>t, <2>1, Requeues
  <2>3. folds' = <<>>
    BY <1>b DEF Settle
  <2>4. QED
    BY <1>b, <1>t, <2>2, <2>3, Stays
<1>p. ASSUME Segment, Settle(ready), NEW i \in DOMAIN Queues \ {Main}, live' = live,
             DOMAIN Queues' = DOMAIN Queues, Queues'[i] = Append(Queues[i], running),
             \A k \in DOMAIN Queues \ {Main, i} : Queues'[k] = Queues[k]
      PROVE  Crewed' /\ LiveTasks' = LiveTasks
  <2>1. Once(Queues') /\ Everyone(Queues') = Everyone(Queues)
    BY <1>p, <1>s, <1>t, Parks
  <2>2. folds' = <<>>
    BY <1>p DEF Settle
  <2>3. QED
    BY <1>p, <1>t, <2>1, <2>2, Stays
<1>1. CASE NestedMint
  <2>1. CASE CanMint(sup)
    BY <1>1, <2>1, SameCrew DEF NestedMint
  <2>2. CASE ~CanMint(sup)
    BY <1>1, <2>2, <1>f DEF NestedMint
  <2>3. QED
    BY <2>1, <2>2
<1>2. CASE Yield
  <2>1. /\ Segment /\ Settle(Append(ready, Resume(running, Unit)))
        /\ UNCHANGED <<cells, chans, live, result>>
    BY <1>2 DEF Yield
  <2>2. Crewed' /\ LiveTasks' = LiveTasks
    BY <2>1, <1>s, <1>b, SameQueues, ValueType
  <2>3. QED
    BY <1>t, <2>1, <2>2, SameProducers
<1>c. ASSUME Segment, NEW c \in Coro \ live, NEW o \in Owner, StartChild(c, o, sup),
             ready' = ready, DOMAIN Queues \subseteq DOMAIN Queues',
             \A i \in DOMAIN Queues \ {Main} : Queues'[i] = Queues[i],
             \A i \in DOMAIN Queues' \ DOMAIN Queues : DOMAIN Queues'[i] = {}
      PROVE  /\ Crewed' /\ LiveTasks' = LiveTasks \cup {[co |-> c, owner |-> o]}
             /\ \A t \in LiveTasks : t.co # c
  <2>1. /\ running' = [co |-> c, owner |-> o] /\ running' \in Task
        /\ folds' = <<Resume(running, Handle(sup))>> \o folds
        /\ live' = live \cup {c}
    BY <1>c DEF StartChild, Task
  <2>2. running' # NoTask /\ running'.co = c
    BY <2>1, TaskRuns
  <2>3. Handle(sup) \in Value
    BY <1>t, ValueType DEF TypeOK
  <2>4. \A t \in LiveTasks : t.co # c
    BY <1>c DEF Crew, Crewed, IdInv
  <2>5. Everyone(Queues) = LiveTasks
    BY Aboard DEF Crew, Crewed, IdInv
  <2>6. /\ Resume(running, Handle(sup)) \in Entry
        /\ Resume(running, Handle(sup)).task = running
    BY <1>c, <1>r, <2>3
  <2>7. Once(Queues') /\ Everyone(Queues') = Everyone(Queues) \cup {running'}
    BY <1>c, <1>s, <1>t, <2>1, <2>2, <2>4, <2>5, <2>6, Starts
  <2>8. QED
    BY <1>t, <2>1, <2>2, <2>4, <2>7, Enters
<1>3. ASSUME NEW c \in Coro, Spawn(c) PROVE Crewed' /\ Produced'
  <2>1. CASE CanMint(sup)
    <3>1. /\ Segment /\ c \in Coro \ live /\ StartChild(c, Detached, sup)
          /\ UNCHANGED <<ready, cells, chans, result>>
      BY <1>3, <2>1 DEF Spawn, SupAfterSegment
    <3>2. Detached \in Owner /\ Detached.k = "detached" /\ Detached # Root
      BY DEF Detached, Owner, Root
    <3>3. Crewed' /\ LiveTasks' = LiveTasks \cup {[co |-> c, owner |-> Detached]}
      BY <1>c, <1>s, <3>1, <3>2, SameQueues
    <3>4. Produced'
      BY <1>t, <3>1, <3>2, <3>3 DEF Produced
    <3>5. QED
      BY <3>3, <3>4
  <2>2. CASE ~CanMint(sup)
    BY <1>3, <2>2, <1>f DEF Spawn, SupAfterSegment
  <2>3. QED
    BY <2>1, <2>2
<1>4. ASSUME NEW c \in Coro, Async(c) PROVE Crewed' /\ Produced'
  <2>1. CASE CanMint(sup)
    <3> DEFINE o == Fulfils(sup)  t == [co |-> c, owner |-> o]
    <3>1. /\ Segment /\ c \in Coro \ live /\ StartChild(c, o, sup)
          /\ cells' = Insert(cells, sup, EmptyCell)
          /\ UNCHANGED <<ready, chans, result>>
      BY <1>4, <2>1 DEF Async, SupAfterSegment
    <3>2. o \in Owner /\ o.k = "fulfils" /\ o.p = sup /\ o # Root
      BY <1>t DEF Fulfils, Owner, Root, TypeOK
    <3>3. sup \notin DOMAIN cells \cup DOMAIN chans
      BY <1>t, <3>1, MintFresh
    <3>4. /\ DOMAIN Queues' = DOMAIN Queues \cup {sup} /\ sup # Main
          /\ Queues'[sup] = <<>>
          /\ \A k \in DOMAIN Queues \ {Main, sup} : Queues'[k] = Queues[k]
      <4>1. EmptyCell.waiters = <<>>
        BY DEF EmptyCell
      <4>2. QED
        BY <1>s, <3>1, <4>1, CellChanged
    <3>5. sup \notin DOMAIN Queues
      BY <1>q, <3>3, <3>4
    <3>6. /\ Crewed' /\ LiveTasks' = LiveTasks \cup {t}
          /\ \A s \in LiveTasks : s.co # c
      <4>1. /\ DOMAIN Queues \subseteq DOMAIN Queues'
            /\ \A k \in DOMAIN Queues \ {Main} : Queues'[k] = Queues[k]
            /\ \A k \in DOMAIN Queues' \ DOMAIN Queues : DOMAIN Queues'[k] = {}
        BY <3>4, <3>5
      <4>2. QED
        BY <1>c, <3>1, <3>2, <4>1
    <3>7. /\ DOMAIN cells' = DOMAIN cells \cup {sup}
          /\ ~cells'[sup].full
          /\ \A i \in DOMAIN cells : cells'[i] = cells[i]
      BY <3>1, <3>3 DEF Insert, EmptyCell
    <3>8. \A s \in LiveTasks : s.owner # o
      BY <1>t, <3>2, <3>3 DEF Produced
    <3>9. t.owner = o
      OBVIOUS
    <3> HIDE DEF t
    <3>10. \A s, u \in LiveTasks' : s.owner = u.owner /\ s.owner.k # "detached" => s = u
      BY <1>t, <3>6, <3>8, <3>9 DEF Produced
    <3>11. \A s \in LiveTasks' : s.owner.k = "fulfils" =>
             s.owner.p \in DOMAIN cells' /\ ~cells'[s.owner.p].full
      BY <1>t, <3>2, <3>6, <3>7, <3>9 DEF Produced
    <3>12. \A i \in DOMAIN cells' : IF cells'[i].full THEN cells'[i].waiters = <<>>
                                     ELSE \E s \in LiveTasks' : s.owner = Fulfils(i)
      BY <1>t, <3>6, <3>7, <3>9 DEF Produced
    <3>13. result' <=> \A s \in LiveTasks' : s.owner # Root
      BY <1>t, <3>1, <3>2, <3>6, <3>9 DEF Produced
    <3>14. QED
      BY <3>6, <3>10, <3>11, <3>12, <3>13 DEF Produced
  <2>2. CASE ~CanMint(sup)
    BY <1>4, <2>2, <1>f DEF Async, SupAfterSegment
  <2>3. QED
    BY <2>1, <2>2
<1>5. CASE NewChan
  <2>1. CASE CanMint(sup)
    <3>1. /\ Segment /\ chans' = Insert(chans, sup, EmptyChan)
          /\ Settle(Append(ready, Resume(running, Handle(sup))))
          /\ UNCHANGED <<cells, live, result>>
      BY <1>5, <2>1 DEF NewChan, SupAfterSegment
    <3>2. sup \notin DOMAIN cells \cup DOMAIN chans
      BY <1>t, <3>1, MintFresh
    <3>3. /\ DOMAIN Queues' = DOMAIN Queues \cup {sup} /\ sup # Main
          /\ Queues'[sup] = <<>>
          /\ \A k \in DOMAIN Queues \ {Main, sup} : Queues'[k] = Queues[k]
      <4>1. EmptyChan.waiters = <<>>
        BY DEF EmptyChan
      <4>2. QED
        BY <1>s, <3>1, <4>1, ChanChanged
    <3>4. sup \notin DOMAIN Queues
      BY <1>q, <3>2, <3>3
    <3>5. /\ DOMAIN Queues \subseteq DOMAIN Queues'
          /\ \A k \in DOMAIN Queues \ {Main} : Queues'[k] = Queues[k]
          /\ \A k \in DOMAIN Queues' \ DOMAIN Queues : DOMAIN Queues'[k] = {}
      BY <3>3, <3>4
    <3>6. Handle(sup) \in Value
      BY <1>t, ValueType DEF TypeOK
    <3>7. Crewed' /\ LiveTasks' = LiveTasks
      BY <3>1, <3>5, <3>6, <1>b
    <3>8. QED
      BY <1>t, <3>1, <3>7, SameProducers
  <2>2. CASE ~CanMint(sup)
    BY <1>5, <2>2, <1>f DEF NewChan, SupAfterSegment
  <2>3. QED
    BY <2>1, <2>2
<1>6. ASSUME NEW i \in Known, Await(i) PROVE Crewed' /\ Produced'
  <2>1. CASE i \notin DOMAIN cells
    BY <1>6, <2>1, <1>f DEF Await
  <2>2. CASE /\ i \in DOMAIN cells /\ UNCHANGED cells
             /\ Settle(Append(ready, Resume(running, cells[i].val)))
    <3>1. Segment /\ UNCHANGED <<cells, chans, live, result>>
      BY <1>6, <2>2 DEF Await
    <3>2. cells[i].val \in Value
      BY <1>t, <2>2 DEF TypeOK, Cell
    <3>3. Crewed' /\ LiveTasks' = LiveTasks
      BY <2>2, <3>1, <3>2, <1>s, <1>b, SameQueues
    <3>4. QED
      BY <1>t, <3>1, <3>3, SameProducers
  <2>3. CASE /\ i \in DOMAIN cells /\ ~cells[i].full /\ Settle(ready)
             /\ cells' = Insert(cells, i, [cells[i] EXCEPT
                                  !.waiters = Append(@, running)])
    <3>1. Segment /\ UNCHANGED <<chans, live, result>>
      BY <1>6, <2>3 DEF Await
    <3> DEFINE c == [cells[i] EXCEPT !.waiters = Append(@, running)]
    <3>2. c.waiters = Append(Queues[i], running) /\ c.full = cells[i].full
      BY <1>t, <1>q, <2>3 DEF TypeOK, Cell
    <3> HIDE DEF c
    <3>3. cells' = Insert(cells, i, c)
      BY <2>3 DEF c
    <3>4. /\ DOMAIN Queues' = DOMAIN Queues \cup {i}
          /\ Queues'[i] = Append(Queues[i], running)
          /\ \A k \in DOMAIN Queues \ {Main, i} : Queues'[k] = Queues[k]
      BY <1>s, <3>1, <3>2, <3>3, CellChanged
    <3>5. Crewed' /\ LiveTasks' = LiveTasks
      BY <1>p, <1>q, <2>3, <3>1, <3>4
    <3>6. /\ DOMAIN cells' = DOMAIN cells /\ cells'[i].full = cells[i].full
          /\ \A k \in DOMAIN cells \ {i} : cells'[k] = cells[k]
      BY <2>3, <3>2, <3>3 DEF Insert
    <3>7. QED
      BY <1>t, <2>3, <3>1, <3>5, <3>6, SameProducers
  <2>4. QED
    BY <1>6, <2>1, <2>2, <2>3 DEF Await
<1>7. ASSUME NEW i \in Known, Recv(i) PROVE Crewed' /\ Produced'
  <2>1. CASE i \notin DOMAIN chans
    BY <1>7, <2>1, <1>f DEF Recv
  <2>2. CASE i \in DOMAIN chans
    <3> DEFINE ch == chans[i]
    <3>0. /\ Segment /\ UNCHANGED <<cells, live, result>>
          /\ ch \in Chan /\ Queues[i] = ch.waiters
      BY <1>7, <1>q, <1>t, <2>2 DEF Recv, TypeOK
    <3>1. ASSUME NEW c, c.waiters = ch.waiters, chans' = Insert(chans, i, c),
                 ch.buf # <<>>, Settle(Append(ready, Resume(running, Head(ch.buf))))
          PROVE  Crewed' /\ LiveTasks' = LiveTasks
      <4>1. /\ DOMAIN Queues' = DOMAIN Queues \cup {i}
            /\ Queues'[i] = Queues[i]
            /\ \A k \in DOMAIN Queues \ {Main, i} : Queues'[k] = Queues[k]
        BY <1>s, <3>0, <3>1, CellChanged, ChanChanged
      <4>2. Head(ch.buf) \in Value
        BY <3>0, <3>1, ChanMoves
      <4>3. DOMAIN Queues' = DOMAIN Queues
        BY <1>q, <2>2, <4>1
      <4>4. QED
        BY <1>b, <3>0, <3>1, <4>1, <4>2, <4>3
    <3>2. ASSUME NEW c, c.waiters = Append(ch.waiters, running),
                 chans' = Insert(chans, i, c), Settle(ready)
          PROVE  Crewed' /\ LiveTasks' = LiveTasks
      <4>1. /\ DOMAIN Queues' = DOMAIN Queues \cup {i}
            /\ Queues'[i] = Append(Queues[i], running)
            /\ \A k \in DOMAIN Queues \ {Main, i} : Queues'[k] = Queues[k]
        BY <1>s, <3>0, <3>2, ChanChanged
      <4>2. QED
        BY <1>p, <1>q, <2>2, <3>0, <3>2, <4>1
    <3>3. Crewed' /\ LiveTasks' = LiveTasks
      <4>1. /\ [ch EXCEPT !.buf = Tail(@)].waiters = ch.waiters
            /\ [ch EXCEPT !.waiters = Append(@, running)].waiters
                 = Append(ch.waiters, running)
        BY <3>0 DEF Chan
      <4>2. QED
        BY <1>7, <2>2, <3>1, <3>2, <4>1 DEF Recv
    <3>4. QED
      BY <1>t, <3>0, <3>3, SameProducers
  <2>3. QED
    BY <2>1, <2>2
<1>8. ASSUME NEW i \in Known, NEW v \in Sendable, Send(i, v) PROVE Crewed' /\ Produced'
  <2>1. CASE containsCont(v) \/ i \notin DOMAIN chans
    BY <1>8, <2>1, <1>f DEF Send
  <2>2. CASE ~containsCont(v) /\ i \in DOMAIN chans
    <3> DEFINE ch == chans[i]
    <3>0. /\ Segment /\ UNCHANGED <<cells, live, result>>
          /\ ch \in Chan /\ Queues[i] = ch.waiters /\ v \in Value
      BY <1>8, <1>q, <1>t, <2>2, ValueType DEF Send, TypeOK
    <3>c. ASSUME NEW c, chans' = Insert(chans, i, c)
          PROVE  /\ DOMAIN Queues' = DOMAIN Queues
                 /\ Queues'[i] = c.waiters
                 /\ \A k \in DOMAIN Queues \ {Main, i} : Queues'[k] = Queues[k]
      <4>1. /\ DOMAIN Queues' = DOMAIN Queues \cup {i}
            /\ Queues'[i] = c.waiters
            /\ \A k \in DOMAIN Queues \ {Main, i} : Queues'[k] = Queues[k]
        BY <1>s, <3>0, <3>c, ChanChanged
      <4>2. QED
        BY <1>q, <2>2, <4>1
    <3>1. CASE /\ ch.waiters # <<>>
               /\ chans' = Insert(chans, i, [ch EXCEPT !.waiters = Tail(@)])
               /\ Settle(ready \o <<Resume(Head(ch.waiters), v),
                                    Resume(running, Unit)>>)
      <4> DEFINE x == Resume(Head(ch.waiters), v)  y == Resume(running, Unit)
      <4>1. x \in Entry /\ x.task = Head(Queues[i])
        BY <3>0, <3>1, ChanMoves, ResumeType DEF Resume
      <4>2. y \in Entry /\ y.task = running
        BY <1>r, <3>0, ValueType
      <4>3. [ch EXCEPT !.waiters = Tail(@)].waiters = Tail(Queues[i])
        BY <3>0 DEF Chan
      <4>4. /\ DOMAIN Queues' = DOMAIN Queues
            /\ Queues'[i] = Tail(Queues[i])
            /\ \A k \in DOMAIN Queues \ {Main, i} : Queues'[k] = Queues[k]
        BY <3>1, <3>c, <4>3
      <4>5. Settle(ready \o <<x, y>>) /\ Queues[i] # <<>> /\ i \in DOMAIN Queues \ {Main}
        BY <1>q, <2>2, <3>0, <3>1
      <4> HIDE DEF x, y
      <4>6. Once(Queues') /\ Everyone(Queues') = Everyone(Queues)
        BY <1>s, <1>t, <3>0, <4>1, <4>2, <4>4, <4>5, Hands
      <4>7. folds' = <<>>
        BY <4>5 DEF Settle
      <4>8. Crewed' /\ LiveTasks' = LiveTasks
        BY <1>t, <3>0, <4>6, <4>7, Stays
      <4>9. QED
        BY <1>t, <3>0, <4>8, SameProducers
    <3>2. CASE /\ chans' = Insert(chans, i, [ch EXCEPT !.buf = Append(@, v)])
               /\ Settle(Append(ready, Resume(running, Unit)))
      <4>1. [ch EXCEPT !.buf = Append(@, v)].waiters = Queues[i]
        BY <3>0 DEF Chan
      <4>2. /\ DOMAIN Queues' = DOMAIN Queues
            /\ Queues'[i] = Queues[i]
            /\ \A k \in DOMAIN Queues \ {Main, i} : Queues'[k] = Queues[k]
        BY <3>2, <3>c, <4>1
      <4>3. Crewed' /\ LiveTasks' = LiveTasks
        BY <1>b, <3>0, <3>2, <4>2, ValueType
      <4>4. QED
        BY <1>t, <3>0, <4>3, SameProducers
    <3>3. QED
      BY <1>8, <2>2, <3>1, <3>2 DEF Send
  <2>3. QED
    BY <2>1, <2>2
<1>l. ASSUME Segment
      PROVE  running \in LiveTasks /\ running # NoTask
  BY <1>l DEF LiveTasks, Segment
<1>d. ASSUME Segment, Settle(ready), UNCHANGED <<cells, chans>>,
             live' = live \ {running.co}
      PROVE  Crewed' /\ LiveTasks' = LiveTasks \ {running}
  <2>1. /\ DOMAIN Queues' = DOMAIN Queues
        /\ \A k \in DOMAIN Queues \ {Main} : Queues'[k] = Queues[k]
    BY <1>d, <1>s, SameQueues
  <2>2. Queues'[Main] = Line'
    BY <1>s DEF Shaped, QueueShape
  <2>3. Once(Queues') /\ Everyone(Queues') = Everyone(Queues) \ {running}
    BY <1>d, <1>s, <1>t, <2>1, <2>2, Departs
  <2>4. folds' = <<>>
    BY <1>d DEF Settle
  <2>5. QED
    BY <1>d, <1>t, <2>3, <2>4, Quits
<1>9. CASE CompleteRoot
  <2>1. /\ Segment /\ running.owner = Root /\ result' = TRUE /\ UNCHANGED <<cells, chans>>
        /\ live' = live \ {running.co} /\ Settle(ready)
    BY <1>9 DEF CompleteRoot
  <2>2. Crewed' /\ LiveTasks' = LiveTasks \ {running}
    BY <2>1, <1>d
  <2>3. Root.k # "detached" /\ Root.k # "fulfils" /\ \A i : Fulfils(i) # Root
    BY DEF Root, Fulfils
  <2>4. \A t \in LiveTasks' : t.owner # Root
    BY <1>l, <1>t, <2>1, <2>2, <2>3 DEF Produced
  <2>5. QED
    BY <1>t, <2>1, <2>2, <2>3, <2>4 DEF Produced
<1>10. CASE CompleteDetached
  <2>1. /\ Segment /\ running.owner = Detached /\ UNCHANGED <<cells, chans, result>>
        /\ live' = live \ {running.co} /\ Settle(ready)
    BY <1>10 DEF CompleteDetached
  <2>2. Crewed' /\ LiveTasks' = LiveTasks \ {running}
    BY <2>1, <1>d
  <2>3. Detached # Root /\ \A i : Fulfils(i) # Detached
    BY DEF Root, Fulfils, Detached
  <2>4. QED
    BY <1>t, <2>1, <2>2, <2>3 DEF Produced
<1>11. ASSUME NEW v \in Sendable, Fulfil(v) PROVE Crewed' /\ Produced'
  <2> DEFINE pid == running.owner.p
  <2>1. Segment /\ running.owner.k = "fulfils"
    BY <1>11 DEF Fulfil
  <2>2. pid \in DOMAIN cells /\ ~cells[pid].full
    BY <1>l, <1>t, <2>1 DEF Produced
  <2>3. CASE containsCont(v)
    BY <1>11, <1>f, <2>3 DEF Fulfil
  <2>4. CASE ~containsCont(v)
    <3> DEFINE c == [full |-> TRUE, val |-> v, waiters |-> <<>>]
    <3>1. /\ cells' = Insert(cells, pid, c)
          /\ Settle(ready \o Woken(cells[pid].waiters, v))
          /\ live' = live \ {running.co} /\ UNCHANGED <<chans, result>>
      BY <1>11, <2>2, <2>4 DEF Fulfil
    <3>2. c.full = TRUE /\ c.waiters = <<>>
      OBVIOUS
    <3> HIDE DEF c
    <3>3. pid \in DOMAIN Queues \ {Main} /\ Queues[pid] = cells[pid].waiters
      BY <1>q, <2>2
    <3> HIDE DEF pid
    <3>4. /\ DOMAIN Queues' = DOMAIN Queues \cup {pid}
          /\ Queues'[pid] = <<>>
          /\ \A k \in DOMAIN Queues \ {Main, pid} : Queues'[k] = Queues[k]
      BY <1>s, <3>1, <3>2, CellChanged
    <3>5. DOMAIN Queues' = DOMAIN Queues
      BY <3>3, <3>4
    <3>6. v \in Value /\ Settle(ready \o Woken(Queues[pid], v))
      BY <3>1, <3>3, ValueType
    <3>7. Once(Queues') /\ Everyone(Queues') = Everyone(Queues) \ {running}
      BY <1>s, <1>t, <2>1, <3>3, <3>4, <3>5, <3>6, Wakens
    <3>8. folds' = <<>>
      BY <3>1 DEF Settle
    <3>9. Crewed' /\ LiveTasks' = LiveTasks \ {running} /\ running \in LiveTasks
      BY <1>t, <2>1, <3>1, <3>7, <3>8, Quits
    <3>10. /\ DOMAIN cells' = DOMAIN cells /\ cells'[pid] = c
           /\ \A i \in DOMAIN cells \ {pid} : cells'[i] = cells[i]
      BY <2>2, <3>1 DEF Insert
    <3>11. \A t \in LiveTasks' : t.owner # running.owner
      BY <1>t, <2>1, <3>9 DEF Produced
    <3>12. running.owner = Fulfils(pid) /\ running.owner # Root
      <4>1. running.owner \in Owner
        BY <1>l, <1>t, <2>1 DEF TypeOK, Task
      <4>2. QED
        BY <2>1, <4>1 DEF Fulfils, Owner, Root, pid
    <3>13. \A t \in LiveTasks' : t.owner.k = "fulfils" =>
             t.owner.p \in DOMAIN cells' /\ ~cells'[t.owner.p].full
      <4> TAKE t \in LiveTasks'
      <4> HAVE t.owner.k = "fulfils"
      <4>1. t \in LiveTasks /\ t.owner.p \in DOMAIN cells /\ ~cells[t.owner.p].full
        BY <1>t, <3>9 DEF Produced
      <4>2. t.owner \in Owner
        BY <1>t, <4>1, Aboard DEF Crew, Crewed, IdInv, Task
      <4>3. t.owner.p # pid
        BY <3>11, <3>12, <4>2 DEF Fulfils, Owner
      <4>4. QED
        BY <3>10, <4>1, <4>3
    <3>14. \A i \in DOMAIN cells' : IF cells'[i].full THEN cells'[i].waiters = <<>>
                                    ELSE \E t \in LiveTasks' : t.owner = Fulfils(i)
      <4> TAKE i \in DOMAIN cells'
      <4>1. CASE i = pid
        BY <3>2, <3>10, <4>1
      <4>2. CASE i # pid
        <5>1. Fulfils(i) # running.owner
          BY <3>12, <4>2 DEF Fulfils
        <5>2. QED
          BY <1>t, <3>9, <3>10, <4>2, <5>1 DEF Produced
      <4>3. QED
        BY <4>1, <4>2
    <3>15. result' <=> \A t \in LiveTasks' : t.owner # Root
      BY <1>t, <3>1, <3>9, <3>12 DEF Produced
    <3>16. \A s, t \in LiveTasks' : s.owner = t.owner /\ s.owner.k # "detached" => s = t
      BY <1>t, <3>9 DEF Produced
    <3>17. QED
      BY <3>9, <3>13, <3>14, <3>15, <3>16 DEF Produced
  <2>5. QED
    BY <2>3, <2>4
<1>12. CASE Return
  BY <1>12, SameCrew DEF Return
<1>13. CASE Stuck
  BY <1>13, <1>f DEF Stuck
<1>14. CASE ResumeNext
  <2>1. /\ running = NoTask /\ ready # <<>> /\ running' = Head(ready).task
        /\ ready' = Tail(ready) /\ UNCHANGED <<cells, chans, folds, live, result>>
    BY <1>14 DEF ResumeNext, Idle
  <2>2. folds = <<>>
    BY <2>1 DEF Crew, Crewed
  <2>3. Head(ready) \in Entry
    BY <1>t, <2>1 DEF TypeOK
  <2>4. running' # NoTask
    BY <2>1, <2>3, TaskRuns DEF Entry
  <2>5. /\ DOMAIN Queues' = DOMAIN Queues
        /\ \A k \in DOMAIN Queues \ {Main} : Queues'[k] = Queues[k]
    BY <1>s, <2>1, SameQueues
  <2>6. Once(Queues') /\ Everyone(Queues') = Everyone(Queues)
    BY <1>s, <1>t, <2>1, <2>2, <2>4, <2>5, Resumes
  <2>7. Crewed' /\ LiveTasks' = LiveTasks
    BY <1>t, <2>1, <2>4, <2>6, Stays
  <2>8. QED
    BY <1>t, <2>1, <2>7, SameProducers
<1>15. CASE UNCHANGED vars
  BY <1>15, SameCrew DEF vars
<1>16. QED
  BY <1>1, <1>2, <1>3, <1>4, <1>5, <1>6, <1>7, <1>8, <1>9, <1>10, <1>11, <1>12,
     <1>13, <1>14, <1>15 DEF Next

-----------------------------------------------------------------------------
(* driveConc starts with the root alone, running and owed the result.       *)
LEMMA CrewInit == Init => Crew
<1> SUFFICES ASSUME Init PROVE Crewed /\ Produced
  BY IdInit DEF Crew
<1> DEFINE r == [co |-> RootCo, owner |-> Root]
<1>1. /\ ready = <<>> /\ folds = <<>> /\ running = r /\ live = {RootCo}
      /\ DOMAIN cells = {} /\ DOMAIN chans = {} /\ result = FALSE
  BY DEF Init
<1>2. r # NoTask /\ r.co = RootCo /\ r.owner = Root /\ Root.k # "fulfils"
  BY DEF NoTask, Root
<1> HIDE DEF r
<1>3. LiveTasks = {r}
  <2>1. Range(ready) = {} /\ Range(folds) = {} /\ Parked = {}
    BY <1>1 DEF Range, Parked
  <2>2. QED
    BY <1>1, <1>2, <2>1 DEF LiveTasks
<1>4. DOMAIN Queues = {Main} /\ Queues[Main] = Line
  BY <1>1 DEF Queues
<1>5. DOMAIN Line = 1..1
  <2>1. Len(ready) = 0 /\ Len(folds) = 0
    BY <1>1
  <2>2. QED
    BY <1>1, <1>2, <2>1 DEF Line
<1>6. Once(Queues)
  BY <1>4, <1>5 DEF Once
<1>7. QED
  BY <1>1, <1>2, <1>3, <1>6 DEF Crewed, Produced

(* Every coroutine started and not completed stands at exactly one spot of  *)
(* the scheduler, its result owed to the root, to nobody or to one pending  *)
(* promise: the accounting behind the results below.                        *)
THEOREM Accounted == Spec => []Crew
BY CrewInit, CrewStep, PTL DEF Spec

-----------------------------------------------------------------------------
(* With nothing running and nothing ready, every live coroutine is parked.  *)
LEMMA Idlers ==
  ASSUME Crew, running = NoTask, ready = <<>>
  PROVE  LiveTasks = Parked
<1>1. Range(ready) = {} /\ Range(folds) = {}
  BY DEF Crew, Crewed, Range
<1>2. QED
  BY <1>1 DEF LiveTasks

\* The errors never reported, and the state a deadlock is declared in.
Sound ==
  /\ status \notin {"fulfilled twice", "unknown promise", "drained"}
  /\ status = "deadlock" => running = NoTask /\ ready = <<>> /\ ~result

(* When loop finds the ready queue empty before the root has completed,     *)
(* the root is parked on a pending promise or an empty channel, so the      *)
(* drained error (Sched.hs:229) cannot be reached.                          *)
LEMMA NeverDrained ==
  ASSUME Crew, Idle, ~result, ready = <<>>
  PROVE  pending \/ blocked
<1>1. PICK t \in Parked : t.owner = Root
  BY Idlers DEF Idle, Crew, Produced
<1>2. CASE \E i \in DOMAIN cells : t \in Range(cells[i].waiters)
  <2>1. PICK i \in DOMAIN cells : cells[i].waiters # <<>>
    BY <1>2 DEF Range
  <2>2. ~cells[i].full
    BY <2>1 DEF Crew, Produced
  <2>3. QED
    BY <2>2 DEF pending
<1>3. CASE \E i \in DOMAIN chans : t \in Range(chans[i].waiters)
  BY <1>3 DEF Range, blocked
<1>4. QED
  BY <1>1, <1>2, <1>3 DEF Parked

(* Which errors a step can end the drive with, and in which state the       *)
(* deadlock is declared.                                                    *)
LEMMA SoundStep == Crew /\ Sound /\ [Next]_vars => Sound'
<1> SUFFICES ASSUME Crew, Sound, [Next]_vars PROVE Sound'
  OBVIOUS
<1>0. ASSUME status' = status \/ (status' \notin {"deadlock", "fulfilled twice",
                                                  "unknown promise", "drained"}),
             status = "running"
      PROVE  Sound'
  BY <1>0 DEF Sound
<1>l. Segment => running \in LiveTasks /\ status = "running"
  BY DEF LiveTasks, Segment
<1>1. CASE NestedMint
  BY <1>0, <1>1, <1>l DEF NestedMint, Fail
<1>2. CASE Yield \/ CompleteRoot \/ CompleteDetached
  BY <1>0, <1>2, <1>l DEF Yield, CompleteRoot, CompleteDetached
<1>3. ASSUME NEW c \in Coro, Spawn(c) \/ Async(c) PROVE Sound'
  BY <1>0, <1>3, <1>l DEF Spawn, Async, Fail
<1>4. CASE NewChan
  BY <1>0, <1>4, <1>l DEF NewChan, Fail
<1>5. ASSUME NEW i \in Known, Await(i) PROVE Sound'
  BY <1>0, <1>5, <1>l DEF Await, Fail
<1>6. ASSUME NEW i \in Known, Recv(i) PROVE Sound'
  BY <1>0, <1>6, <1>l DEF Recv, Fail
<1>7. ASSUME NEW i \in Known, NEW v \in Sendable, Send(i, v) PROVE Sound'
  BY <1>0, <1>7, <1>l DEF Send, Fail
<1>8. ASSUME NEW v \in Sendable, Fulfil(v) PROVE Sound'
  <2>1. running.owner.p \in DOMAIN cells /\ ~cells[running.owner.p].full
    BY <1>8, <1>l DEF Fulfil, Crew, Produced
  <2>2. QED
    BY <1>0, <1>8, <1>l, <2>1 DEF Fulfil, Fail
<1>9. CASE Return
  BY <1>0, <1>9 DEF Return, Idle
<1>10. CASE Stuck
  BY <1>10, NeverDrained DEF Stuck, Fail, Idle, Sound
<1>11. CASE ResumeNext
  BY <1>0, <1>11 DEF ResumeNext, Idle
<1>12. CASE UNCHANGED vars
  BY <1>12 DEF vars, Sound
<1>13. QED
  BY <1>1, <1>2, <1>3, <1>4, <1>5, <1>6, <1>7, <1>8, <1>9, <1>10, <1>11, <1>12 DEF Next

(* A pending promise, and the root until it completes, has exactly one      *)
(* producer: with the accounting, the cardinalities of OneProducer.         *)
LEMMA Producers == Crew => OneProducer
<1> SUFFICES ASSUME Crew PROVE OneProducer
  OBVIOUS
<1> DEFINE With(o) == {t \in LiveTasks : t.owner = o}
<1>1. ASSUME NEW o, \A t \in LiveTasks : t.owner # o
      PROVE  Cardinality(With(o)) = 0
  <2>1. With(o) = {}
    BY <1>1
  <2>2. QED
    BY <2>1, FS_EmptySet
<1>2. ASSUME NEW o, o.k # "detached", NEW t \in LiveTasks, t.owner = o
      PROVE  Cardinality(With(o)) = 1
  <2>1. With(o) = {t}
    BY <1>2 DEF Crew, Produced
  <2>2. QED
    BY <2>1, FS_Singleton
<1>3. Root.k # "detached" /\ \A i : Fulfils(i).k = "fulfils" /\ Fulfils(i).p = i
  BY DEF Root, Fulfils
<1>4. Cardinality(With(Root)) = IF result THEN 0 ELSE 1
  BY <1>1, <1>2, <1>3 DEF Crew, Produced
<1>5. \A i \in DOMAIN cells : Cardinality(With(Fulfils(i))) = IF cells[i].full THEN 0 ELSE 1
  <2> TAKE i \in DOMAIN cells
  <2>1. CASE cells[i].full
    <3>1. \A t \in LiveTasks : t.owner # Fulfils(i)
      BY <1>3, <2>1 DEF Crew, Produced
    <3>2. QED
      BY <1>1, <2>1, <3>1
  <2>2. CASE ~cells[i].full
    <3>1. PICK t \in LiveTasks : t.owner = Fulfils(i)
      BY <2>2 DEF Crew, Produced
    <3>2. QED
      BY <1>2, <1>3, <2>2, <3>1
  <2>3. QED
    BY <2>1, <2>2
<1>6. QED
  BY <1>4, <1>5 DEF OneProducer

(* Whatever programs do, driveConc reports none of its internal errors,     *)
(* and every pending promise has exactly one live producer.                 *)
THEOREM NoInternalErrorEver == Spec => []NoInternalError
<1>1. Init => Sound
  BY DEF Init, Sound
<1>2. Crew /\ Sound => NoInternalError
  BY Producers DEF Sound, NoInternalError
<1>3. QED
  BY <1>1, <1>2, Accounted, SoundStep, PTL DEF Spec

(* A deadlock is only reported when the root and the producer of every      *)
(* pending promise are themselves parked.                                   *)
THEOREM DeadlockIsNeverFalse == Spec => []DeadlockIsReal
<1>1. Init => Sound
  BY DEF Init, Sound
<1>2. Crew /\ Sound => DeadlockIsReal
  <2> SUFFICES ASSUME Crew, Sound, status = "deadlock"
               PROVE  /\ \E t \in Parked : t.owner = Root
                      /\ \A i \in DOMAIN cells : ~cells[i].full =>
                           \E t \in Parked : t.owner = Fulfils(i)
    BY DEF DeadlockIsReal
  <2>1. LiveTasks = Parked /\ ~result
    BY Idlers DEF Sound
  <2>2. QED
    BY <2>1 DEF Crew, Produced
<1>3. QED
  BY <1>1, <1>2, Accounted, SoundStep, PTL DEF Spec

-----------------------------------------------------------------------------
\* The name Places gives to spot m of queue i.
Spot(i, m) ==
  IF i = Main THEN IF m <= Len(ready) THEN <<"ready", 0, m>>
                   ELSE IF m = Len(ready) + 1 THEN <<"running", 0, 0>>
                   ELSE <<"fold", 0, m - Len(ready) - 1>>
  ELSE IF i \in DOMAIN cells THEN <<"cell", i, m>> ELSE <<"chan", i, m>>

(* The places of the ready queue, of the callers and of the machine are     *)
(* the spots of the line.                                                   *)
LEMMA LinePlaces ==
  ASSUME TypeOK, running = NoTask => folds = <<>>, NEW co, NEW x
  PROVE  x \in ReadyAt(co) \cup FoldAt(co) \cup RunningAt(co)
           <=> \E m \in DOMAIN Line : Line[m].co = co /\ x = Spot(Main, m)
<1> DEFINE a == Len(ready)  f == Len(folds)  S(m) == Spot(Main, m)
<1>1. /\ a \in Nat /\ f \in Nat /\ (running = NoTask => f = 0)
      /\ DOMAIN Line = 1..(a + IF running = NoTask THEN 0 ELSE 1 + f)
      /\ \A m \in DOMAIN Line : Line[m] = IF m <= a THEN ready[m].task
                                          ELSE IF m = a + 1 THEN running
                                          ELSE folds[m - a - 1].task
      /\ \A m : S(m) = IF m <= a THEN <<"ready", 0, m>>
                       ELSE IF m = a + 1 THEN <<"running", 0, 0>>
                       ELSE <<"fold", 0, m - a - 1>>
  BY DEF Line, Spot, TypeOK
<1>2. /\ x \in ReadyAt(co) <=> \E n \in 1..a : ready[n].task.co = co /\ x = <<"ready", 0, n>>
      /\ x \in FoldAt(co) <=> \E n \in 1..f : folds[n].task.co = co /\ x = <<"fold", 0, n>>
      /\ x \in RunningAt(co)
           <=> running # NoTask /\ running.co = co /\ x = <<"running", 0, 0>>
  BY DEF ReadyAt, FoldAt, RunningAt
<1> HIDE DEF a, f, S
<1>3. ASSUME NEW m \in DOMAIN Line, Line[m].co = co, x = S(m)
      PROVE  x \in ReadyAt(co) \cup FoldAt(co) \cup RunningAt(co)
  <2>1. CASE m <= a
    <3>1. m \in 1..a
      BY <1>1, <2>1
    <3>2. QED
      BY <1>1, <1>2, <1>3, <2>1, <3>1
  <2>2. CASE m = a + 1
    <3>1. running # NoTask /\ ~(m <= a)
      BY <1>1, <2>2
    <3>2. QED
      BY <1>1, <1>2, <1>3, <2>2, <3>1
  <2>3. CASE m > a + 1
    <3>1. m - a - 1 \in 1..f /\ ~(m <= a) /\ m # a + 1
      BY <1>1, <2>3
    <3>2. QED
      BY <1>1, <1>2, <1>3, <3>1
  <2>4. QED
    BY <1>1, <2>1, <2>2, <2>3
<1>4. ASSUME NEW n \in 1..a, ready[n].task.co = co, x = <<"ready", 0, n>>
      PROVE  \E m \in DOMAIN Line : Line[m].co = co /\ x = S(m)
  <2>1. n \in DOMAIN Line /\ n <= a
    BY <1>1
  <2>2. Line[n].co = co /\ x = S(n)
    BY <1>1, <1>4, <2>1
  <2>3. QED
    BY <2>1, <2>2
<1>5. ASSUME NEW n \in 1..f, folds[n].task.co = co, x = <<"fold", 0, n>>
      PROVE  \E m \in DOMAIN Line : Line[m].co = co /\ x = S(m)
  <2>1. /\ running # NoTask /\ a + 1 + n \in 1..(a + (1 + f)) /\ ~(a + 1 + n <= a)
        /\ a + 1 + n # a + 1 /\ a + 1 + n - a - 1 = n
    BY <1>1
  <2>2. a + 1 + n \in DOMAIN Line
    BY <1>1, <2>1
  <2>3. Line[a + 1 + n] = folds[a + 1 + n - a - 1].task
    BY <1>1, <2>1, <2>2
  <2>4. S(a + 1 + n) = <<"fold", 0, a + 1 + n - a - 1>>
    BY <1>1, <2>1
  <2>5. Line[a + 1 + n].co = co /\ x = S(a + 1 + n)
    BY <1>5, <2>1, <2>3, <2>4
  <2>6. QED
    BY <2>2, <2>5
<1>6. ASSUME running # NoTask, running.co = co, x = <<"running", 0, 0>>
      PROVE  \E m \in DOMAIN Line : Line[m].co = co /\ x = S(m)
  <2>1. a + 1 \in DOMAIN Line /\ ~(a + 1 <= a)
    BY <1>1, <1>6
  <2>2. Line[a + 1].co = co /\ x = S(a + 1)
    BY <1>1, <1>6, <2>1
  <2>3. QED
    BY <2>1, <2>2
<1>7. x \in ReadyAt(co) \cup FoldAt(co) \cup RunningAt(co)
        <=> \E m \in DOMAIN Line : Line[m].co = co /\ x = S(m)
  BY <1>2, <1>3, <1>4, <1>5, <1>6
<1>8. QED
  BY <1>7 DEF S

(* The places of parked awaiters and receivers are the spots of the other   *)
(* queues.                                                                  *)
LEMMA ParkedPlaces ==
  ASSUME QueueShape, DOMAIN cells \cap DOMAIN chans = {}, NEW co, NEW x
  PROVE  x \in AwaitAt(co) \cup RecvAt(co)
           <=> \E i \in DOMAIN Queues \ {Main} : \E m \in DOMAIN Queues[i] :
                 Queues[i][m].co = co /\ x = Spot(i, m)
<1>1. x \in AwaitAt(co) <=> \E i \in DOMAIN cells : \E n \in 1..Len(cells[i].waiters) :
                              cells[i].waiters[n].co = co /\ x = <<"cell", i, n>>
  BY DEF AwaitAt
<1>2. x \in RecvAt(co) <=> \E i \in DOMAIN chans : \E n \in 1..Len(chans[i].waiters) :
                             chans[i].waiters[n].co = co /\ x = <<"chan", i, n>>
  BY DEF RecvAt
<1> DEFINE At(i) == \E m \in DOMAIN Queues[i] : Queues[i][m].co = co /\ x = Spot(i, m)
<1>3. \A i \in DOMAIN cells : At(i) <=> \E n \in 1..Len(cells[i].waiters) :
                                cells[i].waiters[n].co = co /\ x = <<"cell", i, n>>
  <2> TAKE i \in DOMAIN cells
  <2>1. Queues[i] = cells[i].waiters /\ DOMAIN Queues[i] = 1..Len(cells[i].waiters)
        /\ i # Main
    BY DEF QueueShape
  <2>2. \A m : Spot(i, m) = <<"cell", i, m>>
    BY <2>1 DEF Spot
  <2>3. QED
    BY <2>1, <2>2
<1>4. \A i \in DOMAIN chans : At(i) <=> \E n \in 1..Len(chans[i].waiters) :
                                chans[i].waiters[n].co = co /\ x = <<"chan", i, n>>
  <2> TAKE i \in DOMAIN chans
  <2>1. Queues[i] = chans[i].waiters /\ DOMAIN Queues[i] = 1..Len(chans[i].waiters)
        /\ i # Main /\ i \notin DOMAIN cells
    BY DEF QueueShape
  <2>2. \A m : Spot(i, m) = <<"chan", i, m>>
    BY <2>1 DEF Spot
  <2>3. QED
    BY <2>1, <2>2
<1>5. DOMAIN Queues \ {Main} = DOMAIN cells \cup DOMAIN chans
  BY DEF QueueShape
<1>6. x \in AwaitAt(co) <=> \E i \in DOMAIN cells : At(i)
  BY <1>1, <1>3
<1>7. x \in RecvAt(co) <=> \E i \in DOMAIN chans : At(i)
  BY <1>2, <1>4
<1>8. x \in AwaitAt(co) \cup RecvAt(co) <=> \E i \in DOMAIN Queues \ {Main} : At(i)
  <2> HIDE DEF At
  <2>1. QED
    BY <1>5, <1>6, <1>7
<1>9. QED
  BY <1>8

(* No lost wakeup, no double resume: a live coroutine is in exactly one     *)
(* place of the scheduler and a completed one in none.                      *)
THEOREM OnePlaceEach == Spec => []OnePlace
<1>1. Crew => OnePlace
  <2> SUFFICES ASSUME Crew, NEW co \in Coro
               PROVE  Cardinality(Places(co)) = IF co \in live THEN 1 ELSE 0
    BY DEF OnePlace
  <2>1. /\ QueueShape /\ Everyone(Queues) = LiveTasks /\ Once(Queues)
        /\ live = {t.co : t \in LiveTasks}
    BY Aboard DEF Crew, Crewed, IdInv
  <2>2. \A x : x \in Places(co) <=> \E i \in DOMAIN Queues : \E m \in DOMAIN Queues[i] :
                                     Queues[i][m].co = co /\ x = Spot(i, m)
    <3> TAKE x
    <3> DEFINE At(i) == \E m \in DOMAIN Queues[i] :
                          Queues[i][m].co = co /\ x = Spot(i, m)
    <3>1. x \in AwaitAt(co) \cup RecvAt(co) <=> \E i \in DOMAIN Queues \ {Main} : At(i)
      BY <2>1, ParkedPlaces DEF Crew, IdInv, HandlesOwn
    <3>2. x \in ReadyAt(co) \cup FoldAt(co) \cup RunningAt(co) <=> At(Main)
      BY <2>1, LinePlaces DEF Crew, Crewed, IdInv, QueueShape
    <3>3. Main \in DOMAIN Queues
      BY <2>1 DEF QueueShape
    <3> HIDE DEF At
    <3>4. x \in Places(co) <=> \E i \in DOMAIN Queues : At(i)
      BY <3>1, <3>2, <3>3 DEF Places
    <3>5. QED
      BY <3>4 DEF At
  <2>3. co \in live <=> \E i \in DOMAIN Queues : \E m \in DOMAIN Queues[i] :
                          Queues[i][m].co = co
    BY <2>1 DEF Everyone
  <2>4. CASE co \notin live
    <3>1. Places(co) = {}
      BY <2>2, <2>3, <2>4
    <3>2. QED
      BY <2>4, <3>1, FS_EmptySet
  <2>5. CASE co \in live
    <3>0. PICK i \in DOMAIN Queues : \E m \in DOMAIN Queues[i] : Queues[i][m].co = co
      BY <2>3, <2>5
    <3>1. PICK m \in DOMAIN Queues[i] : Queues[i][m].co = co
      BY <3>0
    <3>2. \A j \in DOMAIN Queues : \A n \in DOMAIN Queues[j] :
            Queues[j][n].co = co => j = i /\ n = m
      BY <2>1, <3>1 DEF Once
    <3>3. Places(co) = {Spot(i, m)}
      BY <2>2, <3>1, <3>2
    <3>4. QED
      BY <2>5, <3>3, FS_Singleton
  <2>6. QED
    BY <2>4, <2>5
<1>2. QED
  BY <1>1, Accounted, PTL

=============================================================================
