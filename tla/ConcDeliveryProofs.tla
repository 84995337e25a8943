-------------------------- MODULE ConcDeliveryProofs --------------------------
(***************************************************************************)
(* What each coroutine is resumed with, for every set of coroutines,       *)
(* supply, region size and bound.  ConcDelivery is ConcSched with a        *)
(* record of the requests (DeliveryRefines), so the theorems about the     *)
(* scheduler hold of it; the invariant here ties that record to the        *)
(* queues: sends, recvs, buffer and receivers of a channel tally, every    *)
(* parked task waits for its own turn, and every resume value answers the  *)
(* request it was made for.                                                *)
(***************************************************************************)
EXTENDS ConcDelivery, ConcSchedProofs

-----------------------------------------------------------------------------
(* The history variables restrict the scheduler and never steer it.        *)
LEMMA DeliveryStepRefines == [DNext]_dvars => [Next]_vars
<1>1. DNext => Next
  BY DEF DNext, DNewChan, DSend, DRecv, DAwait, DResumeNext, DOther, Next
<1>2. UNCHANGED dvars => UNCHANGED vars
  BY DEF dvars, vars
<1>3. QED
  BY <1>1, <1>2

(* Every behaviour of ConcDelivery is one of ConcSched.                    *)
THEOREM DeliveryRefines == DSpec => Spec
<1>1. DInit => Init
  BY DEF DInit
<1>2. QED
  BY <1>1, DeliveryStepRefines, PTL DEF DSpec, Spec

-----------------------------------------------------------------------------
\* Value v answers request w, given what was sent and what is cached.
Fits(w, v, snt, cls) ==
  /\ w.k = "recv" => /\ w.id \in DOMAIN snt /\ w.n \in 1..Len(snt[w.id])
                     /\ v = snt[w.id][w.n]
  /\ w.k = "await" => /\ w.id \in DOMAIN cls /\ cls[w.id].full
                      /\ v = cls[w.id].val
  /\ w.k = "other" => v.k \in {"unit", "handle"}

\* The callers are entries to be: they are answered as the ready ones are.
Answered ==
  \A e \in Range(ready) \cup Range(folds) :
    Fits(want[e.task.co], e.val, sent, cells)

\* Only a parked or ready coroutine has a request open.
Wanting ==
  /\ DOMAIN want = Coro
  /\ \A co \in Coro \ live : want[co] = NoWant
  /\ running # NoTask => want[running.co] = NoWant

\* Channel ch, the values s sent on it and the number a of recvs tally: what
\* is buffered is what was sent and not yet asked for.
Tally(ch, s, a) ==
  /\ s \in Seq(Value) /\ a \in Nat
  /\ a + Len(ch.buf) = Len(s) + Len(ch.waiters)
  /\ \A n \in 1..Len(ch.buf) : ch.buf[n] = s[a + n]

Counted ==
  /\ DOMAIN sent = DOMAIN chans /\ DOMAIN asked = DOMAIN chans
  /\ \A i \in DOMAIN chans : Tally(chans[i], sent[i], asked[i])

\* The halves of ParkedInTurn.
RecvTurn(i, ws, s, wt) ==
  \A n \in DOMAIN ws : /\ wt[ws[n].co].k = "recv" /\ wt[ws[n].co].id = i
                       /\ wt[ws[n].co].n = Len(s) + n
AwaitTurn(i, c, wt) ==
  \A n \in DOMAIN c.waiters : wt[c.waiters[n].co] = WantAwait(i) /\ ~c.full

Turns ==
  /\ \A i \in DOMAIN chans : RecvTurn(i, chans[i].waiters, sent[i], want)
  /\ \A i \in DOMAIN cells : AwaitTurn(i, cells[i], want)

DInv == Answered /\ Wanting /\ Counted /\ Turns

\* What was sent stays sent.
Lengthens ==
  /\ DOMAIN sent \subseteq DOMAIN sent'
  /\ \A i \in DOMAIN sent : \A n \in 1..Len(sent[i]) :
       n \in 1..Len(sent'[i]) /\ sent'[i][n] = sent[i][n]

-----------------------------------------------------------------------------
\* Coroutine co is parked nowhere.
Unparked(co) ==
  /\ \A i \in DOMAIN cells : \A n \in DOMAIN cells[i].waiters :
       cells[i].waiters[n].co # co
  /\ \A i \in DOMAIN chans : \A n \in DOMAIN chans[i].waiters :
       chans[i].waiters[n].co # co

(* A coroutine with a spot in the line is parked nowhere.                  *)
LEMMA InLine ==
  ASSUME Crew, NEW p \in DOMAIN Line
  PROVE  Unparked(Line[p].co)
<1>1. QueueShape /\ Once(Queues)
  BY Aboard DEF Crew, Crewed, IdInv
<1>2. ASSUME NEW i \in DOMAIN cells \cup DOMAIN chans, NEW n \in DOMAIN Queues[i]
      PROVE  Queues[i][n].co # Line[p].co
  BY <1>1, <1>2 DEF Once, QueueShape
<1>3. QED
  BY <1>1, <1>2 DEF Unparked, QueueShape

(* Whoever runs is neither ready, nor a caller, nor parked.                *)
LEMMA RunningApart ==
  ASSUME Crew, Segment
  PROVE  /\ Unparked(running.co)
         /\ \A e \in Range(ready) \cup Range(folds) : e.task.co # running.co
         /\ running \in Task /\ running.co \in live /\ running.co \in Coro
<1> DEFINE a == Len(ready)  f == Len(folds)
<1>1. TypeOK /\ QueueShape /\ Once(Queues)
  BY Aboard DEF Crew, Crewed, IdInv
<1>2. /\ a \in Nat /\ f \in Nat /\ DOMAIN Line = 1..(a + 1 + f)
      /\ Line[a + 1] = running /\ a + 1 \in DOMAIN Line
  BY <1>1, LineRunning
<1>3. /\ \A n \in 1..a : Line[n] = ready[n].task
      /\ \A n \in 1..f : Line[a + 1 + n] = folds[n].task
  BY <1>2 DEF Line, Segment
<1>4. DOMAIN ready = 1..a /\ DOMAIN folds = 1..f
  BY <1>1 DEF TypeOK
<1> HIDE DEF a, f
<1>5. \A m, n \in DOMAIN Line : Line[m].co = Line[n].co => m = n
  BY <1>1 DEF Once, QueueShape
<1>6. \A n \in 1..a : ready[n].task.co # running.co
  BY <1>2, <1>3, <1>5
<1>7. \A n \in 1..f : folds[n].task.co # running.co
  <2> TAKE n \in 1..f
  <2>1. a + 1 + n \in DOMAIN Line /\ a + 1 + n # a + 1
    BY <1>2
  <2>2. QED
    BY <1>2, <1>3, <1>5, <2>1
<1>8. running \in Task /\ running.co \in Coro
  BY <1>1 DEF Segment, TypeOK, Task
<1>9. running.co \in live
  <2>1. running \in LiveTasks
    BY DEF LiveTasks, Segment
  <2>2. QED
    BY <2>1 DEF Crew, Crewed
<1>10. QED
  BY <1>2, <1>4, <1>6, <1>7, <1>8, <1>9, InLine DEF Range

(* Whoever is about to be resumed waits nowhere else.                      *)
LEMMA HeadApart ==
  ASSUME Crew, running = NoTask, ready # <<>>
  PROVE  /\ Unparked(Head(ready).task.co)
         /\ \A e \in Range(Tail(ready)) :
              e \in Range(ready) /\ e.task.co # Head(ready).task.co
         /\ Head(ready).task \in Task /\ Head(ready).task.co \in live
         /\ folds = <<>>
<1> DEFINE a == Len(ready)
<1>1. TypeOK /\ QueueShape /\ Once(Queues) /\ folds = <<>>
  BY Aboard DEF Crew, Crewed, IdInv
<1>2. /\ a \in Nat /\ 1 \in 1..a /\ DOMAIN Line = 1..a /\ DOMAIN ready = 1..a
      /\ \A n \in 1..a : Line[n] = ready[n].task
  BY <1>1 DEF Line, TypeOK
<1>3. /\ Head(ready) = ready[1] /\ DOMAIN Tail(ready) = 1..(a - 1)
      /\ \A n \in 1..(a - 1) : Tail(ready)[n] = ready[n + 1]
      /\ Head(ready).task \in Task
  <2>1. ready \in Seq(Entry) /\ Len(ready) # 0
    BY <1>1, <1>2 DEF TypeOK
  <2>2. /\ Head(ready) = ready[1] /\ Head(ready) \in Entry
        /\ Tail(ready) \in Seq(Entry) /\ Len(Tail(ready)) = a - 1
        /\ \A n \in 1..(a - 1) : Tail(ready)[n] = ready[n + 1]
    BY <2>1
  <2>3. DOMAIN Tail(ready) = 1..(a - 1)
    BY <2>2
  <2>4. Head(ready).task \in Task
    BY <2>2 DEF Entry
  <2>5. QED
    BY <2>2, <2>3, <2>4
<1> HIDE DEF a
<1>4. \A m, n \in 1..a : ready[m].task.co = ready[n].task.co => m = n
  BY <1>1, <1>2 DEF Once, QueueShape
<1>5. \A n \in 1..(a - 1) : n + 1 \in 1..a /\ n + 1 # 1
  BY <1>2
<1>6. \A e \in Range(Tail(ready)) :
        e \in Range(ready) /\ e.task.co # Head(ready).task.co
  BY <1>2, <1>3, <1>4, <1>5 DEF Range
<1>7. Head(ready).task.co \in live
  <2>1. Head(ready).task \in LiveTasks
    BY <1>2, <1>3 DEF LiveTasks, Range
  <2>2. QED
    BY <2>1 DEF Crew, Crewed
<1>8. QED
  BY <1>1, <1>2, <1>3, <1>6, <1>7, InLine

(* The ready queue after settling: who was ready, what the request made    *)
(* ready, and the callers.                                                 *)
LEMMA Settled ==
  ASSUME TypeOK, NEW ext \in Seq(Entry), Settle(ready \o ext)
  PROVE  /\ folds' = <<>> /\ running' = NoTask
         /\ \A e \in Range(ready') \cup Range(folds') :
              e \in Range(ready) \cup Range(folds) \cup Range(ext)
<1>1. ready \in Seq(Entry) /\ folds \in Seq(Entry) /\ ready' = ready \o ext \o folds
  BY DEF TypeOK, Settle
<1>2. \A n \in DOMAIN ready' : \/ \E m \in DOMAIN ready : ready'[n] = ready[m]
                               \/ \E m \in DOMAIN ext : ready'[n] = ext[m]
                               \/ \E m \in DOMAIN folds : ready'[n] = folds[m]
  <2> TAKE n \in DOMAIN ready'
  <2> DEFINE a == Len(ready)  x == Len(ext)  f == Len(folds)
  <2>1. /\ a \in Nat /\ x \in Nat /\ f \in Nat /\ n \in 1..(a + x + f)
        /\ DOMAIN ready = 1..a /\ DOMAIN ext = 1..x /\ DOMAIN folds = 1..f
    BY <1>1
  <2>2. CASE n <= a
    BY <1>1, <2>1, <2>2
  <2>3. CASE n > a /\ n <= a + x
    <3>1. n - a \in 1..x /\ ready'[n] = ext[n - a]
      BY <1>1, <2>1, <2>3
    <3>2. QED
      BY <2>1, <3>1
  <2>4. CASE n > a + x
    <3>1. n - a - x \in 1..f /\ ready'[n] = folds[n - a - x]
      BY <1>1, <2>1, <2>4
    <3>2. QED
      BY <2>1, <3>1
  <2>5. QED
    BY <2>1, <2>2, <2>3, <2>4
<1>3. folds' = <<>> /\ running' = NoTask
  BY DEF Settle
<1>4. QED
  BY <1>2, <1>3 DEF Range

(* An answer given stays the answer: a request is not rewritten, what was  *)
(* sent stays sent, and a cached value stays cached.                       *)
LEMMA FitsStill ==
  ASSUME IdInv, [Next]_vars, Lengthens, NEW w, NEW v, Fits(w, v, sent, cells)
  PROVE  Fits(w, v, sent', cells')
  BY CacheStep DEF Fits, Lengthens

(* Settling a request answers everyone, if what it made ready is answered. *)
LEMMA SettleAnswered ==
  ASSUME Crew, Answered, [Next]_vars, Lengthens, Segment,
         NEW ext \in Seq(Entry), Settle(ready \o ext),
         \A c \in Coro : c # running.co => want'[c] = want[c],
         \A n \in DOMAIN ext : Fits(want'[ext[n].task.co], ext[n].val, sent', cells')
  PROVE  Answered'
<1>1. TypeOK /\ IdInv
  BY DEF Crew, IdInv
<1>2. ASSUME NEW e \in Range(ready) \cup Range(folds)
      PROVE  Fits(want'[e.task.co], e.val, sent', cells')
  <2>1. e.task.co \in Coro
    <3>1. ready \in Seq(Entry) /\ folds \in Seq(Entry)
      BY <1>1 DEF TypeOK
    <3>2. e \in Entry
      BY <3>1 DEF Range
    <3>3. QED
      BY <3>2 DEF Entry, Task
  <2>2. want'[e.task.co] = want[e.task.co]
    BY <2>1, RunningApart
  <2>3. QED
    BY <1>1, <2>2, FitsStill DEF Answered
<1>3. \A e \in Range(ext) : Fits(want'[e.task.co], e.val, sent', cells')
  BY DEF Range
<1>4. \A e \in Range(ready') \cup Range(folds') :
        e \in Range(ready) \cup Range(folds) \cup Range(ext)
  BY <1>1, Settled
<1>5. QED
  BY <1>2, <1>3, <1>4 DEF Answered

(* A request leaves the runner's request open, or none.                    *)
LEMMA SettleWanting ==
  ASSUME Crew, Wanting, Segment, running' = NoTask, live' = live,
         DOMAIN want' = Coro, \A c \in Coro : c # running.co => want'[c] = want[c]
  PROVE  Wanting'
  BY RunningApart DEF Wanting

(* Nobody else's turn is affected by a request of the running coroutine.   *)
LEMMA SameTurns ==
  ASSUME Crew, Turns, Segment, \A c \in Coro : c # running.co => want'[c] = want[c]
  PROVE  /\ \A i \in DOMAIN chans : RecvTurn(i, chans[i].waiters, sent[i], want')
         /\ \A i \in DOMAIN cells : AwaitTurn(i, cells[i], want')
<1>1. /\ \A i \in DOMAIN cells : \A n \in DOMAIN cells[i].waiters :
           /\ cells[i].waiters[n].co # running.co
           /\ cells[i].waiters[n].co \in Coro
      /\ \A i \in DOMAIN chans : \A n \in DOMAIN chans[i].waiters :
           /\ chans[i].waiters[n].co # running.co
           /\ chans[i].waiters[n].co \in Coro
  <2>1. QueueShape
    BY Aboard DEF Crew, Crewed, IdInv
  <2>2. \A ws \in Seq(Task) : \A n \in DOMAIN ws : ws[n].co \in Coro
    <3>1. \A ws \in Seq(Task) : \A n \in DOMAIN ws : ws[n] \in Task
      OBVIOUS
    <3>2. QED
      BY <3>1 DEF Task
  <2>3. QED
    BY <2>1, <2>2, RunningApart DEF Unparked, QueueShape
<1>2. QED
  BY <1>1 DEF Turns, RecvTurn, AwaitTurn

(* A caller answered on the spot, or parked.                               *)
LEMMA AnsweredAtOnce ==
  ASSUME DInv, Crew, [Next]_vars, Lengthens, Segment, live' = live,
         NEW v \in Value, Settle(Append(ready, Resume(running, v))),
         DOMAIN want' = Coro, \A c \in Coro : c # running.co => want'[c] = want[c],
         Fits(want'[running.co], v, sent', cells')
  PROVE  Answered' /\ Wanting'
<1> DEFINE x == Resume(running, v)
<1>1. x \in Entry /\ x.task = running /\ x.val = v
  BY RunningApart, ResumeType DEF Resume
<1>2. Settle(Append(ready, x))
  OBVIOUS
<1> HIDE DEF x
<1>3. <<x>> \in Seq(Entry) /\ DOMAIN <<x>> = {1} /\ <<x>>[1] = x
      /\ ready \o <<x>> = Append(ready, x)
  BY <1>1 DEF Crew, IdInv, TypeOK
<1>4. \A n \in DOMAIN <<x>> : Fits(want'[<<x>>[n].task.co], <<x>>[n].val, sent', cells')
  BY <1>1, <1>3
<1>5. Settle(ready \o <<x>>)
  BY <1>2, <1>3
<1>6. Answered'
  BY <1>3, <1>4, <1>5, SettleAnswered DEF DInv
<1>7. running' = NoTask
  BY DEF Settle
<1>8. QED
  BY <1>6, <1>7, SettleWanting DEF DInv

(* A request that makes nobody ready leaves everyone answered as before.   *)
LEMMA NobodyAnswered ==
  ASSUME DInv, Crew, [Next]_vars, Lengthens, Segment, Settle(ready),
         \A c \in Coro : c # running.co => want'[c] = want[c]
  PROVE  Answered'
<1>1. <<>> \in Seq(Entry) /\ DOMAIN <<>> = {} /\ ready \o <<>> = ready
  BY DEF Crew, IdInv, TypeOK
<1>2. QED
  BY <1>1, SettleAnswered DEF DInv

(* Every step of the scheduler with its record keeps the invariant.        *)
LEMMA DeliveryStep == DInv /\ Crew /\ ChanExclusive /\ [DNext]_dvars => DInv'
<1> SUFFICES ASSUME DInv, Crew, ChanExclusive, [DNext]_dvars PROVE DInv'
  OBVIOUS
<1>n. [Next]_vars
  BY DeliveryStepRefines
<1>t. /\ TypeOK /\ IdInv /\ Answered /\ Wanting /\ Counted /\ Turns
      /\ ready \in Seq(Entry) /\ folds \in Seq(Entry) /\ sup \in Nat
  BY DEF DInv, Crew, IdInv, TypeOK
<1>0. ASSUME UNCHANGED <<ready, running, folds, cells, chans, live, sent, asked, want>>
      PROVE  DInv'
  BY <1>0 DEF DInv, Answered, Wanting, Counted, Turns
<1>f. ASSUME NEW err, Fail(err), UNCHANGED <<sent, asked, want>> PROVE DInv'
  BY <1>f, <1>0 DEF Fail
<1>l. UNCHANGED sent => Lengthens
  BY DEF Lengthens
<1>r. ASSUME Segment
      PROVE  /\ running \in Task /\ running.co \in Coro /\ running.co \in live
             /\ want[running.co] = NoWant /\ status = "running" /\ running # NoTask
  BY <1>r, <1>t, RunningApart DEF Wanting, Segment
<1>v. /\ \A v, s, c : v.k \in {"unit", "handle"} => Fits(NoWant, v, s, c)
      /\ Unit \in Value /\ Unit.k = "unit"
      /\ \A i \in Nat : Handle(i) \in Value /\ Handle(i).k = "handle"
  BY ValueType DEF Fits, NoWant, Unit, Handle
<1>u. ASSUME Segment, UNCHANGED <<cells, chans, sent, asked>>,
             \A c \in Coro : c # running.co => want'[c] = want[c]
      PROVE  Counted' /\ Turns'
  <2>1. Counted'
    BY <1>u, <1>t DEF Counted
  <2>2. Turns'
    BY <1>u, <1>t, SameTurns DEF Turns
  <2>3. QED
    BY <2>1, <2>2
<1>w. ASSUME Segment, NEW w, want' = [want EXCEPT ![running.co] = w]
      PROVE  /\ DOMAIN want' = Coro /\ want'[running.co] = w
             /\ \A c \in Coro : c # running.co => want'[c] = want[c]
  BY <1>w, <1>r, <1>t DEF Wanting
<1>1. CASE NestedMint /\ UNCHANGED <<sent, asked, want>>
  BY <1>1, <1>0, <1>f DEF NestedMint
<1>2. CASE Yield /\ UNCHANGED <<sent, asked, want>>
  <2>1. /\ Segment /\ Settle(Append(ready, Resume(running, Unit)))
        /\ UNCHANGED <<cells, chans, live>>
    BY <1>2 DEF Yield
  <2>2. Fits(want'[running.co], Unit, sent', cells')
    BY <1>2, <1>r, <1>v, <2>1
  <2>3. Answered' /\ Wanting'
    BY <1>2, <1>l, <1>n, <1>t, <1>v, <2>1, <2>2, AnsweredAtOnce DEF Wanting
  <2>4. QED
    BY <1>2, <1>u, <2>1, <2>3 DEF DInv
<1>c. ASSUME NEW c \in Coro \ live, NEW o \in Owner, Segment, StartChild(c, o, sup),
             ready' = ready, UNCHANGED <<sent, want>>
      PROVE  Answered' /\ Wanting'
  <2> DEFINE x == Resume(running, Handle(sup))
  <2>1. x.task = running /\ x.val = Handle(sup) /\ x \in Entry
    BY <1>c, <1>r, <1>t, <1>v, ResumeType DEF Resume
  <2>2. /\ running' = [co |-> c, owner |-> o] /\ running'.co = c
        /\ folds' = <<x>> \o folds /\ live' = live \cup {c}
    BY <1>c DEF StartChild
  <2> HIDE DEF x
  <2>3. \A e \in Range(folds') : e = x \/ e \in Range(folds)
    <3>1. \A n \in DOMAIN folds' : \/ folds'[n] = x
                                   \/ \E m \in DOMAIN folds : folds'[n] = folds[m]
      BY <1>t, <2>1, <2>2
    <3>2. QED
      BY <3>1 DEF Range
  <2>4. Fits(want[x.task.co], x.val, sent', cells')
    BY <1>c, <1>r, <1>t, <1>v, <2>1
  <2>5. \A e \in Range(ready) \cup Range(folds) :
          Fits(want[e.task.co], e.val, sent', cells')
    BY <1>c, <1>l, <1>n, <1>t, FitsStill DEF Answered
  <2>6. Answered'
    BY <1>c, <2>3, <2>4, <2>5 DEF Answered
  <2>7. Wanting'
    BY <1>c, <1>t, <2>2 DEF Wanting
  <2>8. QED
    BY <2>6, <2>7
<1>3. ASSUME NEW c \in Coro, Spawn(c), UNCHANGED <<sent, asked, want>> PROVE DInv'
  <2>1. CASE CanMint(sup)
    <3>1. /\ Segment /\ c \in Coro \ live /\ StartChild(c, Detached, sup)
          /\ UNCHANGED <<ready, cells, chans>> /\ Detached \in Owner
      BY <1>3, <2>1 DEF Spawn, SupAfterSegment, Detached, Owner
    <3>2. Answered' /\ Wanting'
      BY <1>3, <1>c, <3>1
    <3>3. QED
      BY <1>3, <1>u, <3>1, <3>2 DEF DInv
  <2>2. CASE ~CanMint(sup)
    BY <1>3, <1>f, <2>2 DEF Spawn, SupAfterSegment
  <2>3. QED
    BY <2>1, <2>2
<1>4. ASSUME NEW c \in Coro, Async(c), UNCHANGED <<sent, asked, want>> PROVE DInv'
  <2>1. CASE CanMint(sup)
    <3>1. /\ Segment /\ c \in Coro \ live /\ StartChild(c, Fulfils(sup), sup)
          /\ cells' = Insert(cells, sup, EmptyCell)
          /\ UNCHANGED <<ready, chans>> /\ Fulfils(sup) \in Owner
      BY <1>4, <1>t, <2>1 DEF Async, SupAfterSegment, Fulfils, Owner
    <3>2. Answered' /\ Wanting'
      BY <1>4, <1>c, <3>1
    <3>3. Counted'
      BY <1>4, <1>t, <3>1 DEF Counted
    <3>4. AwaitTurn(sup, EmptyCell, want)
      BY DEF EmptyCell, AwaitTurn
    <3>5. Turns'
      BY <1>4, <1>t, <3>1, <3>4 DEF Turns, Insert
    <3>6. QED
      BY <3>2, <3>3, <3>5 DEF DInv
  <2>2. CASE ~CanMint(sup)
    BY <1>4, <1>f, <2>2 DEF Async, SupAfterSegment
  <2>3. QED
    BY <2>1, <2>2
<1>5. CASE DNewChan
  <2>1. CASE CanMint(sup)
    <3>1. /\ Segment /\ chans' = Insert(chans, sup, EmptyChan)
          /\ Settle(Append(ready, Resume(running, Handle(sup))))
          /\ UNCHANGED <<cells, live, want>>
          /\ sent' = Insert(sent, sup, <<>>) /\ asked' = Insert(asked, sup, 0)
      <4>1. NewChan /\ UNCHANGED want
        BY <1>5 DEF DNewChan
      <4>2. /\ Segment /\ chans' = Insert(chans, sup, EmptyChan)
            /\ Settle(Append(ready, Resume(running, Handle(sup))))
            /\ UNCHANGED <<cells, live, status>>
        BY <2>1, <4>1 DEF NewChan, SupAfterSegment
      <4>3. Ok
        BY <1>r, <4>2 DEF Ok
      <4>4. QED
        BY <1>5, <4>1, <4>2, <4>3 DEF DNewChan, SupAfterSegment
    <3>2. sup \notin DOMAIN chans
      BY <1>t, <3>1, MintFresh
    <3>3. Lengthens
      BY <1>t, <3>1, <3>2 DEF Lengthens, Insert, Counted
    <3>4. Fits(want'[running.co], Handle(sup), sent', cells') /\ Handle(sup) \in Value
      BY <1>r, <1>t, <1>v, <3>1
    <3>5. Answered' /\ Wanting'
      BY <1>n, <1>t, <3>1, <3>3, <3>4, AnsweredAtOnce DEF Wanting
    <3>6. Tally(EmptyChan, <<>>, 0) /\ RecvTurn(sup, EmptyChan.waiters, <<>>, want)
      BY DEF Tally, EmptyChan, RecvTurn
    <3>7. Counted'
      BY <1>t, <3>1, <3>2, <3>6 DEF Counted, Insert
    <3>8. Turns'
      BY <1>t, <3>1, <3>2, <3>6 DEF Turns, Counted, Insert
    <3>9. QED
      BY <3>5, <3>7, <3>8 DEF DInv
  <2>2. CASE ~CanMint(sup)
    <3>1. Fail("ids exhausted")
      BY <1>5, <2>2 DEF DNewChan, NewChan, SupAfterSegment
    <3>2. ~Ok
      BY <3>1 DEF Fail, Ok
    <3>3. QED
      BY <1>5, <1>f, <3>1, <3>2 DEF DNewChan
  <2>3. QED
    BY <2>1, <2>2
<1>6. ASSUME NEW i \in Known, DAwait(i) PROVE DInv'
  <2>0. Await(i) /\ UNCHANGED <<sent, asked>>
    BY <1>6 DEF DAwait
  <2>1. CASE i \notin DOMAIN cells
    <3>1. Fail("promise not owned")
      BY <2>0, <2>1 DEF Await
    <3>2. ~Ok
      BY <3>1 DEF Fail, Ok
    <3>3. QED
      BY <1>6, <1>f, <3>1, <3>2 DEF DAwait
  <2>2. CASE i \in DOMAIN cells
    <3>1. /\ Segment /\ UNCHANGED <<chans, live, status>>
          /\ cells[i] \in Cell /\ cells[i].val \in Value
      BY <1>t, <2>0, <2>2 DEF Await, TypeOK, Cell
    <3>2. want' = [want EXCEPT ![running.co] = WantAwait(i)]
      BY <1>6, <1>r, <3>1 DEF DAwait, Ok
    <3>3. /\ DOMAIN want' = Coro /\ want'[running.co] = WantAwait(i)
          /\ \A c \in Coro : c # running.co => want'[c] = want[c]
      BY <1>w, <3>1, <3>2
    <3>4. CASE /\ cells[i].full /\ UNCHANGED cells
               /\ Settle(Append(ready, Resume(running, cells[i].val)))
      <4>1. Fits(want'[running.co], cells[i].val, sent', cells')
        BY <2>2, <3>3, <3>4 DEF Fits, WantAwait
      <4>2. Answered' /\ Wanting'
        BY <1>l, <1>n, <2>0, <3>1, <3>3, <3>4, <4>1, AnsweredAtOnce
      <4>3. QED
        BY <1>u, <2>0, <3>1, <3>3, <3>4, <4>2 DEF DInv
    <3>5. CASE /\ ~cells[i].full /\ Settle(ready)
               /\ cells' = Insert(cells, i, [cells[i] EXCEPT
                                    !.waiters = Append(@, running)])
      <4> DEFINE c == [cells[i] EXCEPT !.waiters = Append(@, running)]
      <4>1. /\ c.waiters = Append(cells[i].waiters, running) /\ c.full = cells[i].full
            /\ cells[i].waiters \in Seq(Task)
        BY <3>1 DEF Cell
      <4>2. cells' = Insert(cells, i, c)
        BY <3>5
      <4> HIDE DEF c
      <4>3. Answered'
        BY <1>l, <1>n, <2>0, <3>1, <3>3, <3>5, NobodyAnswered
      <4>4. Wanting'
        BY <1>t, <3>1, <3>3, <3>5, SettleWanting DEF Settle
      <4>5. Counted'
        BY <1>t, <2>0, <3>1 DEF Counted
      <4>6. /\ \A k \in DOMAIN chans : RecvTurn(k, chans[k].waiters, sent[k], want')
            /\ \A k \in DOMAIN cells : AwaitTurn(k, cells[k], want')
        BY <1>t, <3>1, <3>3, SameTurns
      <4>7. AwaitTurn(i, c, want')
        BY <1>r, <2>2, <3>1, <3>3, <3>5, <4>1, <4>6 DEF AwaitTurn
      <4>8. Turns'
        BY <2>0, <2>2, <3>1, <4>2, <4>6, <4>7 DEF Turns, Insert
      <4>9. QED
        BY <4>3, <4>4, <4>5, <4>8 DEF DInv
    <3>6. QED
      BY <2>0, <2>2, <3>4, <3>5 DEF Await
  <2>3. QED
    BY <2>1, <2>2
<1>7. ASSUME NEW i \in Known, DRecv(i) PROVE DInv'
  <2>0. Recv(i) /\ UNCHANGED sent
    BY <1>7 DEF DRecv
  <2>1. CASE i \notin DOMAIN chans
    <3>1. Fail("channel not owned")
      BY <2>0, <2>1 DEF Recv
    <3>2. ~Ok
      BY <3>1 DEF Fail, Ok
    <3>3. QED
      BY <1>7, <1>f, <3>1, <3>2 DEF DRecv
  <2>2. CASE i \in DOMAIN chans
    <3> DEFINE ch == chans[i]  s == sent[i]  a == asked[i]
    <3>1. /\ Segment /\ UNCHANGED <<cells, live, status>> /\ ch \in Chan
          /\ (ch.buf = <<>> \/ ch.waiters = <<>>)
      BY <1>t, <2>0, <2>2 DEF Recv, TypeOK, ChanExclusive
    <3>2. /\ want' = [want EXCEPT ![running.co] = WantRecv(i)]
          /\ asked' = [asked EXCEPT ![i] = @ + 1]
      BY <1>7, <1>r, <3>1 DEF DRecv, Ok
    <3>3. /\ DOMAIN want' = Coro /\ want'[running.co] = WantRecv(i)
          /\ \A c \in Coro : c # running.co => want'[c] = want[c]
      BY <1>w, <3>1, <3>2
    <3>4. /\ WantRecv(i).k = "recv" /\ WantRecv(i).id = i /\ WantRecv(i).n = a + 1
      BY DEF WantRecv
    <3>5. /\ DOMAIN asked' = DOMAIN asked /\ asked'[i] = a + 1 /\ i \in DOMAIN sent
          /\ \A k \in DOMAIN asked \ {i} : asked'[k] = asked[k]
          /\ Tally(ch, s, a)
      BY <1>t, <2>2, <3>2 DEF Counted
    <3>6. /\ \A k \in DOMAIN chans : RecvTurn(k, chans[k].waiters, sent[k], want')
          /\ \A k \in DOMAIN cells : AwaitTurn(k, cells[k], want')
      BY <1>t, <3>1, <3>3, SameTurns
    <3>7. ASSUME NEW c, chans' = Insert(chans, i, c), Tally(c, s, a + 1),
                 RecvTurn(i, c.waiters, s, want')
          PROVE  Counted' /\ Turns'
      <4>1. /\ DOMAIN chans' = DOMAIN chans /\ chans'[i] = c
            /\ \A k \in DOMAIN chans \ {i} : chans'[k] = chans[k]
        BY <2>2, <3>7 DEF Insert
      <4>2. Counted'
        BY <1>t, <2>0, <3>5, <3>7, <4>1 DEF Counted
      <4>3. Turns'
        BY <2>0, <3>1, <3>6, <3>7, <4>1 DEF Turns
      <4>4. QED
        BY <4>2, <4>3
    <3>8. CASE /\ ch.buf # <<>>
               /\ chans' = Insert(chans, i, [ch EXCEPT !.buf = Tail(@)])
               /\ Settle(Append(ready, Resume(running, Head(ch.buf))))
      <4> DEFINE c == [ch EXCEPT !.buf = Tail(@)]  v == Head(ch.buf)
      <4>1. c.buf = Tail(ch.buf) /\ c.waiters = ch.waiters /\ ch.waiters = <<>>
            /\ ch.buf \in Seq(Value) /\ v \in Value
        BY <3>1, <3>8, ChanMoves DEF Chan
      <4>2. /\ a + Len(ch.buf) = Len(s) /\ a \in Nat /\ Len(s) \in Nat
            /\ Len(ch.buf) \in Nat \ {0} /\ s \in Seq(Value)
            /\ \A n \in 1..Len(ch.buf) : ch.buf[n] = s[a + n]
        BY <3>5, <3>8, <4>1 DEF Tally
      <4>3. v = s[a + 1] /\ a + 1 \in 1..Len(s)
        BY <4>1, <4>2
      <4>4. Fits(want'[running.co], v, sent', cells')
        BY <2>0, <3>3, <3>4, <3>5, <4>3 DEF Fits
      <4>5. Answered' /\ Wanting'
        BY <1>l, <1>n, <2>0, <3>1, <3>3, <3>8, <4>1, <4>4, AnsweredAtOnce
      <4>6. Tally(c, s, a + 1)
        <5> DEFINE b == Len(ch.buf)  l == Len(s)
        <5>1. /\ a \in Nat /\ b \in Nat \ {0} /\ l \in Nat /\ a + b = l
              /\ \A n \in 1..b : ch.buf[n] = s[a + n]
          BY <4>2
        <5>2. /\ Len(c.buf) = b - 1 /\ Len(c.waiters) = 0
              /\ \A n \in 1..(b - 1) : c.buf[n] = ch.buf[n + 1]
          BY <4>1, <4>2
        <5> HIDE DEF b, l, a, c
        <5>3. \A n \in 1..(b - 1) : n + 1 \in 1..b /\ a + (n + 1) = a + 1 + n
          BY <5>1
        <5>4. \A n \in 1..(b - 1) : c.buf[n] = s[a + 1 + n]
          BY <5>1, <5>2, <5>3
        <5>5. a + 1 + (b - 1) = l + 0 /\ a + 1 \in Nat
          BY <5>1
        <5>6. QED
          BY <4>2, <5>2, <5>4, <5>5 DEF Tally, l
      <4>7. RecvTurn(i, c.waiters, s, want')
        BY <2>2, <3>6, <4>1
      <4>8. Counted' /\ Turns'
        BY <3>7, <3>8, <4>6, <4>7
      <4>9. QED
        BY <4>5, <4>8 DEF DInv
    <3>9. CASE /\ ch.buf = <<>> /\ Settle(ready)
               /\ chans' = Insert(chans, i, [ch EXCEPT
                                    !.waiters = Append(@, running)])
      <4> DEFINE c == [ch EXCEPT !.waiters = Append(@, running)]  ws == ch.waiters
      <4>1. c.buf = <<>> /\ c.waiters = Append(ws, running) /\ ws \in Seq(Task)
        BY <3>1, <3>9 DEF Chan
      <4>2. a = Len(s) + Len(ws) /\ a \in Nat /\ Len(s) \in Nat /\ Len(ws) \in Nat
            /\ s \in Seq(Value)
        BY <3>5, <3>9, <4>1 DEF Tally
      <4>3. Answered'
        BY <1>l, <1>n, <2>0, <3>1, <3>3, <3>9, NobodyAnswered
      <4>4. Wanting'
        BY <1>t, <3>1, <3>3, <3>9, SettleWanting DEF Settle
      <4>5. /\ Len(c.waiters) = Len(ws) + 1 /\ Len(c.buf) = 0
            /\ DOMAIN c.waiters = 1..(Len(ws) + 1) /\ DOMAIN ws = 1..Len(ws)
            /\ c.waiters[Len(ws) + 1] = running
            /\ \A n \in 1..Len(ws) : c.waiters[n] = ws[n]
        BY <4>1
      <4>6. RecvTurn(i, ws, s, want')
        BY <2>2, <3>6
      <4> HIDE DEF c, ws, s, a
      <4>7. Tally(c, s, a + 1)
        <5>1. a + 1 + 0 = Len(s) + (Len(ws) + 1) /\ a + 1 \in Nat
          BY <4>2
        <5>2. QED
          BY <4>2, <4>5, <5>1 DEF Tally
      <4>8. RecvTurn(i, c.waiters, s, want')
        <5> SUFFICES ASSUME NEW n \in 1..(Len(ws) + 1)
                     PROVE  /\ want'[c.waiters[n].co].k = "recv"
                            /\ want'[c.waiters[n].co].id = i
                            /\ want'[c.waiters[n].co].n = Len(s) + n
          BY <4>5 DEF RecvTurn
        <5>1. CASE n = Len(ws) + 1
          BY <3>3, <3>4, <4>2, <4>5, <5>1
        <5>2. CASE n # Len(ws) + 1
          <6>1. n \in 1..Len(ws)
            BY <4>2, <5>2
          <6>2. QED
            BY <4>5, <4>6, <6>1 DEF RecvTurn
        <5>3. QED
          BY <5>1, <5>2
      <4>9. Counted' /\ Turns'
        BY <3>7, <3>9, <4>7, <4>8 DEF c, s, a
      <4>10. QED
        BY <4>3, <4>4, <4>9 DEF DInv
    <3>10. QED
      BY <2>0, <2>2, <3>8, <3>9 DEF Recv
  <2>3. QED
    BY <2>1, <2>2
<1>8. ASSUME NEW i \in Known, NEW v \in Sendable, DSend(i, v) PROVE DInv'
  <2>0. Send(i, v) /\ UNCHANGED <<asked, want>>
    BY <1>8 DEF DSend
  <2>1. CASE containsCont(v) \/ i \notin DOMAIN chans
    <3>1. \E err \in {"carrier in Chan", "channel not owned"} : Fail(err)
      BY <2>0, <2>1 DEF Send
    <3>2. ~Ok
      BY <3>1 DEF Fail, Ok
    <3>3. QED
      BY <1>8, <1>f, <3>1, <3>2 DEF DSend
  <2>2. CASE ~containsCont(v) /\ i \in DOMAIN chans
    <3> DEFINE ch == chans[i]  s == sent[i]  a == asked[i]  t == Append(s, v)
    <3>1. /\ Segment /\ UNCHANGED <<cells, live, status>> /\ ch \in Chan /\ v \in Value
          /\ (ch.buf = <<>> \/ ch.waiters = <<>>)
      BY <1>t, <2>0, <2>2, ValueType DEF Send, TypeOK, ChanExclusive
    <3>2. sent' = [sent EXCEPT ![i] = Append(@, v)]
      BY <1>8, <1>r, <3>1 DEF DSend, Ok
    <3>3. /\ DOMAIN sent' = DOMAIN sent /\ sent'[i] = t
          /\ \A k \in DOMAIN sent \ {i} : sent'[k] = sent[k]
          /\ Tally(ch, s, a)
      BY <1>t, <2>2, <3>2 DEF Counted
    <3>4. /\ s \in Seq(Value) /\ a \in Nat /\ Len(s) \in Nat
          /\ a + Len(ch.buf) = Len(s) + Len(ch.waiters)
          /\ \A n \in 1..Len(ch.buf) : ch.buf[n] = s[a + n]
      <4> HIDE DEF s, a, ch
      <4>1. QED
        BY <3>3 DEF Tally
    <3>5. /\ t \in Seq(Value) /\ Len(t) = Len(s) + 1 /\ t[Len(s) + 1] = v
          /\ \A n \in 1..Len(s) : n \in 1..Len(t) /\ t[n] = s[n]
      BY <3>1, <3>4
    <3> HIDE DEF t
    <3>6. Lengthens
      BY <3>3, <3>5 DEF Lengthens
    <3>7. ASSUME NEW c, chans' = Insert(chans, i, c), Tally(c, t, a),
                 RecvTurn(i, c.waiters, t, want)
          PROVE  Counted' /\ Turns'
      <4>1. /\ DOMAIN chans' = DOMAIN chans /\ chans'[i] = c
            /\ \A k \in DOMAIN chans \ {i} : chans'[k] = chans[k]
        BY <2>2, <3>7 DEF Insert
      <4>2. Counted'
        BY <1>t, <2>0, <3>3, <3>7, <4>1 DEF Counted
      <4>3. Turns'
        BY <1>t, <2>0, <3>1, <3>3, <3>7, <4>1 DEF Turns, Counted
      <4>4. QED
        BY <4>2, <4>3
    <3>8. RecvTurn(i, ch.waiters, s, want)
      BY <1>t, <2>2 DEF Turns
    <3>w. /\ DOMAIN want' = Coro /\ want' = want
          /\ Fits(want'[running.co], Unit, sent', cells')
      BY <1>r, <1>t, <1>v, <2>0, <3>1 DEF Wanting
    <3>9. CASE /\ ch.waiters # <<>>
               /\ chans' = Insert(chans, i, [ch EXCEPT !.waiters = Tail(@)])
               /\ Settle(ready \o <<Resume(Head(ch.waiters), v),
                                    Resume(running, Unit)>>)
      <4> DEFINE c == [ch EXCEPT !.waiters = Tail(@)]  ws == ch.waiters
                 x == Resume(Head(ws), v)  y == Resume(running, Unit)
      <4>1. /\ c.buf = <<>> /\ c.waiters = Tail(ws) /\ ws \in Seq(Task)
            /\ ch.buf = <<>> /\ Head(ws) \in Task
        BY <3>1, <3>9, ChanMoves DEF Chan
      <4>2. /\ x \in Entry /\ x.task = Head(ws) /\ x.val = v
            /\ y \in Entry /\ y.task = running /\ y.val = Unit
        BY <1>r, <1>v, <3>1, <4>1, ResumeType DEF Resume
      <4>3. /\ Len(ws) \in Nat \ {0} /\ DOMAIN ws = 1..Len(ws) /\ Head(ws) = ws[1]
            /\ Len(c.waiters) = Len(ws) - 1 /\ DOMAIN c.waiters = 1..(Len(ws) - 1)
            /\ \A n \in 1..(Len(ws) - 1) : c.waiters[n] = ws[n + 1]
            /\ Len(c.buf) = 0 /\ Len(ch.buf) = 0
        BY <3>9, <4>1
      <4>4. Settle(ready \o <<x, y>>)
        BY <3>9
      <4> HIDE DEF c, ws, x, y, s, a
      <4>5. /\ want[Head(ws).co].k = "recv" /\ want[Head(ws).co].id = i
            /\ want[Head(ws).co].n = Len(s) + 1
        <5>0. Len(ws) \in Nat \ {0} /\ DOMAIN ws = 1..Len(ws)
          BY <4>3
        <5> DEFINE l == Len(ws)
        <5>a. l \in Nat \ {0} /\ DOMAIN ws = 1..l
          BY <5>0
        <5> HIDE DEF l
        <5>1. 1 \in DOMAIN ws
          <6>1. 1 \in 1..l
            BY <5>a
          <6>2. QED
            BY <5>a, <6>1
        <5>2. RecvTurn(i, ws, s, want)
          BY <3>8 DEF ws, s
        <5>3. QED
          BY <4>3, <5>1, <5>2 DEF RecvTurn
      <4>6. Fits(want'[x.task.co], x.val, sent', cells')
        <5>1. Len(s) + 1 \in 1..Len(t)
          BY <3>4, <3>5
        <5>2. i \in DOMAIN sent'
          BY <1>t, <2>2, <3>3 DEF Counted
        <5>3. QED
          BY <3>3, <3>5, <3>w, <4>2, <4>5, <5>1, <5>2 DEF Fits
      <4>7. /\ <<x, y>> \in Seq(Entry) /\ DOMAIN <<x, y>> = {1, 2}
            /\ <<x, y>>[1] = x /\ <<x, y>>[2] = y
        BY <4>2
      <4>8. \A n \in DOMAIN <<x, y>> :
              Fits(want'[<<x, y>>[n].task.co], <<x, y>>[n].val, sent', cells')
        BY <3>w, <4>2, <4>6, <4>7
      <4>9. Answered'
        BY <1>n, <1>t, <3>1, <3>6, <3>w, <4>4, <4>7, <4>8, SettleAnswered
      <4>10. Wanting'
        BY <1>t, <3>1, <3>w, <4>4, SettleWanting DEF Settle
      <4>11. Tally(c, t, a)
        <5>1. /\ a + 0 = Len(s) + Len(ws) /\ a \in Nat /\ Len(s) \in Nat
              /\ Len(ws) \in Nat \ {0} /\ Len(t) = Len(s) + 1
          <6>1. /\ a + Len(ch.buf) = Len(s) + Len(ws) /\ a \in Nat
                /\ Len(s) \in Nat
            BY <3>4 DEF ws, s, a
          <6>2. Len(ch.buf) = 0 /\ Len(ws) \in Nat \ {0}
            BY <4>3
          <6>3. Len(t) = Len(s) + 1
            BY <3>5 DEF s
          <6>4. QED
            BY <6>1, <6>2, <6>3
        <5>2. a + 0 = Len(t) + (Len(ws) - 1)
          BY <5>1
        <5>3. /\ t \in Seq(Value) /\ a \in Nat
              /\ a + Len(c.buf) = Len(t) + Len(c.waiters)
          BY <3>5, <4>3, <5>1, <5>2
        <5>4. \A n \in 1..Len(c.buf) : c.buf[n] = t[a + n]
          <6>1. Len(c.buf) = 0
            BY <4>3
          <6>2. 1..0 = {}
            OBVIOUS
          <6>3. 1..Len(c.buf) = {}
            BY <6>1, <6>2
          <6>4. QED
            BY <6>3
        <5>5. QED
          BY <5>3, <5>4 DEF Tally
      <4>12. RecvTurn(i, c.waiters, t, want)
        <5> SUFFICES ASSUME NEW n \in 1..(Len(ws) - 1)
                     PROVE  /\ want[c.waiters[n].co].k = "recv"
                            /\ want[c.waiters[n].co].id = i
                            /\ want[c.waiters[n].co].n = Len(t) + n
          BY <4>3 DEF RecvTurn
        <5>1. Len(t) = Len(s) + 1 /\ Len(s) \in Nat /\ Len(ws) \in Nat
          BY <3>4, <3>5, <4>3 DEF s
        <5>2. n + 1 \in 1..Len(ws) /\ Len(s) + (n + 1) = Len(t) + n
          BY <5>1
        <5>3. RecvTurn(i, ws, s, want)
          BY <3>8 DEF ws, s
        <5>4. QED
          BY <4>3, <5>2, <5>3 DEF RecvTurn
      <4>13. Counted' /\ Turns'
        BY <3>7, <3>9, <4>11, <4>12 DEF c, a
      <4>14. QED
        BY <4>9, <4>10, <4>13 DEF DInv
    <3>10. CASE /\ ch.waiters = <<>>
                /\ chans' = Insert(chans, i, [ch EXCEPT !.buf = Append(@, v)])
                /\ Settle(Append(ready, Resume(running, Unit)))
      <4> DEFINE c == [ch EXCEPT !.buf = Append(@, v)]
      <4>1. c.buf = Append(ch.buf, v) /\ c.waiters = <<>> /\ ch.buf \in Seq(Value)
        BY <3>1, <3>10 DEF Chan
      <4>2. /\ Len(c.buf) = Len(ch.buf) + 1 /\ Len(ch.buf) \in Nat
            /\ c.buf[Len(ch.buf) + 1] = v
            /\ \A n \in 1..Len(ch.buf) : c.buf[n] = ch.buf[n]
            /\ Len(c.waiters) = 0 /\ Len(ch.waiters) = 0
        BY <3>1, <3>10, <4>1
      <4>3. Answered' /\ Wanting'
        BY <1>n, <1>v, <3>1, <3>6, <3>w, <3>10, AnsweredAtOnce
      <4> HIDE DEF c
      <4>4. Tally(c, t, a)
        <5>1. a + Len(ch.buf) = Len(s)
          BY <3>4, <4>2
        <5> DEFINE b == Len(ch.buf)  l == Len(s)
        <5>2. a \in Nat /\ b \in Nat /\ l \in Nat /\ a + b = l
          BY <3>4, <4>2, <5>1
        <5>3. /\ Len(c.buf) = b + 1 /\ c.buf[b + 1] = v
              /\ \A n \in 1..b : c.buf[n] = s[a + n]
          BY <3>4, <4>2
        <5>4. Len(t) = l + 1 /\ t[l + 1] = v /\ \A n \in 1..l : t[n] = s[n]
          BY <3>5
        <5> HIDE DEF b, l, s, a
        <5>5. \A n \in 1..(b + 1) : c.buf[n] = t[a + n]
          <6> TAKE n \in 1..(b + 1)
          <6>1. CASE n = b + 1
            <7>1. a + n = l + 1
              BY <5>2, <6>1
            <7>2. QED
              BY <5>3, <5>4, <6>1, <7>1
          <6>2. CASE n # b + 1
            <7>1. n \in 1..b /\ a + n \in 1..l
              BY <5>2, <6>2
            <7>2. QED
              BY <5>3, <5>4, <7>1
          <6>3. QED
            BY <6>1, <6>2
        <5>6. a + (b + 1) = (l + 1) + 0
          BY <5>2
        <5>7. QED
          BY <3>5, <4>2, <5>2, <5>3, <5>4, <5>5, <5>6 DEF Tally
      <4>5. RecvTurn(i, c.waiters, t, want)
        BY <4>1 DEF RecvTurn
      <4>6. Counted' /\ Turns'
        BY <3>7, <3>10, <4>4, <4>5 DEF c
      <4>7. QED
        BY <4>3, <4>6 DEF DInv
    <3>11. QED
      BY <2>0, <2>2, <3>9, <3>10 DEF Send
  <2>3. QED
    BY <2>1, <2>2
<1>9. CASE DResumeNext
  <2>1. /\ running = NoTask /\ ready # <<>> /\ running' = Head(ready).task
        /\ ready' = Tail(ready) /\ UNCHANGED <<cells, chans, folds, live, sent, asked>>
        /\ want' = [want EXCEPT ![running'.co] = NoWant]
    BY <1>9 DEF DResumeNext, ResumeNext, Idle
  <2> DEFINE co == Head(ready).task.co
  <2>2. /\ Unparked(co) /\ co \in live /\ co \in Coro /\ folds = <<>>
        /\ \A e \in Range(ready') : e \in Range(ready) /\ e.task.co # co
    BY <2>1, HeadApart DEF Task
  <2>3. /\ DOMAIN want' = Coro /\ want'[co] = NoWant
        /\ \A c \in Coro : c # co => want'[c] = want[c]
    BY <1>t, <2>1, <2>2 DEF Wanting
  <2>c. running'.co = co
    BY <2>1
  <2> HIDE DEF co
  <2>4. Wanting'
    BY <1>t, <2>1, <2>2, <2>3, <2>c DEF Wanting
  <2>5. Answered'
    <3>1. \A e \in Range(ready) : e.task.co \in Coro
      <4>1. \A e \in Range(ready) : e \in Entry
        BY <1>t DEF Range
      <4>2. QED
        BY <4>1 DEF Entry, Task
    <3>2. Range(folds') = {}
      BY <2>1, <2>2 DEF Range
    <3>3. QED
      BY <1>t, <2>1, <2>2, <2>3, <3>1, <3>2 DEF Answered
  <2>6. Counted'
    BY <1>t, <2>1 DEF Counted
  <2>7. QueueShape
    BY Aboard DEF Crew, Crewed, IdInv
  <2>8. \A ws \in Seq(Task) : \A n \in DOMAIN ws : ws[n].co \in Coro
    <3>1. \A ws \in Seq(Task) : \A n \in DOMAIN ws : ws[n] \in Task
      OBVIOUS
    <3>2. QED
      BY <3>1 DEF Task
  <2>9. \A i \in DOMAIN chans : RecvTurn(i, chans[i].waiters, sent[i], want')
    BY <1>t, <2>2, <2>3, <2>7, <2>8 DEF Turns, RecvTurn, Unparked, QueueShape
  <2>10. \A i \in DOMAIN cells : AwaitTurn(i, cells[i], want')
    BY <1>t, <2>2, <2>3, <2>7, <2>8 DEF Turns, AwaitTurn, Unparked, QueueShape
  <2>11. Turns'
    BY <2>1, <2>9, <2>10 DEF Turns
  <2>12. QED
    BY <2>4, <2>5, <2>6, <2>11 DEF DInv
<1>d. ASSUME Segment, live' = live \ {running.co}, running' = NoTask, UNCHANGED want
      PROVE  Wanting'
  BY <1>d, <1>r, <1>t DEF Wanting
<1>10. CASE (CompleteRoot \/ CompleteDetached) /\ UNCHANGED <<sent, asked, want>>
  <2>1. /\ Segment /\ Settle(ready) /\ live' = live \ {running.co}
        /\ UNCHANGED <<cells, chans, sent, asked, want>>
    BY <1>10 DEF CompleteRoot, CompleteDetached
  <2>2. Answered'
    BY <1>l, <1>n, <2>1, NobodyAnswered
  <2>3. Wanting'
    BY <1>d, <2>1 DEF Settle
  <2>4. QED
    BY <1>u, <2>1, <2>2, <2>3 DEF DInv
<1>11. ASSUME NEW v \in Sendable, Fulfil(v), UNCHANGED <<sent, asked, want>>
       PROVE  DInv'
  <2> DEFINE p == running.owner.p  ws == cells[p].waiters
  <2>1. CASE containsCont(v) \/ p \notin DOMAIN cells \/ cells[p].full
    BY <1>11, <1>f, <2>1 DEF Fulfil
  <2>2. CASE ~containsCont(v) /\ p \in DOMAIN cells /\ ~cells[p].full
    <3> DEFINE c == [full |-> TRUE, val |-> v, waiters |-> <<>>]
    <3>1. /\ cells' = Insert(cells, p, c) /\ Segment
          /\ Settle(ready \o Woken(ws, v)) /\ UNCHANGED chans
          /\ live' = live \ {running.co}
      BY <1>11, <2>2 DEF Fulfil
    <3>2. ws \in Seq(Task) /\ v \in Value
      BY <1>t, <2>2, ValueType DEF TypeOK, Cell
    <3>3. c.full = TRUE /\ c.val = v /\ c.waiters = <<>>
      OBVIOUS
    <3>4. AwaitTurn(p, cells[p], want)
      BY <1>t, <2>2 DEF Turns
    <3> HIDE DEF c
    <3>5. p \in DOMAIN cells' /\ cells'[p] = c /\ DOMAIN cells' = DOMAIN cells
          /\ \A k \in DOMAIN cells \ {p} : cells'[k] = cells[k]
      BY <2>2, <3>1 DEF Insert
    <3>6. /\ Woken(ws, v) \in Seq(Entry)
          /\ DOMAIN Woken(ws, v) = 1..Len(ws) /\ DOMAIN ws = 1..Len(ws)
          /\ \A n \in 1..Len(ws) : /\ Woken(ws, v)[n].task = ws[n]
                                   /\ Woken(ws, v)[n].val = v
      <4>1. Woken(ws, v) \in Seq(Entry)
        BY <3>2, WokenType
      <4>2. QED
        BY <3>2, <4>1 DEF Woken, Resume
    <3>7. \A n \in 1..Len(ws) : want[ws[n].co] = WantAwait(p)
      BY <3>4, <3>6 DEF AwaitTurn
    <3>8. WantAwait(p).k = "await" /\ WantAwait(p).id = p
      BY DEF WantAwait
    <3>9. Answered'
      <4> HIDE DEF ws, p
      <4>1. Fits(WantAwait(p), v, sent', cells')
        BY <3>3, <3>5, <3>8 DEF Fits
      <4>2. \A n \in DOMAIN Woken(ws, v) :
              Fits(want'[Woken(ws, v)[n].task.co], Woken(ws, v)[n].val, sent', cells')
        BY <1>11, <3>6, <3>7, <4>1
      <4>3. QED
        BY <1>11, <1>l, <1>n, <1>t, <3>1, <3>6, <4>2, SettleAnswered
    <3>10. Wanting'
      BY <1>11, <1>d, <3>1 DEF Settle
    <3>11. Counted'
      BY <1>11, <1>t, <3>1 DEF Counted
    <3>12. AwaitTurn(p, c, want)
      BY <3>3 DEF AwaitTurn
    <3>13. Turns'
      BY <1>11, <1>t, <3>1, <3>5, <3>12 DEF Turns
    <3>14. QED
      BY <3>9, <3>10, <3>11, <3>13 DEF DInv
  <2>3. QED
    BY <2>1, <2>2
<1>12. CASE Return /\ UNCHANGED <<sent, asked, want>>
  BY <1>12, <1>0 DEF Return
<1>13. CASE Stuck /\ UNCHANGED <<sent, asked, want>>
  BY <1>13, <1>f DEF Stuck
<1>14. CASE UNCHANGED dvars
  BY <1>14, <1>0 DEF dvars, vars
<1>15. QED
  BY <1>1, <1>2, <1>3, <1>4, <1>5, <1>6, <1>7, <1>8, <1>9, <1>10, <1>11, <1>12,
     <1>13, <1>14 DEF DNext, DOther

(* At the start nothing was sent, asked for or parked.                     *)
LEMMA DeliveryInit == DInit => DInv
<1> SUFFICES ASSUME DInit PROVE DInv
  OBVIOUS
<1>1. /\ ready = <<>> /\ folds = <<>> /\ DOMAIN cells = {} /\ DOMAIN chans = {}
      /\ DOMAIN sent = {} /\ DOMAIN asked = {} /\ running.co \in Coro
      /\ DOMAIN want = Coro /\ \A co \in Coro : want[co] = NoWant
  BY ConcAssumption DEF DInit, Init, ConcAssumption
<1>2. Range(ready) = {} /\ Range(folds) = {}
  BY <1>1 DEF Range
<1>3. QED
  BY <1>1, <1>2 DEF DInv, Answered, Wanting, Counted, Turns

(* The invariant and the scheduler's own, on every behaviour.              *)
THEOREM Delivered == DSpec => [](DInv /\ Crew)
<1>1. DSpec => []Crew /\ []ChanExclusive
  BY DeliveryRefines, Accounted, ChannelQueuesExclusive, PTL
<1>2. QED
  BY <1>1, DeliveryInit, DeliveryStep, PTL DEF DSpec

-----------------------------------------------------------------------------
(* Every coroutine is resumed with the answer to the request it made: the  *)
(* n-th recv on a channel with the n-th value sent on it, an await with    *)
(* the value its own promise was fulfilled with.                           *)
THEOREM RequestsAnswered == DSpec => []AnswersRequest
<1>1. DInv => AnswersRequest
  BY DEF DInv, Answered, Fits, AnswersRequest
<1>2. QED
  BY <1>1, Delivered, PTL

(* A parked receiver waits for a value not sent yet, in the order of       *)
(* parking, and a parked awaiter for a promise still pending.              *)
THEOREM ParkedAwaitTheirTurn == DSpec => []ParkedInTurn
<1>1. DInv => ParkedInTurn
  BY DEF DInv, Turns, RecvTurn, AwaitTurn, ParkedInTurn
<1>2. QED
  BY <1>1, Delivered, PTL

=============================================================================
