----------------------------- MODULE ConcDelivery -----------------------------
(***************************************************************************)
(* ConcSched with a record of what each coroutine is waiting for, so that  *)
(* the value a coroutine is resumed with can be compared with the request  *)
(* it made: the n-th recv on a channel against the n-th send, an await     *)
(* against the promise.  The history variables never restrict a step of    *)
(* ConcSched beyond the bound MaxTraffic.                                  *)
(***************************************************************************)
EXTENDS ConcSched

CONSTANT MaxTraffic  \* bound on the sends to and the recvs from one channel

ASSUME TrafficAssumption == MaxTraffic \in Nat

VARIABLES
  sent,   \* history: values sent, per channel
  asked,  \* history: number of recvs, per channel
  want    \* history: the request each live coroutine is suspended on

dvars == <<vars, sent, asked, want>>

NoWant     == [k |-> "other", id |-> 0, n |-> 0]
WantRecv(i) == [k |-> "recv", id |-> i, n |-> asked[i] + 1]
WantAwait(i) == [k |-> "await", id |-> i, n |-> 0]

Ok == status' = "running"

DInit ==
  /\ Init
  /\ sent = [i \in {} |-> <<>>]
  /\ asked = [i \in {} |-> 0]
  /\ want = [c \in Coro |-> NoWant]

DNewChan ==
  /\ NewChan
  /\ IF Ok THEN /\ sent' = Insert(sent, SupAfterSegment, <<>>)
                /\ asked' = Insert(asked, SupAfterSegment, 0)
           ELSE UNCHANGED <<sent, asked>>
  /\ UNCHANGED want

DSend(i, v) ==
  /\ Send(i, v)
  /\ i \in DOMAIN sent => Len(sent[i]) < MaxTraffic
  /\ sent' = IF Ok THEN [sent EXCEPT ![i] = Append(@, v)] ELSE sent
  /\ UNCHANGED <<asked, want>>

DRecv(i) ==
  /\ Recv(i)
  /\ i \in DOMAIN asked => asked[i] < MaxTraffic
  /\ IF Ok THEN /\ want' = [want EXCEPT ![running.co] = WantRecv(i)]
                /\ asked' = [asked EXCEPT ![i] = @ + 1]
           ELSE UNCHANGED <<want, asked>>
  /\ UNCHANGED sent

DAwait(i) ==
  /\ Await(i)
  /\ want' = IF Ok THEN [want EXCEPT ![running.co] = WantAwait(i)] ELSE want
  /\ UNCHANGED <<sent, asked>>

DResumeNext ==
  /\ ResumeNext
  /\ want' = [want EXCEPT ![running'.co] = NoWant]
  /\ UNCHANGED <<sent, asked>>

DOther ==
  /\ \/ NestedMint
     \/ Yield
     \/ \E c \in Coro : Spawn(c) \/ Async(c)
     \/ CompleteRoot
     \/ CompleteDetached
     \/ \E v \in Sendable : Fulfil(v)
     \/ Return
     \/ Stuck
  /\ UNCHANGED <<sent, asked, want>>

DNext ==
  \/ DNewChan
  \/ \E i \in Known : DAwait(i) \/ DRecv(i) \/ \E v \in Sendable : DSend(i, v)
  \/ DResumeNext
  \/ DOther

DSpec == DInit /\ [][DNext]_dvars

\* As in ConcSched; MaxTraffic never blocks it, a coroutine may always return.
FairDSpec == DSpec /\ WF_dvars(DNext)

-----------------------------------------------------------------------------
(* Every resume value answers the request its coroutine made: the n-th     *)
(* recv on a channel gets the n-th value sent on it, whether it was        *)
(* buffered, handed over or both sides interleaved; an await gets the      *)
(* cached value of its own promise (Sched.hs:134-139,157-180,204-207).     *)
AnswersRequest ==
  \A e \in Range(ready) :
    LET w == want[e.task.co] IN
    /\ w.k = "recv" => /\ w.n <= Len(sent[w.id])
                       /\ e.val = sent[w.id][w.n]
    /\ w.k = "await" => cells[w.id].full /\ e.val = cells[w.id].val
    /\ w.k = "other" => e.val.k \in {"unit", "handle"}

(* Nobody waits for what is already there: a parked receiver's turn has    *)
(* not been sent yet, in order of parking, and a parked awaiter's promise  *)
(* is pending (Sched.hs:137-139,157-163,178-180).                          *)
ParkedInTurn ==
  /\ \A i \in DOMAIN chans : \A n \in DOMAIN chans[i].waiters :
       LET w == want[chans[i].waiters[n].co] IN
       w.k = "recv" /\ w.id = i /\ w.n = Len(sent[i]) + n
  /\ \A i \in DOMAIN cells : \A n \in DOMAIN cells[i].waiters :
       want[cells[i].waiters[n].co] = WantAwait(i) /\ ~cells[i].full
===============================================================================
