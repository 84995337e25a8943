------------------------------ MODULE ConcSched ------------------------------
(***************************************************************************)
(* One run of the cooperative scheduler behind runConc: driveConc of       *)
(* src/Wok/Interp/Sched.hs.  The machine resumes one coroutine, runs it to *)
(* its next Step, folds that Step into the scheduler state (processStep)   *)
(* and takes the next entry of the FIFO ready queue (loop).                *)
(*                                                                         *)
(* A segment of a coroutine is one stay in "running"; how it ends is the   *)
(* program's choice, so each request is an action.  spawn and async start  *)
(* the child before the caller is enqueued: processStep recurses into the  *)
(* child's first Step, and the callers waiting on that recursion are the   *)
(* sequence "folds", innermost first.  Runs of other schedulers nested in  *)
(* a segment show only through the ids they consume (NestedMint); ConcNest *)
(* models them as schedulers of their own.                                 *)
(***************************************************************************)
EXTENDS Integers, Sequences, FiniteSets, Functions

CONSTANTS
  Coro,         \* coroutine identities: root and the children it may have alive
  RootCo,       \* the coroutine driveConc is given
  Payload,      \* plain values programs send and return
  Sup0,         \* the supply driveConc is entered with
  RegionBound,  \* idRegionBound: ids of one interpreter entry
  MaxBuf        \* bound on the values buffered in one channel

ASSUME ConcAssumption ==
  /\ RootCo \in Coro
  /\ Payload # {}
  /\ Sup0 \in Nat
  /\ RegionBound \in Nat \ {0}
  /\ MaxBuf \in Nat

VARIABLES
  nextId,   \* schNextId: the next handle id
  ready,    \* schReady: FIFO of tasks with the value each is resumed with
  cells,    \* schCells: promise id -> cell
  chans,    \* schChans: channel id -> buffer and parked receivers
  result,   \* schResult: has the root completed
  running,  \* the task whose segment runs, or NoTask
  folds,    \* callers to enqueue once the child's first Step is folded
  sup,      \* the IdSupply threaded through the running segment
  live,     \* coroutines started and not completed
  foreign,  \* ids minted by other schedulers
  status    \* "running", "returned", or the error the drive ended with

vars == <<nextId, ready, cells, chans, result, running, folds, sup, live,
          foreign, status>>

-----------------------------------------------------------------------------
(* Values that cross the scheduler, and who owns a coroutine's result.     *)

Unit     == [k |-> "unit", v |-> 0]
Plain(p) == [k |-> "plain", v |-> p]
Handle(i) == [k |-> "handle", v |-> i]
Carrier  == [k |-> "cont", v |-> 0]

Sendable == {Plain(p) : p \in Payload} \cup {Carrier}
Value    == [k : {"unit", "plain", "handle", "cont"}, v : Nat \cup Payload]

containsCont(v) == v.k = "cont"

Root         == [k |-> "root", p |-> 0]
Detached     == [k |-> "detached", p |-> 0]
Fulfils(pid) == [k |-> "fulfils", p |-> pid]
Owner        == [k : {"root", "detached", "fulfils"}, p : Nat]

Task   == [co : Coro, owner : Owner]
NoTask == [co |-> RootCo, owner |-> [k |-> "none", p |-> 0]]
Entry  == [task : Task, val : Value]

Status == {"running", "returned", "deadlock", "drained", "ids exhausted",
           "promise not owned", "channel not owned", "carrier in Chan",
           "carrier in Promise", "unknown promise", "fulfilled twice"}

Cell == [full : BOOLEAN, val : Value, waiters : Seq(Task)]
Chan == [buf : Seq(Value), waiters : Seq(Task)]

EmptyCell == [full |-> FALSE, val |-> Unit, waiters |-> <<>>]
EmptyChan == [buf |-> <<>>, waiters |-> <<>>]

\* Map.insert
Insert(m, i, x) == [j \in DOMAIN m \cup {i} |-> IF j = i THEN x ELSE m[j]]

Resume(t, v) == [task |-> t, val |-> v]

\* Mutants: a wake-up that forgets the resume value; one that loses the last
\* awaiter parked.
MutWokenBare(ws, v) == ws
MutWokenShort(ws, v) == [i \in 1..(Len(ws) - 1) |-> Resume(ws[i], v)]
Woken(ws, v) == [i \in 1..Len(ws) |-> Resume(ws[i], v)]

-----------------------------------------------------------------------------
Segment == status = "running" /\ running # NoTask

\* Mutant: the supply a nested drive returned is dropped.
MutSupNotWrittenBack == nextId

\* Folding a Step writes the segment's supply back.
SupAfterSegment == sup

\* mint refuses to wrap into the next region.
CanMint(i) == (i + 1) % RegionBound # 0

\* Mutant: the callers below a spawn are not enqueued.
MutSettleNoCallers(r) ==
  /\ ready' = r
  /\ folds' = <<>>
  /\ running' = NoTask

\* The Step of the running segment leaves ready queue r; every caller waiting
\* in the recursion of processStep is then enqueued, innermost first.
Settle(r) ==
  /\ ready' = r \o folds
  /\ folds' = <<>>
  /\ running' = NoTask

Fail(err) ==
  /\ status' = err
  /\ UNCHANGED <<nextId, ready, cells, chans, result, running, folds, sup,
                 live, foreign>>

-----------------------------------------------------------------------------
(* A runConc nested in the running segment mints an id of its own and      *)
(* returns the advanced supply.                                            *)
NestedMint ==
  /\ Segment
  /\ IF CanMint(sup)
     THEN /\ sup' = sup + 1
          /\ foreign' = foreign \cup {sup}
          /\ UNCHANGED <<nextId, ready, cells, chans, result, running, folds,
                         live, status>>
     ELSE Fail("ids exhausted")

\* Mutant: a yielding coroutine goes to the front of the queue.
MutYieldFront ==
  /\ Segment
  /\ Settle(<<Resume(running, Unit)>> \o ready)
  /\ nextId' = SupAfterSegment
  /\ UNCHANGED <<cells, chans, result, sup, live, foreign, status>>

Yield ==
  /\ Segment
  /\ Settle(Append(ready, Resume(running, Unit)))
  /\ nextId' = SupAfterSegment
  /\ UNCHANGED <<cells, chans, result, sup, live, foreign, status>>

\* Mutant: the child forgets which promise it fulfils.
MutStartChildDetached(c, o, i) ==
  /\ running' = [co |-> c, owner |-> Detached]
  /\ folds' = <<Resume(running, Handle(i))>> \o folds
  /\ live' = live \cup {c}
  /\ nextId' = i + 1
  /\ sup' = i + 1

\* Start child c under owner o with id i minted: its first segment runs before
\* the caller is enqueued with the new handle.
StartChild(c, o, i) ==
  /\ running' = [co |-> c, owner |-> o]
  /\ folds' = <<Resume(running, Handle(i))>> \o folds
  /\ live' = live \cup {c}
  /\ nextId' = i + 1
  /\ sup' = i + 1

Spawn(c) ==
  /\ Segment
  /\ c \in Coro \ live
  /\ LET i == SupAfterSegment IN
     IF CanMint(i)
     THEN /\ StartChild(c, Detached, i)
          /\ UNCHANGED <<ready, cells, chans, result, foreign, status>>
     ELSE Fail("ids exhausted")

Async(c) ==
  /\ Segment
  /\ c \in Coro \ live
  /\ LET i == SupAfterSegment IN
     IF CanMint(i)
     THEN /\ cells' = Insert(cells, i, EmptyCell)
          /\ StartChild(c, Fulfils(i), i)
          /\ UNCHANGED <<ready, chans, result, foreign, status>>
     ELSE Fail("ids exhausted")

\* Mutant: an awaiter parks without looking whether the promise is full.
MutAwaitAlwaysParks(pid) ==
  /\ Segment
  /\ pid \in DOMAIN cells
  /\ cells' = Insert(cells, pid,
                     [cells[pid] EXCEPT !.waiters = Append(@, running)])
  /\ Settle(ready)
  /\ nextId' = SupAfterSegment
  /\ UNCHANGED <<chans, result, sup, live, foreign, status>>

Await(pid) ==
  /\ Segment
  /\ IF pid \notin DOMAIN cells
     THEN Fail("promise not owned")
     ELSE /\ \/ /\ cells[pid].full
                /\ Settle(Append(ready, Resume(running, cells[pid].val)))
                /\ UNCHANGED cells
             \/ /\ ~cells[pid].full
                /\ cells' = Insert(cells, pid,
                      [cells[pid] EXCEPT !.waiters = Append(@, running)])
                /\ Settle(ready)
          /\ nextId' = SupAfterSegment
          /\ UNCHANGED <<chans, result, sup, live, foreign, status>>

NewChan ==
  /\ Segment
  /\ LET i == SupAfterSegment IN
     IF CanMint(i)
     THEN /\ chans' = Insert(chans, i, EmptyChan)
          /\ Settle(Append(ready, Resume(running, Handle(i))))
          /\ nextId' = i + 1
          /\ UNCHANGED <<cells, result, sup, live, foreign, status>>
     ELSE Fail("ids exhausted")

\* Mutant: a sent value is buffered even when a receiver is parked.
MutSendAlwaysBuffers(cid, v) ==
  /\ Segment
  /\ cid \in DOMAIN chans
  /\ Len(chans[cid].buf) < MaxBuf
  /\ ~containsCont(v)
  /\ chans' = Insert(chans, cid, [chans[cid] EXCEPT !.buf = Append(@, v)])
  /\ Settle(Append(ready, Resume(running, Unit)))
  /\ nextId' = SupAfterSegment
  /\ UNCHANGED <<cells, result, sup, live, foreign, status>>

\* Mutant: the value is handed to the receiver that parked last.
MutSendWakesNewest(cid, v) ==
  /\ Segment
  /\ cid \in DOMAIN chans
  /\ ~containsCont(v)
  /\ LET ch == chans[cid]
         ws == ch.waiters IN
     \/ /\ ws # <<>>
        /\ chans' = Insert(chans, cid, [ch EXCEPT
                             !.waiters = SubSeq(ws, 1, Len(ws) - 1)])
        /\ Settle(ready \o <<Resume(ws[Len(ws)], v), Resume(running, Unit)>>)
     \/ /\ ws = <<>>
        /\ Len(ch.buf) < MaxBuf
        /\ chans' = Insert(chans, cid, [ch EXCEPT !.buf = Append(@, v)])
        /\ Settle(Append(ready, Resume(running, Unit)))
  /\ nextId' = SupAfterSegment
  /\ UNCHANGED <<cells, result, sup, live, foreign, status>>

\* The carrier check precedes the ownership lookup.
Send(cid, v) ==
  /\ Segment
  /\ cid \in DOMAIN chans => Len(chans[cid].buf) < MaxBuf
  /\ IF containsCont(v) THEN Fail("carrier in Chan")
     ELSE IF cid \notin DOMAIN chans THEN Fail("channel not owned")
     ELSE LET ch == chans[cid] IN
          /\ \/ /\ ch.waiters # <<>>
                /\ chans' = Insert(chans, cid,
                                   [ch EXCEPT !.waiters = Tail(@)])
                /\ Settle(ready \o <<Resume(Head(ch.waiters), v),
                                     Resume(running, Unit)>>)
             \/ /\ ch.waiters = <<>>
                /\ chans' = Insert(chans, cid,
                                   [ch EXCEPT !.buf = Append(@, v)])
                /\ Settle(Append(ready, Resume(running, Unit)))
          /\ nextId' = SupAfterSegment
          /\ UNCHANGED <<cells, result, sup, live, foreign, status>>

\* Mutant: a receiver takes the value buffered last.
MutRecvNewest(cid) ==
  /\ Segment
  /\ cid \in DOMAIN chans
  /\ LET ch == chans[cid]
         last == Len(ch.buf) IN
     \/ /\ ch.buf # <<>>
        /\ chans' = Insert(chans, cid, [ch EXCEPT !.buf = SubSeq(@, 1, last - 1)])
        /\ Settle(Append(ready, Resume(running, ch.buf[last])))
     \/ /\ ch.buf = <<>>
        /\ chans' = Insert(chans, cid, [ch EXCEPT !.waiters = Append(@, running)])
        /\ Settle(ready)
  /\ nextId' = SupAfterSegment
  /\ UNCHANGED <<cells, result, sup, live, foreign, status>>

Recv(cid) ==
  /\ Segment
  /\ IF cid \notin DOMAIN chans THEN Fail("channel not owned")
     ELSE LET ch == chans[cid] IN
          /\ \/ /\ ch.buf # <<>>
                /\ chans' = Insert(chans, cid, [ch EXCEPT !.buf = Tail(@)])
                /\ Settle(Append(ready, Resume(running, Head(ch.buf))))
             \/ /\ ch.buf = <<>>
                /\ chans' = Insert(chans, cid,
                      [ch EXCEPT !.waiters = Append(@, running)])
                /\ Settle(ready)
          /\ nextId' = SupAfterSegment
          /\ UNCHANGED <<cells, result, sup, live, foreign, status>>

CompleteRoot ==
  /\ Segment
  /\ running.owner = Root
  /\ result' = TRUE
  /\ live' = live \ {running.co}
  /\ Settle(ready)
  /\ nextId' = SupAfterSegment
  /\ UNCHANGED <<cells, chans, sup, foreign, status>>

CompleteDetached ==
  /\ Segment
  /\ running.owner = Detached
  /\ live' = live \ {running.co}
  /\ Settle(ready)
  /\ nextId' = SupAfterSegment
  /\ UNCHANGED <<cells, chans, result, sup, foreign, status>>

\* Mutant: the completed value is cached without the carrier check.
MutFulfilUnchecked(v) ==
  /\ Segment
  /\ running.owner.k = "fulfils"
  /\ LET pid == running.owner.p IN
     /\ cells' = Insert(cells, pid,
                        [full |-> TRUE, val |-> v, waiters |-> <<>>])
     /\ Settle(ready \o Woken(cells[pid].waiters, v))
  /\ live' = live \ {running.co}
  /\ nextId' = SupAfterSegment
  /\ UNCHANGED <<chans, result, sup, foreign, status>>

\* The completed value is cached in the cell and every parked awaiter becomes
\* ready, in the order they parked.
Fulfil(v) ==
  /\ Segment
  /\ running.owner.k = "fulfils"
  /\ LET pid == running.owner.p IN
     IF containsCont(v) THEN Fail("carrier in Promise")
     ELSE IF pid \notin DOMAIN cells THEN Fail("unknown promise")
     ELSE IF cells[pid].full THEN Fail("fulfilled twice")
     ELSE /\ cells' = Insert(cells, pid,
                             [full |-> TRUE, val |-> v, waiters |-> <<>>])
          /\ Settle(ready \o Woken(cells[pid].waiters, v))
          /\ live' = live \ {running.co}
          /\ nextId' = SupAfterSegment
          /\ UNCHANGED <<chans, result, sup, foreign, status>>

-----------------------------------------------------------------------------
(* loop: between segments.                                                 *)

pending == \E i \in DOMAIN cells : ~cells[i].full
blocked == \E i \in DOMAIN chans : chans[i].waiters # <<>>

Idle == status = "running" /\ running = NoTask

Return ==
  /\ Idle
  /\ result
  /\ status' = "returned"
  /\ UNCHANGED <<nextId, ready, cells, chans, result, running, folds, sup,
                 live, foreign>>

Stuck ==
  /\ Idle
  /\ ~result
  /\ ready = <<>>
  /\ IF pending \/ blocked THEN Fail("deadlock") ELSE Fail("drained")

ResumeNext ==
  /\ Idle
  /\ ~result
  /\ ready # <<>>
  /\ running' = Head(ready).task
  /\ ready' = Tail(ready)
  /\ sup' = nextId
  /\ UNCHANGED <<nextId, cells, chans, result, folds, live, foreign, status>>

\* startCoro on the root starter: the first segment runs before the loop.
Init ==
  /\ nextId = Sup0
  /\ ready = <<>>
  /\ cells = [i \in {} |-> EmptyCell]
  /\ chans = [i \in {} |-> EmptyChan]
  /\ result = FALSE
  /\ running = [co |-> RootCo, owner |-> Root]
  /\ folds = <<>>
  /\ sup = Sup0
  /\ live = {RootCo}
  /\ foreign = 0..(Sup0 - 1)
  /\ status = "running"

\* A program can present any id it was ever handed.
Known == DOMAIN cells \cup DOMAIN chans \cup foreign

Next ==
  \/ NestedMint
  \/ Yield
  \/ \E c \in Coro : Spawn(c) \/ Async(c)
  \/ NewChan
  \/ \E i \in Known : Await(i) \/ Recv(i) \/ \E v \in Sendable : Send(i, v)
  \/ CompleteRoot
  \/ CompleteDetached
  \/ \E v \in Sendable : Fulfil(v)
  \/ Return
  \/ Stuck
  \/ ResumeNext

Spec == Init /\ [][Next]_vars

\* A segment is ordinary evaluation, assumed to reach its Step; the loop is a
\* tail call that never waits.
FairSpec == Spec /\ WF_vars(Next)

-----------------------------------------------------------------------------
(* Where a coroutine is: its carrier is one shot, so it must be exactly    *)
(* one of running, waiting on a child's first Step, ready, or parked.      *)

ReadyAt(co)  == {<<"ready", 0, n>> : n \in {n \in 1..Len(ready) :
                                             ready[n].task.co = co}}
FoldAt(co)   == {<<"fold", 0, n>> : n \in {n \in 1..Len(folds) :
                                             folds[n].task.co = co}}
AwaitAt(co)  == UNION {{<<"cell", i, n>> : n \in
                  {n \in 1..Len(cells[i].waiters) :
                     cells[i].waiters[n].co = co}} : i \in DOMAIN cells}
RecvAt(co)   == UNION {{<<"chan", i, n>> : n \in
                  {n \in 1..Len(chans[i].waiters) :
                     chans[i].waiters[n].co = co}} : i \in DOMAIN chans}
RunningAt(co) == IF running # NoTask /\ running.co = co
                 THEN {<<"running", 0, 0>>} ELSE {}

Places(co) == ReadyAt(co) \cup FoldAt(co) \cup AwaitAt(co) \cup RecvAt(co)
                          \cup RunningAt(co)

Parked   == (UNION {Range(cells[i].waiters) : i \in DOMAIN cells})
              \cup (UNION {Range(chans[i].waiters) : i \in DOMAIN chans})
LiveTasks == {e.task : e \in Range(ready) \cup Range(folds)} \cup Parked
               \cup ({running} \ {NoTask})

-----------------------------------------------------------------------------
(* The state has the shape of the Sched record and of the local state of   *)
(* processStep and loop.                                                   *)
TypeOK ==
  /\ nextId \in Nat
  /\ ready \in Seq(Entry)
  /\ DOMAIN cells \subseteq Nat /\ cells \in [DOMAIN cells -> Cell]
  /\ DOMAIN chans \subseteq Nat /\ chans \in [DOMAIN chans -> Chan]
  /\ result \in BOOLEAN
  /\ running \in Task \cup {NoTask}
  /\ folds \in Seq(Entry)
  /\ sup \in Nat
  /\ live \subseteq Coro
  /\ foreign \subseteq Nat
  /\ status \in Status

(* No lost wakeup and no double resume: a coroutine that has started and   *)
(* not completed is in exactly one place of the scheduler, and a completed *)
(* one in none, so no continuation is ever entered twice (Sched.hs:99-140, *)
(* 155-180, 202-207, 230-234).                                             *)
OnePlace ==
  \A co \in Coro : Cardinality(Places(co)) = IF co \in live THEN 1 ELSE 0

(* "At most one of the two queues is non-empty at any time"                *)
(* (Sched.hs:255-259): a value never sits in a channel beside a receiver   *)
(* parked on it.                                                           *)
ChanExclusive ==
  \A i \in DOMAIN chans : chans[i].buf = <<>> \/ chans[i].waiters = <<>>

(* Each pending promise has exactly one live coroutine that will fulfil    *)
(* it, a fulfilled one has none, and exactly one live coroutine is the     *)
(* root until the result is set.                                           *)
OneProducer ==
  /\ \A i \in DOMAIN cells :
       Cardinality({t \in LiveTasks : t.owner = Fulfils(i)})
         = IF cells[i].full THEN 0 ELSE 1
  /\ Cardinality({t \in LiveTasks : t.owner = Root}) = IF result THEN 0 ELSE 1

(* The three errors driveConc calls internal ("promise fulfilled twice",   *)
(* "fulfil on unknown promise", "ready queue drained before root           *)
(* completed", Sched.hs:208-211,229) are unreachable whatever programs do, *)
(* and so is every state that leads to one of them.                        *)
NoInternalError ==
  /\ OneProducer
  /\ status \notin {"fulfilled twice", "unknown promise", "drained"}

(* The ids this scheduler minted are distinct from each other across the   *)
(* maps and from every id another scheduler minted, so a foreign handle    *)
(* misses the maps instead of aliasing a local promise or channel (the id  *)
(* supply contract, Sched.hs:50-53).                                       *)
HandlesOwn ==
  /\ DOMAIN cells \cap DOMAIN chans = {}
  /\ (DOMAIN cells \cup DOMAIN chans) \cap foreign = {}

(* A deadlock is only reported when it is one: the root is parked, and the *)
(* producer of every pending promise is itself parked (Sched.hs:224-229).  *)
DeadlockIsReal ==
  status = "deadlock" =>
    /\ \E t \in Parked : t.owner = Root
    /\ \A i \in DOMAIN cells : ~cells[i].full =>
         \E t \in Parked : t.owner = Fulfils(i)

(* A promise is fulfilled once and its value cached: a full cell never     *)
(* changes, disappears or collects an awaiter (Sched.hs:133-139,203-207).  *)
CacheStable ==
  [][\A i \in DOMAIN cells :
       cells[i].full => i \in DOMAIN cells' /\ cells'[i] = cells[i]]_vars

(* A carrier never waits in a cell, in a buffer or as a resume value: the  *)
(* scheduler would hand it to several awaiters or to a receiver beside its *)
(* owner (Sched.hs:150-154,198-201).                                       *)
NoCarrierCrosses ==
  /\ \A i \in DOMAIN cells : ~containsCont(cells[i].val)
  /\ \A i \in DOMAIN chans : \A v \in Range(chans[i].buf) : ~containsCont(v)
  /\ \A e \in Range(ready) : ~containsCont(e.val)

(* Round robin starves nobody: a ready coroutine is eventually resumed, or *)
(* the drive ends (Sched.hs:213-234).                                      *)
ReadyRuns ==
  \A co \in Coro :
    (ReadyAt(co) # {}) ~> (RunningAt(co) # {} \/ status # "running")
==============================================================================
