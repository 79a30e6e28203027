--------------------------- MODULE ExtractionPool ---------------------------
(***************************************************************************)
(* createHtmlExtractionPool of src/fetch-fusion/local-fetch-primary.ts: a  *)
(* bounded pool of worker threads, a bounded FIFO of jobs, and jobs that   *)
(* are given up on by a timer or an abort signal at any moment.            *)
(*                                                                         *)
(* Every handler of the pool runs to completion. Those that end in         *)
(* dispatch() are two kinds of step: the handler, which sets dispatching,  *)
(* and the iterations of dispatch()'s loop; no event is handled between.   *)
(*                                                                         *)
(* A worker answers each message it gets once (html-extraction-worker.cjs) *)
(* with a result or an error; its thread may fail or exit on its own. The  *)
(* HTML is left out: a job is told by its id.                              *)
(***************************************************************************)
EXTENDS Naturals, Sequences, FiniteSets

CONSTANTS
  Jobs,      \* calls of extract()
  Workers,   \* names for workers; one is used again once its worker is gone
  Size,      \* options.size
  MaxQueue,  \* options.maxQueue
  None

ASSUME ExtractionPoolAssumption ==
  /\ Size \in Nat \ {0}
  /\ MaxQueue \in Nat
  /\ IsFiniteSet(Workers)
  /\ None \notin Jobs \cup Workers

VARIABLES
  job,          \* job.state; "new" before extract() is called
  outcome,      \* what extract()'s promise settled with
  queue,        \* jobs waiting for a worker
  slot,         \* the pool's view of each worker: unused, live or retiring
  active,       \* slot.active
  posted,       \* messages a worker has not answered yet
  dispatching,  \* the handler being run has reached dispatch()
  pool          \* "open", "closing" (close() called), "closed" (it resolved)

vars == <<job, outcome, queue, slot, active, posted, dispatching, pool>>

-----------------------------------------------------------------------------
Slots == {w \in Workers : slot[w] # "unused"}
Idle == {w \in Workers : slot[w] = "live" /\ active[w] = None}

\* Mutant: terminating workers are not counted.
RoomBesideRetiring == Cardinality({w \in Workers : slot[w] = "live"}) < Size

RoomForWorker == Cardinality(Slots) < Size

Outcome == [kind : {"pending", "error", "result"}, of : Jobs \cup {None}]
Pending == [kind |-> "pending", of |-> None]
Failed == [kind |-> "error", of |-> None]
ResultOf(j) == [kind |-> "result", of |-> j]   \* the job whose page it is of

Queued == {queue[i] : i \in 1..Len(queue)}

\* The queue after the one place of j is spliced out.
Without(j) ==
  LET i == CHOOSE k \in 1..Len(queue) : queue[k] = j
  IN SubSeq(queue, 1, i - 1) \o SubSeq(queue, i + 1, Len(queue))

Init ==
  /\ job = [j \in Jobs |-> "new"]
  /\ outcome = [j \in Jobs |-> Pending]
  /\ queue = <<>>
  /\ slot = [w \in Workers |-> "unused"]
  /\ active = [w \in Workers |-> None]
  /\ posted = [w \in Workers |-> {}]
  /\ dispatching = FALSE
  /\ pool = "open"

\* settle(job, outcome)
Settle(js, how) ==
  /\ job' = [j \in Jobs |-> IF j \in js THEN "settled" ELSE job[j]]
  /\ outcome' = [j \in Jobs |->
       IF j \in js /\ job[j] # "settled" THEN how ELSE outcome[j]]

\* dispatch() returns at once when the pool is closed.
Dispatch == dispatching' = (pool = "open")

-----------------------------------------------------------------------------
(* extract() and what may happen to a job *)

HasCapacity == Idle # {} \/ RoomForWorker \/ Len(queue) < MaxQueue

Extract(j) ==
  /\ ~dispatching
  /\ job[j] = "new"
  /\ pool = "open"
  /\ HasCapacity
  /\ job' = [job EXCEPT ![j] = "queued"]
  /\ queue' = Append(queue, j)
  /\ Dispatch
  /\ UNCHANGED <<outcome, slot, active, posted, pool>>

\* The pool is closed, the signal has aborted already, or the queue is full.
ExtractRejected(j, aborted) ==
  /\ ~dispatching
  /\ job[j] = "new"
  /\ pool # "open" \/ aborted \/ ~HasCapacity
  /\ Settle({j}, Failed)
  /\ UNCHANGED <<queue, slot, active, posted, dispatching, pool>>

\* The timer or the abort listener of a queued job.
GiveUpQueued(j) ==
  /\ ~dispatching
  /\ job[j] = "queued"
  /\ queue' = Without(j)
  /\ Settle({j}, Failed)
  /\ UNCHANGED <<slot, active, posted, dispatching, pool>>

Freed(w) == [active EXCEPT ![w] = None]

\* Mutant: the slot of a job given up on is left to its next job.
StaysLive(w) == [slot EXCEPT ![w] = "live"]

Retired(w) == [slot EXCEPT ![w] = "retiring"]

\* The timer or the abort listener of an active job: retireActive().
GiveUpActive(j) ==
  /\ ~dispatching
  /\ job[j] = "active"
  /\ \E w \in Workers :
       /\ active[w] = j
       /\ active' = Freed(w)
       /\ slot' = Retired(w)
  /\ Settle({j}, Failed)
  /\ UNCHANGED <<queue, posted, dispatching, pool>>

-----------------------------------------------------------------------------
(* Events of a worker *)

Awaited(w, j) == slot[w] = "live" /\ active[w] = j

\* Mutant: the message handler settles its job and returns.
LeavesQueue == UNCHANGED dispatching

AfterMessage == Dispatch

Message(w, j, how) ==
  /\ ~dispatching
  /\ j \in posted[w]
  /\ how \in {Failed, ResultOf(j)}
  /\ posted' = [posted EXCEPT ![w] = @ \ {j}]
  /\ IF Awaited(w, j)
     THEN /\ active' = Freed(w)
          /\ Settle({active[w]}, how)
          /\ AfterMessage
     ELSE UNCHANGED <<active, job, outcome, dispatching>>
  /\ UNCHANGED <<queue, slot, pool>>

WorkerError(w) ==
  /\ ~dispatching
  /\ slot[w] = "live"
  /\ Settle({active[w]}, Failed)
  /\ active' = Freed(w)
  /\ slot' = Retired(w)
  /\ UNCHANGED <<queue, posted, dispatching, pool>>

WorkerExit(w) ==
  /\ ~dispatching
  /\ slot[w] = "live"
  /\ Settle({active[w]}, Failed)
  /\ active' = Freed(w)
  /\ slot' = [slot EXCEPT ![w] = "unused"]
  /\ posted' = [posted EXCEPT ![w] = {}]
  /\ Dispatch
  /\ UNCHANGED <<queue, pool>>

\* retireSlot(): worker.terminate() has resolved or rejected.
Terminated(w) ==
  /\ ~dispatching
  /\ slot[w] = "retiring"
  /\ slot' = [slot EXCEPT ![w] = "unused"]
  /\ posted' = [posted EXCEPT ![w] = {}]
  /\ Dispatch
  /\ UNCHANGED <<job, outcome, queue, active, pool>>

-----------------------------------------------------------------------------
(* dispatch(), one iteration at a time *)

\* The head of the queue, if it still waits, goes to an idle worker or a new
\* one. postMessage may throw: the job fails and the worker is retired.
Assign(w, posts) ==
  /\ dispatching
  /\ queue # <<>>
  /\ \/ w \in Idle
     \/ Idle = {} /\ RoomForWorker /\ slot[w] = "unused"
  /\ queue' = Tail(queue)
  /\ IF job[Head(queue)] # "queued"
     THEN /\ slot' = [slot EXCEPT ![w] = "live"]
          /\ UNCHANGED <<job, outcome, active, posted>>
     ELSE IF posts
     THEN /\ job' = [job EXCEPT ![Head(queue)] = "active"]
          /\ active' = [active EXCEPT ![w] = Head(queue)]
          /\ posted' = [posted EXCEPT ![w] = @ \cup {Head(queue)}]
          /\ slot' = [slot EXCEPT ![w] = "live"]
          /\ UNCHANGED outcome
     ELSE /\ Settle({Head(queue)}, Failed)
          /\ slot' = Retired(w)
          /\ UNCHANGED <<active, posted>>
  /\ UNCHANGED <<dispatching, pool>>

\* workerFactory throws: the job at the head fails.
SpawnFails ==
  /\ dispatching
  /\ queue # <<>>
  /\ Idle = {} /\ RoomForWorker
  /\ queue' = Tail(queue)
  /\ Settle({Head(queue)}, Failed)
  /\ UNCHANGED <<slot, active, posted, dispatching, pool>>

DispatchReturns ==
  /\ dispatching
  /\ queue = <<>> \/ (Idle = {} /\ ~RoomForWorker)
  /\ dispatching' = FALSE
  /\ UNCHANGED <<job, outcome, queue, slot, active, posted, pool>>

-----------------------------------------------------------------------------
(* close() *)

\* Mutant: close() forgets the jobs that wait.
ActiveJobs == {active[w] : w \in Workers}

Unsettled == Queued \cup {active[w] : w \in Workers}

Close ==
  /\ ~dispatching
  /\ pool = "open"
  /\ pool' = "closing"
  /\ Settle(Unsettled, Failed)
  /\ queue' = <<>>
  /\ active' = [w \in Workers |-> None]
  /\ slot' = [w \in Workers |-> IF slot[w] = "unused" THEN "unused" ELSE "retiring"]
  /\ UNCHANGED <<posted, dispatching>>

CloseResolves ==
  /\ pool = "closing"
  /\ Slots = {}
  /\ pool' = "closed"
  /\ UNCHANGED <<job, outcome, queue, slot, active, posted, dispatching>>

-----------------------------------------------------------------------------
Answers(w) ==
  \E j \in Jobs : \E how \in {Failed, ResultOf(j)} : Message(w, j, how)

DispatchStep ==
  \/ \E w \in Workers, posts \in BOOLEAN : Assign(w, posts)
  \/ SpawnFails
  \/ DispatchReturns

Next ==
  \/ \E j \in Jobs :
       \/ Extract(j)
       \/ \E aborted \in BOOLEAN : ExtractRejected(j, aborted)
       \/ GiveUpQueued(j) \/ GiveUpActive(j)
  \/ \E w \in Workers :
       Answers(w) \/ WorkerError(w) \/ WorkerExit(w) \/ Terminated(w)
  \/ DispatchStep
  \/ Close \/ CloseResolves

Spec == Init /\ [][Next]_vars

\* Workers answer, terminate() resolves and handlers finish. No timer is
\* counted on: a job must settle without one.
FairSpec ==
  /\ Spec
  /\ WF_vars(DispatchStep) /\ WF_vars(CloseResolves)
  /\ \A w \in Workers : WF_vars(Answers(w)) /\ WF_vars(Terminated(w))

-----------------------------------------------------------------------------
(* Properties *)

\* A job active has a live worker, one queued a place in the queue, no other
\* job either.
OnePlacePerJob ==
  \A j \in Jobs :
    /\ (job[j] = "active") <=> (\E w \in Workers : active[w] = j)
    /\ (job[j] = "queued") <=> (j \in Queued)
    /\ Cardinality({w \in Workers : active[w] = j}) <= 1
    /\ Cardinality({i \in 1..Len(queue) : queue[i] = j}) <= 1

\* Types, and a job is in one place: it never stays active on a worker that was
\* retired under it (local-fetch-primary.ts:208).
TypeOK ==
  /\ job \in [Jobs -> {"new", "queued", "active", "settled"}]
  /\ outcome \in [Jobs -> Outcome]
  /\ queue \in Seq(Jobs)
  /\ slot \in [Workers -> {"unused", "live", "retiring"}]
  /\ active \in [Workers -> Jobs \cup {None}]
  /\ posted \in [Workers -> SUBSET Jobs]
  /\ dispatching \in BOOLEAN
  /\ pool \in {"open", "closing", "closed"}
  /\ \A w \in Workers : active[w] # None => slot[w] = "live"
  /\ OnePlacePerJob

NoNeedlessWait ==
  (~dispatching /\ pool = "open") =>
    /\ queue # <<>> => Idle = {} /\ ~RoomForWorker
    /\ Len(queue) <= MaxQueue

WorkersBounded == Cardinality(Slots) <= Size

\* Never more workers than the pool's size, those being terminated included
\* (local-fetch-primary.ts:136), and never a job that waits while a worker is
\* idle or could be started: each path that frees one comes back to dispatch().
\* That bounds the queue too, although extract() skips its limit when it sees
\* capacity.
CapacityIsUsed == TypeOK /\ WorkersBounded /\ NoNeedlessWait

AnswersOnlyItsJob ==
  /\ \A w \in Workers : slot[w] = "live" =>
       posted[w] = IF active[w] = None THEN {} ELSE {active[w]}
  /\ \A j \in Jobs : outcome[j] \in {Pending, Failed, ResultOf(j)}

CloseLeavesNothing ==
  /\ \A j \in Jobs : (job[j] = "settled") <=> (outcome[j] # Pending)
  /\ pool # "open" => \A j \in Jobs : job[j] \in {"new", "settled"}
  /\ pool = "closed" => Slots = {}

\* A live worker owes an answer for its active job and nothing else, so an
\* answer can only settle the job it is for: a job that was given up on takes
\* its worker with it (local-fetch-primary.ts:204-213). A settled job's promise
\* is settled, and close() resolves only when every job has been settled and
\* every worker is gone (local-fetch-primary.ts:265).
NoStaleAnswer == AnswersOnlyItsJob /\ CloseLeavesNothing

-----------------------------------------------------------------------------
(* The inductive invariant behind both *)

\* A job's state, its place and what its promise settled with go together.
JobsInv ==
  /\ job \in [Jobs -> {"new", "queued", "active", "settled"}]
  /\ outcome \in [Jobs -> Outcome]
  /\ queue \in Seq(Jobs)
  /\ active \in [Workers -> Jobs \cup {None}]
  /\ \A j \in Jobs : job[j] = "active" <=> \E w \in Workers : active[w] = j
  /\ \A j \in Jobs : job[j] = "queued" <=> j \in Queued
  /\ \A i, k \in 1..Len(queue) : queue[i] = queue[k] => i = k
  /\ \A w, v \in Workers : active[w] # None /\ active[w] = active[v] => w = v
  /\ \A j \in Jobs : outcome[j] \in {Pending, Failed, ResultOf(j)}
  /\ \A j \in Jobs : job[j] = "settled" <=> outcome[j] # Pending

\* A live worker owes what it is active on, a name without a worker nothing.
WorkersInv ==
  /\ slot \in [Workers -> {"unused", "live", "retiring"}]
  /\ posted \in [Workers -> SUBSET Jobs]
  /\ \A w \in Workers : active[w] # None => slot[w] = "live"
  /\ \A w \in Workers :
       slot[w] = "live" => posted[w] = IF active[w] = None THEN {} ELSE {active[w]}
  /\ \A w \in Workers : slot[w] = "unused" => posted[w] = {}
  /\ WorkersBounded

\* While dispatch() runs the queue may be one longer than its limit, but only
\* when the job that extract() has just added can leave it at once.
WaitInv ==
  /\ dispatching \in BOOLEAN /\ pool \in {"open", "closing", "closed"}
  /\ dispatching => pool = "open"
  /\ pool # "open" => \A j \in Jobs : job[j] \in {"new", "settled"}
  /\ pool = "closed" => Slots = {}
  /\ NoNeedlessWait
  /\ dispatching => \/ Len(queue) <= MaxQueue
                    \/ Len(queue) = 1 /\ (Idle # {} \/ RoomForWorker)

PoolInv == JobsInv /\ WorkersInv /\ WaitInv
=============================================================================
