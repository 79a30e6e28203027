----------------------------- MODULE RunManager -----------------------------
(***************************************************************************)
(* ResearchRunManager of src/app/run-manager.ts as the HTTP service runs   *)
(* it (src/adapters/http/start.ts: an output directory and an evidence     *)
(* directory are always configured, hydrate() is awaited before listen).   *)
(*                                                                         *)
(* One JavaScript process: code between two awaits is one action. The      *)
(* awaits of execute() are the phases of a run; the promise chain of       *)
(* persist() is a FIFO queue of snapshots taken when persist() is called.  *)
(* A crash loses everything but disk and report.                           *)
(*                                                                         *)
(* Left out: timestamps, payloads, the task and the result (a run's        *)
(* outcome is the only part of the result the manager branches on), and    *)
(* the content of the report except the status it was built with.          *)
(***************************************************************************)
EXTENDS Naturals, Sequences, FiniteSets

CONSTANTS
  RunIds,          \* the run_<uuid> names
  MaxRuns,         \* constructor argument maxRuns (100 in start.ts)
  MaxAgentEvents,  \* bound: agent events emitted per run
  MaxCrashes       \* bound: crashes of the process

ASSUME RunManagerAssumption ==
  /\ MaxRuns \in Nat \ {0}
  /\ MaxAgentEvents \in Nat
  /\ MaxCrashes \in Nat

VARIABLES
  mode,       \* "up" serving, "hydrating" before listen, "down" no process
  run,        \* this.runs: the ResearchRun of each id, NoRun when the map has none
  exec,       \* the locals of execute(run): phase, terminalStatus, deadline signal
  queue,      \* this.persistence: the snapshots still to be written, oldest first
  disk,       \* <outputDir>/<runId>/run.json
  report,     \* the status in <outputDir>/<runId>/report/report.json
  issued,     \* ids given out: a random UUID is never given out twice
  unread,     \* hydrate(): the directory entries still to be read
  crashes     \* number of crashes so far

vars == <<mode, run, exec, queue, disk, report, issued, unread, crashes>>

-----------------------------------------------------------------------------
(* Data *)

Terminal == {"completed", "interrupted", "failed", "cancelled"}
Unfinished == {"queued", "running", "cancelling"}
RunStatus == Terminal \cup Unfinished

EventType ==
  {"run.queued", "run.started", "run.cancellation_requested", "agent.event",
   "evidence.write_error", "report.completed", "report.failed",
   "run.completed", "run.interrupted", "run.failed", "run.cancelled"}

TerminalEvent(status) ==
  CASE status = "completed" -> "run.completed"
    [] status = "interrupted" -> "run.interrupted"
    [] status = "failed" -> "run.failed"
    [] OTHER -> "run.cancelled"

ResearchRun ==
  [status : RunStatus \cup {"absent"},
   cancelRequested : BOOLEAN,      \* cancellationRequestedAt is set
   settled : BOOLEAN,              \* settledAt is set
   error : {"none", "RUN_FAILED", "SERVICE_RESTARTED"},
   persistenceError : BOOLEAN,
   reportStatus : {"none", "pending", "completed", "failed"},
   events : Seq(EventType)]        \* the sequence number is the index

NoRun ==
  [status |-> "absent", cancelRequested |-> FALSE, settled |-> FALSE,
   error |-> "none", persistenceError |-> FALSE, reportStatus |-> "none",
   events |-> <<>>]

Phase == {"none", "agent", "flush", "report", "settle"}
Execution ==
  [phase : Phase, terminal : Terminal \cup {"undecided"}, aborted : BOOLEAN]
NotExecuting == [phase |-> "none", terminal |-> "undecided", aborted |-> FALSE]

\* Who awaits the write: nobody (emit), settleRun, or hydrate.
Snapshot == [by : {"emit", "settle", "hydrate"}, run : ResearchRun]

Present(r) == run[r].status # "absent"
Runs == {r \in RunIds : Present(r)}

\* Mutant: this.settling is not looked at.
SettledOnly(r) == run[r].settled

\* run.settledAt || this.settling.has(run.runId): no more events, no cancel
Closed(r) == run[r].settled \/ exec[r].phase = "settle"

-----------------------------------------------------------------------------
(* emit() and persist() *)

WithEvent(x, type) == [x EXCEPT !.events = Append(@, type)]

Snap(by, x) == [by |-> by, run |-> x]

\* emit(run, type, payload) when x is the run as changed so far: drops the
\* event of a run that has settled or is settling, otherwise appends it and
\* queues a snapshot of the whole run.
Emit(r, x, type) ==
  IF Closed(r)
  THEN /\ run' = [run EXCEPT ![r] = x]
       /\ UNCHANGED queue
  ELSE /\ run' = [run EXCEPT ![r] = WithEvent(x, type)]
       /\ queue' = [queue EXCEPT ![r] = Append(@, Snap("emit", WithEvent(x, type)))]

-----------------------------------------------------------------------------
(* start(), cancel() *)

QueuedRun == [NoRun EXCEPT !.status = "queued", !.reportStatus = "pending",
                           !.events = <<"run.queued">>]
StartedRun == [QueuedRun EXCEPT !.status = "running",
                                !.events = <<"run.queued", "run.started">>]

\* pruneFinishedRuns(), called only when the map is full
Kept == IF Cardinality(Runs) >= MaxRuns
        THEN {r \in Runs : ~run[r].settled}
        ELSE Runs

Pruned == [r \in RunIds |-> IF r \in Kept THEN run[r] ELSE NoRun]

\* Mutant: the cap is off by one.
RoomForOneTooMany == Cardinality(Kept) <= MaxRuns

HasRoom == Cardinality(Kept) < MaxRuns

\* start() up to the first await of execute(): "queued" is only ever seen in
\* the first snapshot.
Start(r) ==
  /\ mode = "up"
  /\ r \notin issued
  /\ HasRoom
  /\ issued' = issued \cup {r}
  /\ run' = [Pruned EXCEPT ![r] = StartedRun]
  /\ exec' = [exec EXCEPT ![r] = [NotExecuting EXCEPT !.phase = "agent"]]
  /\ queue' = [queue EXCEPT ![r] = <<Snap("emit", QueuedRun), Snap("emit", StartedRun)>>]
  /\ UNCHANGED <<mode, disk, report, unread, crashes>>

\* start() that throws RUN_CAPACITY_EXCEEDED has pruned all the same.
StartRejected ==
  /\ mode = "up"
  /\ ~HasRoom
  /\ run' = Pruned
  /\ UNCHANGED <<mode, exec, queue, disk, report, issued, unread, crashes>>

\* Mutant: the signal the agent was given is not connected.
SignalLost(r) == UNCHANGED exec

\* the controller of the run, or its deadline, aborts the agent's signal
SignalAborts(r) == exec' = [exec EXCEPT ![r].aborted = TRUE]

Cancel(r) ==
  /\ mode = "up"
  /\ Present(r)
  /\ ~Closed(r)
  /\ run[r].status # "cancelling"
  /\ SignalAborts(r)
  /\ Emit(r, [run[r] EXCEPT !.status = "cancelling", !.cancelRequested = TRUE],
          "run.cancellation_requested")
  /\ UNCHANGED <<mode, disk, report, issued, unread, crashes>>

-----------------------------------------------------------------------------
(* execute() *)

CancellationRequested(r) == run[r].status = "cancelling"

\* createResearchDeadline: the timer aborts the signal the agent was given.
DeadlineFires(r) ==
  /\ mode = "up"
  /\ exec[r].phase # "none"
  /\ ~exec[r].aborted
  /\ SignalAborts(r)
  /\ UNCHANGED <<mode, run, queue, disk, report, issued, unread, crashes>>

\* onEvent is a callback: nothing but emit() itself stops a call that comes
\* after runAgent returned.
AgentEvent(r) ==
  /\ mode = "up"
  /\ Present(r)
  /\ Len(SelectSeq(run[r].events, LAMBDA t : t = "agent.event")) < MaxAgentEvents
  /\ Emit(r, run[r], "agent.event")
  /\ UNCHANGED <<mode, exec, disk, report, issued, unread, crashes>>

TerminalStatus(r, outcome) ==
  IF CancellationRequested(r) THEN "cancelled"
  ELSE IF outcome = "throws" THEN "failed" ELSE outcome

\* Mutant: execute() keeps the status it decided on before its last awaits.
AsDecided(r) == exec[r].terminal

\* lines 157 and 159: the cancellation is looked at again after each await
Reconsidered(r) == IF CancellationRequested(r) THEN "cancelled" ELSE exec[r].terminal

\* runAgent resolves with a status or throws; either way the flush of the
\* evidence store begins.
AgentReturns(r, outcome) ==
  /\ mode = "up"
  /\ exec[r].phase = "agent"
  /\ exec' = [exec EXCEPT ![r].phase = "flush",
                          ![r].terminal = TerminalStatus(r, outcome)]
  /\ run' = [run EXCEPT
       ![r].error = IF outcome = "throws" /\ ~CancellationRequested(r)
                    THEN "RUN_FAILED" ELSE @]
  /\ UNCHANGED <<mode, queue, disk, report, issued, unread, crashes>>

\* the report is built with the status as it stands after the flush
Flushed(r, ok) ==
  /\ mode = "up"
  /\ exec[r].phase = "flush"
  /\ exec' = [exec EXCEPT ![r].phase = "report",
                          ![r].terminal = Reconsidered(r)]
  /\ IF ok THEN UNCHANGED <<run, queue>>
           ELSE Emit(r, run[r], "evidence.write_error")
  /\ UNCHANGED <<mode, disk, report, issued, unread, crashes>>

\* the copy settleRun persists
SettledRun(x, status) ==
  [x EXCEPT !.status = status,
            !.settled = TRUE,
            !.error = IF status = "failed" THEN @ ELSE "none",
            !.persistenceError = FALSE,
            !.events = Append(@, TerminalEvent(status))]

\* Mutant: the report is written in place, and a failed write leaves it.
ReportInPlace(r, ok) == report' = [report EXCEPT ![r] = exec[r].terminal]

\* the report directory is renamed into place once it is complete
ReportWritten(r, ok) ==
  report' = IF ok THEN [report EXCEPT ![r] = exec[r].terminal] ELSE report

\* writeRunReport finishes, the cancellation is looked at once more, and
\* settleRun runs up to its await.
Reported(r, ok) ==
  LET x == [run[r] EXCEPT !.reportStatus = IF ok THEN "completed" ELSE "failed",
                          !.events = Append(@, IF ok THEN "report.completed" ELSE "report.failed")]
      status == Reconsidered(r)
  IN /\ mode = "up"
     /\ exec[r].phase = "report"
     /\ ReportWritten(r, ok)
     /\ run' = [run EXCEPT ![r] = x]
     /\ exec' = [exec EXCEPT ![r].phase = "settle", ![r].terminal = status]
     /\ queue' = [queue EXCEPT ![r] =
                    @ \o <<Snap("emit", x), Snap("settle", SettledRun(x, status))>>]
     /\ UNCHANGED <<mode, disk, issued, unread, crashes>>

-----------------------------------------------------------------------------
(* The persistence chain *)

\* temp file and rename: run.json is replaced as a whole or not at all.
Written(r, ok) ==
  disk' = IF ok THEN [disk EXCEPT ![r] = Head(queue[r]).run] ELSE disk

EmitWritten(r, ok) ==
  /\ mode = "up"
  /\ queue[r] # <<>>
  /\ Head(queue[r]).by = "emit"
  /\ Written(r, ok)
  /\ queue' = [queue EXCEPT ![r] = Tail(@)]
  /\ run' = IF ok THEN run ELSE [run EXCEPT ![r].persistenceError = TRUE]
  /\ UNCHANGED <<mode, exec, report, issued, unread, crashes>>

\* Mutant: settleRun does not tell that its write failed.
SettledSilently(x, ok) == x

SettledInMemory(x, ok) == [x EXCEPT !.persistenceError = ~ok]

\* settleRun after its await, and the finally block of execute()
SettleWritten(r, ok) ==
  /\ mode = "up"
  /\ queue[r] # <<>>
  /\ Head(queue[r]).by = "settle"
  /\ Written(r, ok)
  /\ queue' = [queue EXCEPT ![r] = Tail(@)]
  /\ run' = [run EXCEPT ![r] = SettledInMemory(Head(queue[r]).run, ok)]
  /\ exec' = [exec EXCEPT ![r] = NotExecuting]
  /\ UNCHANGED <<mode, report, issued, unread, crashes>>

-----------------------------------------------------------------------------
(* Crash, restart and hydrate() *)

MemoryLost ==
  /\ run' = [r \in RunIds |-> NoRun]
  /\ exec' = [r \in RunIds |-> NotExecuting]
  /\ queue' = [r \in RunIds |-> <<>>]
  /\ unread' = {}

Crash ==
  /\ mode # "down"
  /\ crashes < MaxCrashes
  /\ mode' = "down"
  /\ crashes' = crashes + 1
  /\ MemoryLost
  /\ UNCHANGED <<disk, report, issued>>

OnDisk == {r \in RunIds : disk[r].status # "absent"}

Restart ==
  /\ mode = "down"
  /\ mode' = "hydrating"
  /\ unread' = OnDisk
  /\ UNCHANGED <<run, exec, queue, disk, report, issued, crashes>>

HydrateIdle == mode = "hydrating" /\ \A r \in RunIds : queue[r] = <<>>

\* a run that reached its outcome is loaded as it was
HydrateFinished(r) ==
  /\ HydrateIdle
  /\ r \in unread
  /\ disk[r].status \notin Unfinished
  /\ run' = [run EXCEPT ![r] = disk[r]]
  /\ unread' = unread \ {r}
  /\ UNCHANGED <<mode, exec, queue, disk, report, issued, crashes>>

\* Mutant: hydrate() forgets to change the status of the run it fails.
RestartedRunStillActive(x) ==
  [x EXCEPT !.error = "SERVICE_RESTARTED", !.settled = TRUE,
            !.events = Append(@, "run.failed")]

RestartedRun(x) ==
  [x EXCEPT !.status = "failed", !.error = "SERVICE_RESTARTED", !.settled = TRUE,
            !.events = Append(@, "run.failed")]

\* one that did not is failed, and hydrate awaits the write
HydrateUnfinished(r) ==
  /\ HydrateIdle
  /\ r \in unread
  /\ disk[r].status \in Unfinished
  /\ queue' = [queue EXCEPT ![r] = <<Snap("hydrate", RestartedRun(disk[r]))>>]
  /\ unread' = unread \ {r}
  /\ UNCHANGED <<mode, run, exec, disk, report, issued, crashes>>

HydrateWritten(r) ==
  /\ mode = "hydrating"
  /\ queue[r] # <<>>
  /\ Written(r, TRUE)
  /\ run' = [run EXCEPT ![r] = Head(queue[r]).run]
  /\ queue' = [queue EXCEPT ![r] = Tail(@)]
  /\ UNCHANGED <<mode, exec, report, issued, unread, crashes>>

\* a write error other than ENOENT leaves hydrate() and ends start.ts
HydrateAborts(r) ==
  /\ mode = "hydrating"
  /\ queue[r] # <<>>
  /\ mode' = "down"
  /\ MemoryLost
  /\ UNCHANGED <<disk, report, issued, crashes>>

Serve ==
  /\ HydrateIdle
  /\ unread = {}
  /\ mode' = "up"
  /\ UNCHANGED <<run, exec, queue, disk, report, issued, unread, crashes>>

-----------------------------------------------------------------------------
Outcome == {"completed", "interrupted", "failed", "throws"}

Init ==
  /\ mode = "down"
  /\ run = [r \in RunIds |-> NoRun]
  /\ exec = [r \in RunIds |-> NotExecuting]
  /\ queue = [r \in RunIds |-> <<>>]
  /\ disk = [r \in RunIds |-> NoRun]
  /\ report = [r \in RunIds |-> "none"]
  /\ issued = {}
  /\ unread = {}
  /\ crashes = 0

RunStep(r) ==
  \/ Start(r)
  \/ Cancel(r)
  \/ DeadlineFires(r)
  \/ AgentEvent(r)
  \/ \E outcome \in Outcome : AgentReturns(r, outcome)
  \/ \E ok \in BOOLEAN : Flushed(r, ok)
  \/ \E ok \in BOOLEAN : Reported(r, ok)
  \/ \E ok \in BOOLEAN : EmitWritten(r, ok)
  \/ \E ok \in BOOLEAN : SettleWritten(r, ok)
  \/ HydrateFinished(r)
  \/ HydrateUnfinished(r)
  \/ HydrateWritten(r)
  \/ HydrateAborts(r)

Next ==
  \/ \E r \in RunIds : RunStep(r)
  \/ StartRejected
  \/ Crash
  \/ Restart
  \/ Serve

\* The timer fires; file operations settle; an agent whose signal is aborted
\* returns (every LLM, search and fetch call is given that signal), one whose
\* signal is not may take forever.
Fairness ==
  /\ \A r \in RunIds :
       /\ WF_vars(DeadlineFires(r))
       /\ WF_vars(exec[r].aborted /\ \E outcome \in Outcome : AgentReturns(r, outcome))
       /\ WF_vars(\E ok \in BOOLEAN : Flushed(r, ok))
       /\ WF_vars(\E ok \in BOOLEAN : Reported(r, ok))
       /\ WF_vars(\E ok \in BOOLEAN : EmitWritten(r, ok))
       /\ WF_vars(\E ok \in BOOLEAN : SettleWritten(r, ok))
       /\ WF_vars(HydrateFinished(r) \/ HydrateUnfinished(r))
       /\ WF_vars(HydrateWritten(r) \/ HydrateAborts(r))
  /\ WF_vars(Serve)

Spec == Init /\ [][Next]_vars
FairSpec == Spec /\ Fairness

-----------------------------------------------------------------------------
(* Properties *)

TypeOK ==
  /\ mode \in {"up", "hydrating", "down"}
  /\ run \in [RunIds -> ResearchRun]
  /\ exec \in [RunIds -> Execution]
  /\ queue \in [RunIds -> Seq(Snapshot)]
  /\ disk \in [RunIds -> ResearchRun]
  /\ report \in [RunIds -> Terminal \cup {"none"}]
  /\ issued \subseteq RunIds
  /\ unread \subseteq RunIds
  /\ crashes \in Nat

\* A run as it may be stored anywhere: settled exactly when it has a terminal
\* status, and an acknowledged cancellation ends as cancelled unless the
\* process died first.
CancellationHonoured(x) ==
  /\ x.settled <=> x.status \in Terminal
  /\ x.cancelRequested /\ ~x.settled => x.status = "cancelling"
  /\ x.cancelRequested /\ x.settled =>
       x.status = "cancelled" \/ x.error = "SERVICE_RESTARTED"

\* A client whose cancel() was answered with true never sees the run end as
\* completed, interrupted or failed, in memory or on disk, however late in
\* the flush or the report the cancellation came; a restart may fail it.
AcknowledgedCancelWins ==
  \A r \in RunIds : CancellationHonoured(run[r]) /\ CancellationHonoured(disk[r])

\* A run shown as settled without a persistenceError is on disk exactly as it
\* is shown, so that a restart shows the same: no snapshot queued before it
\* is written after it, none is still waiting to overwrite it.
SettledIsDurable ==
  \A r \in RunIds :
    Present(r) /\ run[r].settled /\ ~run[r].persistenceError => run[r] = disk[r]

\* The outcome on disk is never overwritten: not by a late snapshot, not by a
\* later process.
DiskOutcomeIsFinal ==
  [][\A r \in RunIds : disk[r].settled => disk'[r] = disk[r]]_vars

PrefixOf(s, t) == Len(s) <= Len(t) /\ SubSeq(t, 1, Len(s)) = s

DiskLogIsPrefix ==
  \A r \in RunIds : Present(r) => PrefixOf(disk[r].events, run[r].events)

TerminalEvents == {TerminalEvent(status) : status \in Terminal}

EndsOnce(x) ==
  /\ \A i \in 1..Len(x.events) :
       x.events[i] \in TerminalEvents <=> x.settled /\ i = Len(x.events)
  /\ x.settled => /\ x.events # <<>>
                  /\ x.events[Len(x.events)] = TerminalEvent(x.status)

OneTerminalEvent == \A r \in RunIds : EndsOnce(run[r]) /\ EndsOnce(disk[r])

\* With the types: the file never runs ahead of the log a client can read, and
\* never holds a log that the client's is not a continuation of. Memory and disk
\* hold exactly one terminal event for a settled run, the last one, naming its
\* status, and none for any other, however often a restart is interrupted.
LogIsSound == TypeOK /\ DiskLogIsPrefix /\ OneTerminalEvent

ReportTells(r, x) ==
  x.settled /\ x.error # "SERVICE_RESTARTED" =>
    /\ x.reportStatus = "completed" <=> report[r] # "none"
    /\ report[r] \in {"none", x.status} \/ x.status = "cancelled"

\* The report a client can download names the outcome of the run, unless the
\* run was cancelled while the report was being written or its process died;
\* a report that says cancelled is never that of a run that was not.
ReportAgrees == \A r \in RunIds : ReportTells(r, run[r])

\* An execution that still holds a controller is reachable through the map:
\* pruning for capacity never hides work that can no longer be cancelled.
ExecutionIsReachable ==
  \A r \in RunIds : exec[r].phase # "none" => Present(r) /\ ~run[r].settled

\* Every run of a process that stays up settles.
EveryRunSettles ==
  \A r \in RunIds :
    mode = "up" /\ Present(r) ~> run[r].settled \/ mode # "up"

\* The service implements RunLifecycle.
Lifecycle == INSTANCE RunLifecycle WITH
  view <- [r \in RunIds |-> run[r].status],
  log <- [r \in RunIds |-> run[r].events],
  saved <- [r \in RunIds |->
              [log |-> disk[r].events,
               outcome |-> IF disk[r].settled THEN disk[r].status ELSE "open"]]
LifecycleSpec == Lifecycle!LifecycleSpec

-----------------------------------------------------------------------------
(* The inductive invariant behind AcknowledgedCancelWins, SettledIsDurable *)
(* and DiskOutcomeIsFinal: what the persistence chain of a run holds in    *)
(* each phase of its execution.                                            *)

EmitsOnly(q) == \A i \in 1..Len(q) : q[i].by = "emit" /\ ~q[i].run.settled

SettleIsLast(q) ==
  /\ q # <<>>
  /\ q[Len(q)].by = "settle"
  /\ q[Len(q)].run.settled /\ ~q[Len(q)].run.persistenceError
  /\ \A i \in 1..(Len(q) - 1) : q[i].by = "emit" /\ ~q[i].run.settled

\* While a run executes it is in memory and its outcome is not on disk; only
\* the last snapshot of a settling run carries the outcome; without an
\* execution nothing is left to be written.
ExecutionInv(r) ==
  /\ exec[r].phase # "none" => /\ mode = "up"
                               /\ Present(r)
                               /\ ~run[r].settled
                               /\ ~disk[r].settled
  /\ exec[r].phase \in {"agent", "flush", "report"} => EmitsOnly(queue[r])
  /\ exec[r].phase \in {"flush", "report", "settle"} => exec[r].terminal \in Terminal
  /\ exec[r].phase = "settle" => SettleIsLast(queue[r])
  /\ exec[r].phase = "none" /\ mode # "hydrating" => queue[r] = <<>>
  /\ exec[r].phase = "none" /\ Present(r) => run[r].settled

\* hydrate() writes for one run at a time, which it has not shown yet and
\* which has no outcome on disk.
HydrateInv(r) ==
  /\ mode = "hydrating" /\ queue[r] # <<>> =>
       /\ queue[r] = <<Head(queue[r])>>
       /\ Head(queue[r]).by = "hydrate"
       /\ Head(queue[r]).run.settled
       /\ Head(queue[r]).run.status # "absent"
       /\ ~disk[r].settled
       /\ r \notin unread
  /\ r \in unread => mode = "hydrating" /\ ~Present(r)
  /\ mode = "down" => ~Present(r)

Honoured(r) ==
  /\ CancellationHonoured(run[r])
  /\ CancellationHonoured(disk[r])
  /\ \A i \in 1..Len(queue[r]) : CancellationHonoured(queue[r][i].run)

Durable(r) ==
  Present(r) /\ run[r].settled /\ ~run[r].persistenceError => run[r] = disk[r]

Fresh(r) == r \notin issued => /\ run[r] = NoRun /\ disk[r] = NoRun
                               /\ exec[r] = NotExecuting /\ queue[r] = <<>>

RunInv(r) == ExecutionInv(r) /\ HydrateInv(r) /\ Honoured(r) /\ Durable(r) /\ Fresh(r)

IInv == TypeOK /\ \A r \in RunIds : RunInv(r)

-----------------------------------------------------------------------------
(* What it takes beyond IInv for LogIsSound, ReportAgrees and LifecycleSpec *)

\* The logs of a run, the file first and the memory last, each continue the
\* one before.
Chain(first, q, last) ==
  \A i \in 1..Len(q) :
    /\ PrefixOf(first, q[i].run.events)
    /\ \A j \in i..Len(q) : PrefixOf(q[i].run.events, q[j].run.events)
    /\ q[i].by = "emit" => PrefixOf(q[i].run.events, last)

ChainInv(r) ==
  /\ Chain(disk[r].events, queue[r], run[r].events)
  /\ Present(r) => PrefixOf(disk[r].events, run[r].events)

\* A run as it may be stored anywhere.
Sound(r, x) ==
  /\ EndsOnce(x) /\ ReportTells(r, x)
  /\ x.status # "absent" => x.events # <<>>

SoundInv(r) ==
  /\ Sound(r, run[r]) /\ Sound(r, disk[r])
  /\ \A i \in 1..Len(queue[r]) : Sound(r, queue[r][i].run)

HasReport(x) == \E i \in 1..Len(x.events) : x.events[i] \in {"report.completed", "report.failed"}

\* What the execution of a run has decided and done so far.
DecidedInv(r) ==
  /\ run[r].status # "queued"
  /\ ~Present(r) => run[r] = NoRun
  /\ r \notin issued => report[r] = "none"
  /\ exec[r].phase # "none" /\ exec[r].terminal = "cancelled" => run[r].status = "cancelling"
  /\ exec[r].phase \in {"agent", "flush", "report"} => ~HasReport(run[r]) /\ report[r] = "none"
  /\ exec[r].phase = "settle" =>
       LET x == queue[r][Len(queue[r])].run
       IN /\ HasReport(run[r])
          /\ x.events = Append(run[r].events, TerminalEvent(x.status))
          /\ x.status = "cancelled" <=> run[r].status = "cancelling"

\* hydrate() does not show a run before it is failed on disk.
FailedInv(r) ==
  /\ mode = "hydrating" /\ queue[r] # <<>> =>
       /\ ~Present(r) /\ disk[r].status # "absent"
       /\ Head(queue[r]).run = RestartedRun(disk[r])
  /\ r \in unread => disk[r].status # "absent"

LogInv(r) == ChainInv(r) /\ SoundInv(r) /\ DecidedInv(r) /\ FailedInv(r)

LIInv == IInv /\ IsFiniteSet(Runs) /\ \A r \in RunIds : LogInv(r)

=============================================================================
