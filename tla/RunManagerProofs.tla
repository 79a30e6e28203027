-------------------------- MODULE RunManagerProofs --------------------------
(***************************************************************************)
(* Machine-checked, for any set of runs, any capacity and any number of    *)
(* agent events and crashes: RunManager is safe, its logs and its reports  *)
(* are sound, and it implements RunLifecycle.                              *)
(***************************************************************************)
EXTENDS RunManager, SequenceTheorems, FiniteSetTheorems, TLAPS

-----------------------------------------------------------------------------
(* Types *)

LEMMA RecordTypes ==
  /\ NoRun \in ResearchRun
  /\ QueuedRun \in ResearchRun
  /\ StartedRun \in ResearchRun
  /\ NotExecuting \in Execution
<1>1. /\ <<>> \in Seq(EventType)
      /\ <<"run.queued">> \in Seq(EventType)
      /\ <<"run.queued", "run.started">> \in Seq(EventType)
  BY DEF EventType
<1>2. NoRun \in ResearchRun
  BY <1>1 DEF NoRun, ResearchRun
<1>3. QueuedRun \in ResearchRun
  BY <1>1, <1>2 DEF QueuedRun, ResearchRun, RunStatus, Unfinished
<1>4. StartedRun \in ResearchRun
  BY <1>1, <1>3 DEF StartedRun, ResearchRun, RunStatus, Unfinished
<1>5. NotExecuting \in Execution
  BY DEF NotExecuting, Execution, Phase
<1>6. QED BY <1>2, <1>3, <1>4, <1>5

LEMMA WithEventType ==
  ASSUME NEW x \in ResearchRun, NEW type \in EventType
  PROVE  WithEvent(x, type) \in ResearchRun
<1>1. Append(x.events, type) \in Seq(EventType)
  BY DEF ResearchRun
<1>2. QED BY <1>1 DEF WithEvent, ResearchRun

LEMMA FieldTypes ==
  ASSUME NEW x \in ResearchRun, NEW error \in {"none", "RUN_FAILED", "SERVICE_RESTARTED"},
         NEW failed \in BOOLEAN
  PROVE  /\ [x EXCEPT !.status = "cancelling", !.cancelRequested = TRUE] \in ResearchRun
         /\ [x EXCEPT !.error = error] \in ResearchRun
         /\ [x EXCEPT !.persistenceError = failed] \in ResearchRun
  BY DEF ResearchRun, RunStatus, Unfinished

LEMMA TerminalEventType ==
  ASSUME NEW status
  PROVE  TerminalEvent(status) \in EventType
  BY DEF TerminalEvent, EventType

LEMMA SettledRunType ==
  ASSUME NEW x \in ResearchRun, NEW status \in Terminal
  PROVE  SettledRun(x, status) \in ResearchRun
<1>1. Append(x.events, TerminalEvent(status)) \in Seq(EventType)
  BY TerminalEventType DEF ResearchRun
<1>2. QED BY <1>1 DEF SettledRun, ResearchRun, RunStatus

LEMMA RestartedRunType ==
  ASSUME NEW x \in ResearchRun
  PROVE  RestartedRun(x) \in ResearchRun
<1>1. Append(x.events, "run.failed") \in Seq(EventType)
  BY DEF ResearchRun, EventType
<1>2. QED BY <1>1 DEF RestartedRun, ResearchRun, RunStatus, Terminal

LEMMA SnapType ==
  ASSUME NEW by \in {"emit", "settle", "hydrate"}, NEW x \in ResearchRun
  PROVE  /\ Snap(by, x) \in Snapshot
         /\ Snap(by, x).by = by
         /\ Snap(by, x).run = x
  BY DEF Snap, Snapshot

-----------------------------------------------------------------------------
(* The persistence chain *)

LEMMA TailFacts ==
  ASSUME NEW q \in Seq(Snapshot), q # <<>>
  PROVE  /\ Tail(q) \in Seq(Snapshot)
         /\ Len(Tail(q)) = Len(q) - 1
         /\ \A i \in 1..(Len(q) - 1) : Tail(q)[i] = q[i + 1]
         /\ Head(q) = q[1]
         /\ Head(q) \in Snapshot
         /\ Len(q) \in Nat \ {0}
         /\ Tail(q) = <<>> <=> Len(q) = 1
<1>1. /\ Tail(q) \in Seq(Snapshot)
      /\ Len(Tail(q)) = Len(q) - 1
      /\ Len(q) \in Nat \ {0}
  OBVIOUS
<1>2. /\ \A i \in 1..(Len(q) - 1) : Tail(q)[i] = q[i + 1]
      /\ Head(q) = q[1]
      /\ Head(q) \in Snapshot
  OBVIOUS
<1>3. Tail(q) = <<>> <=> Len(Tail(q)) = 0
  BY <1>1, EmptySeq
<1>4. QED BY <1>1, <1>2, <1>3

LEMMA AppendFacts ==
  ASSUME NEW q \in Seq(Snapshot), NEW s \in Snapshot
  PROVE  /\ Append(q, s) \in Seq(Snapshot)
         /\ Append(q, s) # <<>>
         /\ Len(Append(q, s)) = Len(q) + 1
         /\ Append(q, s)[Len(q) + 1] = s
         /\ \A i \in 1..Len(q) : Append(q, s)[i] = q[i]
         /\ Len(q) \in Nat
  OBVIOUS

LEMMA Append2 ==
  ASSUME NEW q \in Seq(Snapshot), NEW s \in Snapshot, NEW t \in Snapshot
  PROVE  q \o <<s, t>> = Append(Append(q, s), t)
  OBVIOUS

\* A queue of emits stays one when its head is written.
LEMMA TailOfEmits ==
  ASSUME NEW q \in Seq(Snapshot), q # <<>>, EmitsOnly(q)
  PROVE  /\ EmitsOnly(Tail(q))
         /\ Head(q).by = "emit"
         /\ ~Head(q).run.settled
  BY TailFacts DEF EmitsOnly

LEMMA AppendToEmits ==
  ASSUME NEW q \in Seq(Snapshot), EmitsOnly(q),
         NEW x \in ResearchRun, ~x.settled
  PROVE  EmitsOnly(Append(q, Snap("emit", x)))
<1>1. /\ Snap("emit", x) \in Snapshot
      /\ Snap("emit", x).by = "emit"
      /\ Snap("emit", x).run = x
  BY SnapType
<1>2. QED BY <1>1, AppendFacts DEF EmitsOnly

LEMMA AppendSettle ==
  ASSUME NEW q \in Seq(Snapshot), EmitsOnly(q),
         NEW x \in ResearchRun, x.settled, ~x.persistenceError
  PROVE  SettleIsLast(Append(q, Snap("settle", x)))
<1>1. /\ Snap("settle", x) \in Snapshot
      /\ Snap("settle", x).by = "settle"
      /\ Snap("settle", x).run = x
  BY SnapType
<1>2. QED BY <1>1, AppendFacts DEF EmitsOnly, SettleIsLast

\* The settled snapshot is written after all others.
LEMMA TailOfSettling ==
  ASSUME NEW q \in Seq(Snapshot), SettleIsLast(q)
  PROVE  /\ Head(q).by = "emit" => /\ SettleIsLast(Tail(q))
                                   /\ ~Head(q).run.settled
         /\ Head(q).by = "settle" => /\ Tail(q) = <<>>
                                     /\ Head(q).run.settled
                                     /\ ~Head(q).run.persistenceError
         /\ Head(q).by \in {"emit", "settle"}
<1>1. q # <<>> /\ Len(q) \in Nat \ {0}
  BY TailFacts DEF SettleIsLast
<1>2. CASE Len(q) = 1
  BY <1>1, <1>2, TailFacts DEF SettleIsLast
<1>3. CASE Len(q) # 1
  <2>1. Head(q) = q[1] /\ 1 \in 1..(Len(q) - 1)
    BY <1>1, <1>3, TailFacts
  <2>2. Head(q).by = "emit" /\ ~Head(q).run.settled
    BY <2>1 DEF SettleIsLast
  <2>3. SettleIsLast(Tail(q))
    BY <1>1, <1>3, TailFacts DEF SettleIsLast
  <2>4. QED BY <2>2, <2>3
<1>4. QED BY <1>2, <1>3

-----------------------------------------------------------------------------
(* Type correctness *)

LEMMA EmitType ==
  ASSUME TypeOK, NEW r \in RunIds, NEW x \in ResearchRun,
         NEW type \in EventType, Emit(r, x, type)
  PROVE  /\ run' \in [RunIds -> ResearchRun]
         /\ queue' \in [RunIds -> Seq(Snapshot)]
<1>1. WithEvent(x, type) \in ResearchRun
  BY WithEventType
<1>2. Snap("emit", WithEvent(x, type)) \in Snapshot
  BY <1>1, SnapType
<1>3. Append(queue[r], Snap("emit", WithEvent(x, type))) \in Seq(Snapshot)
  BY <1>2, AppendFacts DEF TypeOK
<1>4. QED BY <1>1, <1>3 DEF Emit, TypeOK

\* The report event and status writeRunReport gives the run.
ReportedRun(x, ok) ==
  [x EXCEPT !.reportStatus = IF ok THEN "completed" ELSE "failed",
            !.events = Append(@, IF ok THEN "report.completed" ELSE "report.failed")]

LEMMA ReportedRunType ==
  ASSUME NEW x \in ResearchRun, NEW ok \in BOOLEAN
  PROVE  /\ ReportedRun(x, ok) \in ResearchRun
         /\ ReportedRun(x, ok).status = x.status
         /\ ReportedRun(x, ok).settled = x.settled
         /\ ReportedRun(x, ok).cancelRequested = x.cancelRequested
         /\ ReportedRun(x, ok).error = x.error
<1>1. Append(x.events, IF ok THEN "report.completed" ELSE "report.failed") \in Seq(EventType)
  BY DEF ResearchRun, EventType
<1>2. QED BY <1>1 DEF ReportedRun, ResearchRun

LEMMA TypeCorrectInit == Init => TypeOK
<1>1. <<>> \in Seq(Snapshot)
  OBVIOUS
<1>2. QED BY <1>1, RecordTypes DEF Init, TypeOK

LEMMA MemoryLostType ==
  MemoryLost => /\ run' \in [RunIds -> ResearchRun]
                /\ exec' \in [RunIds -> Execution]
                /\ queue' \in [RunIds -> Seq(Snapshot)]
                /\ unread' \subseteq RunIds
<1>1. <<>> \in Seq(Snapshot)
  OBVIOUS
<1>2. QED BY <1>1, RecordTypes DEF MemoryLost

\* TypeOK is preserved by every step of one run. That a report and a settled
\* run carry a terminal status takes the invariant: execute() has decided it
\* by then.
LEMMA TypeCorrectRunStep ==
  ASSUME TypeOK, NEW r \in RunIds, ExecutionInv(r), RunStep(r)
  PROVE  TypeOK'
<1> USE DEF TypeOK
<1>1. CASE Start(r)
  <2>1. /\ Snap("emit", QueuedRun) \in Snapshot
        /\ Snap("emit", StartedRun) \in Snapshot
    BY RecordTypes, SnapType
  <2>2. <<Snap("emit", QueuedRun), Snap("emit", StartedRun)>> \in Seq(Snapshot)
    BY <2>1
  <2>3. queue' \in [RunIds -> Seq(Snapshot)]
    BY <1>1, <2>2 DEF Start
  <2>4. run' \in [RunIds -> ResearchRun]
    BY <1>1, RecordTypes DEF Start, Pruned
  <2>5. exec' \in [RunIds -> Execution]
    BY <1>1 DEF Start, NotExecuting, Execution, Phase
  <2>6. QED BY <1>1, <2>3, <2>4, <2>5 DEF Start
<1>2. CASE Cancel(r)
  <2> DEFINE x == [run[r] EXCEPT !.status = "cancelling", !.cancelRequested = TRUE]
  <2>1. x \in ResearchRun
    BY FieldTypes
  <2>2. Emit(r, x, "run.cancellation_requested") /\ "run.cancellation_requested" \in EventType
    BY <1>2 DEF Cancel, EventType
  <2>3. run' \in [RunIds -> ResearchRun] /\ queue' \in [RunIds -> Seq(Snapshot)]
    BY <2>1, <2>2, EmitType
  <2>4. exec' \in [RunIds -> Execution]
    BY <1>2 DEF Cancel, SignalAborts, Execution
  <2>5. QED BY <1>2, <2>3, <2>4 DEF Cancel
<1>3. CASE DeadlineFires(r)
  BY <1>3 DEF DeadlineFires, SignalAborts, Execution
<1>4. CASE AgentEvent(r)
  <2>1. "agent.event" \in EventType
    BY DEF EventType
  <2>2. run' \in [RunIds -> ResearchRun] /\ queue' \in [RunIds -> Seq(Snapshot)]
    BY <1>4, <2>1, EmitType DEF AgentEvent
  <2>3. QED BY <1>4, <2>2 DEF AgentEvent
<1>5. ASSUME NEW outcome \in Outcome, AgentReturns(r, outcome)
      PROVE  TypeOK'
  <2>1. TerminalStatus(r, outcome) \in Terminal
    BY DEF TerminalStatus, Terminal, Outcome
  <2>2. exec' \in [RunIds -> Execution]
    BY <1>5, <2>1 DEF AgentReturns, Execution, Phase
  <2>3. run' \in [RunIds -> ResearchRun]
    <3>1. [run[r] EXCEPT !.error = "RUN_FAILED"] \in ResearchRun
      BY FieldTypes
    <3>2. [run[r] EXCEPT !.error = @] = run[r]
      BY DEF ResearchRun
    <3>3. QED BY <1>5, <3>1, <3>2 DEF AgentReturns
  <2>4. QED BY <1>5, <2>2, <2>3 DEF AgentReturns
<1>6. ASSUME NEW ok \in BOOLEAN, Flushed(r, ok)
      PROVE  TypeOK'
  <2>1. "evidence.write_error" \in EventType
    BY DEF EventType
  <2>2. run' \in [RunIds -> ResearchRun] /\ queue' \in [RunIds -> Seq(Snapshot)]
    BY <1>6, <2>1, EmitType DEF Flushed
  <2>3. Reconsidered(r) \in Terminal \cup {"undecided"}
    BY DEF Reconsidered, Execution, Terminal
  <2>4. exec' \in [RunIds -> Execution]
    BY <1>6, <2>3 DEF Flushed, Execution, Phase
  <2>5. QED BY <1>6, <2>2, <2>4 DEF Flushed
<1>7. ASSUME NEW ok \in BOOLEAN, Reported(r, ok)
      PROVE  TypeOK'
  <2> DEFINE x == ReportedRun(run[r], ok)
             status == Reconsidered(r)
  <2>1. exec[r].phase = "report" /\ exec[r].terminal \in Terminal
    BY <1>7 DEF Reported, ExecutionInv
  <2>2. status \in Terminal
    BY <2>1 DEF Reconsidered, Terminal
  <2>3. x \in ResearchRun /\ SettledRun(x, status) \in ResearchRun
    BY <2>2, ReportedRunType, SettledRunType
  <2>4. Snap("emit", x) \in Snapshot /\ Snap("settle", SettledRun(x, status)) \in Snapshot
    BY <2>3, SnapType
  <2>5. queue[r] \o <<Snap("emit", x), Snap("settle", SettledRun(x, status))>> \in Seq(Snapshot)
    BY <2>4
  <2>6. /\ run' = [run EXCEPT ![r] = x]
        /\ queue' = [queue EXCEPT ![r] =
             @ \o <<Snap("emit", x), Snap("settle", SettledRun(x, status))>>]
        /\ exec' = [exec EXCEPT ![r].phase = "settle", ![r].terminal = status]
    BY <1>7 DEF Reported, ReportedRun
  <2>7. run' \in [RunIds -> ResearchRun] /\ queue' \in [RunIds -> Seq(Snapshot)]
    BY <2>3, <2>5, <2>6
  <2>8. exec' \in [RunIds -> Execution]
    BY <2>2, <2>6 DEF Execution, Phase
  <2>9. report' \in [RunIds -> Terminal \cup {"none"}]
    BY <1>7, <2>1 DEF Reported, ReportWritten
  <2>10. QED BY <1>7, <2>7, <2>8, <2>9 DEF Reported
<1>8. ASSUME NEW ok \in BOOLEAN, EmitWritten(r, ok) \/ SettleWritten(r, ok)
      PROVE  TypeOK'
  <2>1. queue[r] # <<>>
    BY <1>8 DEF EmitWritten, SettleWritten
  <2>2. Tail(queue[r]) \in Seq(Snapshot) /\ Head(queue[r]).run \in ResearchRun
    BY <2>1, TailFacts DEF Snapshot
  <2>3. disk' \in [RunIds -> ResearchRun] /\ queue' \in [RunIds -> Seq(Snapshot)]
    BY <1>8, <2>2 DEF EmitWritten, SettleWritten, Written
  <2>4. SettledInMemory(Head(queue[r]).run, ok) \in ResearchRun
    BY <2>2 DEF SettledInMemory, ResearchRun
  <2>5. CASE EmitWritten(r, ok)
    <3>1. [run[r] EXCEPT !.persistenceError = TRUE] \in ResearchRun
      BY FieldTypes
    <3>2. QED BY <2>3, <2>5, <3>1 DEF EmitWritten
  <2>6. CASE SettleWritten(r, ok)
    BY <2>3, <2>4, <2>6, RecordTypes DEF SettleWritten
  <2>7. QED BY <1>8, <2>5, <2>6
<1>9. CASE HydrateWritten(r)
  <2>1. Tail(queue[r]) \in Seq(Snapshot) /\ Head(queue[r]).run \in ResearchRun
    BY <1>9, TailFacts DEF Snapshot, HydrateWritten
  <2>2. QED BY <1>9, <2>1 DEF HydrateWritten, Written
<1>10. CASE HydrateFinished(r)
  BY <1>10 DEF HydrateFinished
<1>11. CASE HydrateUnfinished(r)
  <2>1. Snap("hydrate", RestartedRun(disk[r])) \in Snapshot
    BY RestartedRunType, SnapType
  <2>2. <<Snap("hydrate", RestartedRun(disk[r]))>> \in Seq(Snapshot)
    BY <2>1
  <2>3. QED BY <1>11, <2>2 DEF HydrateUnfinished
<1>12. CASE HydrateAborts(r)
  BY <1>12, MemoryLostType DEF HydrateAborts
<1>13. QED
  BY <1>1, <1>2, <1>3, <1>4, <1>5, <1>6, <1>7, <1>8, <1>10, <1>11, <1>12, <1>9 DEF RunStep

\* ... and by every step of the process.
LEMMA TypeCorrectStep ==
  ASSUME TypeOK, \A r \in RunIds : ExecutionInv(r), [Next]_vars
  PROVE  TypeOK'
<1>1. CASE \E r \in RunIds : RunStep(r)
  BY <1>1, TypeCorrectRunStep
<1>2. CASE StartRejected
  BY <1>2, RecordTypes DEF StartRejected, Pruned, TypeOK
<1>3. CASE Crash
  BY <1>3, MemoryLostType DEF Crash, TypeOK
<1>4. CASE Restart
  BY <1>4 DEF Restart, OnDisk, TypeOK
<1>5. CASE Serve
  BY <1>5 DEF Serve, TypeOK
<1>6. CASE UNCHANGED vars
  BY <1>6 DEF vars, TypeOK
<1>7. QED BY <1>1, <1>2, <1>3, <1>4, <1>5, <1>6 DEF Next

-----------------------------------------------------------------------------
(* The invariant of one run *)

\* A step that leaves a run alone preserves its invariant.
LEMMA Untouched ==
  ASSUME NEW s \in RunIds, RunInv(s),
         mode' = mode, run'[s] = run[s], exec'[s] = exec[s],
         queue'[s] = queue[s], disk'[s] = disk[s],
         s \in unread' <=> s \in unread, s \notin issued' => s \notin issued
  PROVE  RunInv(s)'
  BY DEF RunInv, ExecutionInv, HydrateInv, Honoured, Durable, Fresh, Present

LEMMA InitRunInv ==
  ASSUME Init, NEW r \in RunIds
  PROVE  RunInv(r)
<1>1. /\ run[r] = NoRun /\ disk[r] = NoRun /\ exec[r] = NotExecuting
      /\ queue[r] = <<>> /\ Len(queue[r]) = 0 /\ unread = {} /\ mode = "down"
  BY DEF Init
<1>2. QED
  BY <1>1 DEF RunInv, ExecutionInv, HydrateInv, Honoured, Durable, Fresh,
              CancellationHonoured, Present, NoRun, NotExecuting, Terminal

\* Nothing of a process survives it.
LEMMA LostRunInv ==
  ASSUME TypeOK, NEW r \in RunIds, RunInv(r), MemoryLost, mode' = "down",
         UNCHANGED <<disk, issued>>
  PROVE  RunInv(r)'
<1>1. /\ run'[r] = NoRun /\ exec'[r] = NotExecuting /\ queue'[r] = <<>>
      /\ Len(queue'[r]) = 0 /\ unread' = {} /\ disk'[r] = disk[r]
  BY DEF MemoryLost
<1>2. QED
  BY <1>1 DEF RunInv, ExecutionInv, HydrateInv, Honoured, Durable, Fresh,
              CancellationHonoured, Present, NoRun, NotExecuting, Terminal

LEMMA StartRunInv ==
  ASSUME TypeOK, NEW r \in RunIds, Start(r), \A t \in RunIds : RunInv(t), NEW s \in RunIds
  PROVE  RunInv(s)'
<1>1. CASE s = r
  <2>1. /\ run'[r] = StartedRun /\ disk'[r] = NoRun /\ mode = "up" /\ mode' = "up"
        /\ exec'[r] = [NotExecuting EXCEPT !.phase = "agent"] /\ r \in issued'
        /\ queue'[r] = <<Snap("emit", QueuedRun), Snap("emit", StartedRun)>>
        /\ unread' = unread
    BY DEF Start, Pruned, RunInv, Fresh, TypeOK
  <2>2. /\ Len(queue'[r]) = 2
        /\ queue'[r][1].by = "emit" /\ queue'[r][1].run = QueuedRun
        /\ queue'[r][2].by = "emit" /\ queue'[r][2].run = StartedRun
    BY <2>1 DEF Snap
  <2>3. /\ ~QueuedRun.settled /\ CancellationHonoured(QueuedRun)
        /\ ~StartedRun.settled /\ CancellationHonoured(StartedRun)
        /\ ~NoRun.settled /\ CancellationHonoured(NoRun)
        /\ StartedRun.status = "running"
    BY DEF QueuedRun, StartedRun, NoRun, CancellationHonoured, Terminal
  <2>4. ExecutionInv(r)'
    BY <2>1, <2>2, <2>3 DEF ExecutionInv, EmitsOnly, NotExecuting, Present
  <2>5. HydrateInv(r)' /\ Durable(r)' /\ Fresh(r)'
    BY <2>1, <2>3 DEF HydrateInv, Durable, Fresh, RunInv
  <2>6. Honoured(r)'
    BY <2>1, <2>2, <2>3 DEF Honoured
  <2>7. QED BY <1>1, <2>4, <2>5, <2>6 DEF RunInv
<1>2. CASE s # r
  <2>1. /\ mode' = mode /\ exec'[s] = exec[s] /\ queue'[s] = queue[s] /\ disk'[s] = disk[s]
        /\ unread' = unread /\ (s \notin issued' => s \notin issued)
    BY <1>2 DEF Start, TypeOK
  <2>2. run'[s] = run[s] \/ (run'[s] = NoRun /\ (run[s].settled \/ ~Present(s)))
    BY <1>2 DEF Start, Pruned, Kept, Runs, TypeOK
  <2>3. CASE run'[s] = run[s]
    BY <2>1, <2>3, Untouched
  <2>4. CASE run'[s] = NoRun /\ (run[s].settled \/ ~Present(s))
    BY <2>1, <2>4 DEF RunInv, ExecutionInv, HydrateInv, Honoured, Durable, Fresh,
       CancellationHonoured, Present, NoRun, NotExecuting, Terminal
  <2>5. QED BY <2>2, <2>3, <2>4
<1>3. QED BY <1>1, <1>2

LEMMA RejectRunInv ==
  ASSUME TypeOK, StartRejected, NEW s \in RunIds, RunInv(s)
  PROVE  RunInv(s)'
<1>1. /\ mode' = mode /\ exec'[s] = exec[s] /\ queue'[s] = queue[s] /\ disk'[s] = disk[s]
      /\ unread' = unread /\ issued' = issued
  BY DEF StartRejected
<1>2. run'[s] = run[s] \/ (run'[s] = NoRun /\ (run[s].settled \/ ~Present(s)))
  BY DEF StartRejected, Pruned, Kept, Runs, TypeOK
<1>3. CASE run'[s] = run[s]
  BY <1>1, <1>3, Untouched
<1>4. CASE run'[s] = NoRun /\ (run[s].settled \/ ~Present(s))
  BY <1>1, <1>4 DEF RunInv, ExecutionInv, HydrateInv, Honoured, Durable, Fresh,
     CancellationHonoured, Present, NoRun, NotExecuting, Terminal
<1>5. QED BY <1>2, <1>3, <1>4

\* emit() on a run that is neither settled nor settling.
LEMMA EmitOpen ==
  ASSUME TypeOK, NEW r \in RunIds, RunInv(r), Present(r), ~Closed(r),
         NEW x \in ResearchRun, ~x.settled, CancellationHonoured(x),
         x.status # "absent",
         NEW type \in EventType, Emit(r, x, type)
  PROVE  /\ run'[r] \in ResearchRun
         /\ run'[r].status = x.status /\ ~run'[r].settled
         /\ CancellationHonoured(run'[r])
         /\ EmitsOnly(queue'[r])
         /\ \A i \in 1..Len(queue'[r]) : CancellationHonoured(queue'[r][i].run)
<1> DEFINE y == WithEvent(x, type)
<1>1. y \in ResearchRun
  BY WithEventType
<1>2. /\ y.status = x.status /\ y.settled = x.settled
      /\ y.cancelRequested = x.cancelRequested /\ y.error = x.error
  BY DEF WithEvent, ResearchRun
<1>3. ~y.settled /\ CancellationHonoured(y)
  BY <1>2 DEF CancellationHonoured
<1>4. run'[r] = y /\ queue'[r] = Append(queue[r], Snap("emit", y))
  BY DEF Emit, TypeOK
<1>5. EmitsOnly(queue[r])
  BY DEF RunInv, ExecutionInv, Closed, TypeOK, Execution, Phase
<1>6. EmitsOnly(queue'[r])
  BY <1>1, <1>3, <1>4, <1>5, AppendToEmits DEF TypeOK
<1>7. Snap("emit", y) \in Snapshot /\ Snap("emit", y).run = y
  BY <1>1, SnapType
<1>8. \A i \in 1..Len(queue'[r]) : CancellationHonoured(queue'[r][i].run)
  BY <1>3, <1>4, <1>7, AppendFacts DEF RunInv, Honoured, TypeOK
<1>9. QED BY <1>1, <1>2, <1>3, <1>4, <1>6, <1>8

\* What is left to show when an open run has emitted an event.
LEMMA OpenRunInv ==
  ASSUME TypeOK, NEW r \in RunIds, RunInv(r), Present(r), ~Closed(r), mode = "up",
         mode' = mode, disk' = disk, issued' = issued, unread' = unread,
         exec'[r].phase \in {"agent", "flush", "report"},
         exec'[r].phase \in {"flush", "report"} => exec'[r].terminal \in Terminal,
         Present(r)', ~run'[r].settled, CancellationHonoured(run'[r]),
         EmitsOnly(queue'[r]),
         \A i \in 1..Len(queue'[r]) : CancellationHonoured(queue'[r][i].run)
  PROVE  RunInv(r)'
<1>1. exec[r].phase # "none" /\ ~disk[r].settled
  BY DEF RunInv, ExecutionInv, Closed
<1>2. r \in issued
  BY DEF RunInv, Fresh, Present, NoRun
<1>3. QED
  BY <1>1, <1>2 DEF RunInv, ExecutionInv, HydrateInv, Honoured, Durable, Fresh

\* A late event changes nothing.
LEMMA EmitClosed ==
  ASSUME TypeOK, NEW r \in RunIds, NEW type, Emit(r, run[r], type), Closed(r)
  PROVE  run' = run /\ queue' = queue
  BY DEF Emit, TypeOK

LEMMA CancelRunInv ==
  ASSUME TypeOK, NEW r \in RunIds, RunInv(r), Cancel(r)
  PROVE  RunInv(r)'
<1> DEFINE x == [run[r] EXCEPT !.status = "cancelling", !.cancelRequested = TRUE]
<1>0. run[r] \in ResearchRun
  BY DEF TypeOK
<1>1. /\ x \in ResearchRun /\ x.status = "cancelling"
      /\ x.settled = run[r].settled
  <2>1. x \in ResearchRun
    BY <1>0, FieldTypes
  <2>2. x.status = "cancelling" /\ x.settled = run[r].settled
    BY <1>0 DEF ResearchRun
  <2>3. QED BY <2>1, <2>2
<1>2. mode = "up" /\ Present(r) /\ ~Closed(r) /\ ~run[r].settled
  BY DEF Cancel, Closed
<1>3. CancellationHonoured(x) /\ ~x.settled
  BY <1>1, <1>2 DEF CancellationHonoured, Terminal
<1>4. Emit(r, x, "run.cancellation_requested") /\ "run.cancellation_requested" \in EventType
  BY DEF Cancel, EventType
<1>5. /\ run'[r].status = x.status /\ ~run'[r].settled /\ CancellationHonoured(run'[r])
      /\ EmitsOnly(queue'[r])
      /\ \A i \in 1..Len(queue'[r]) : CancellationHonoured(queue'[r][i].run)
  BY <1>1, <1>2, <1>3, <1>4, EmitOpen
<1>6. /\ exec'[r].phase = exec[r].phase /\ exec'[r].terminal = exec[r].terminal
      /\ UNCHANGED <<mode, disk, issued, unread>>
  BY DEF Cancel, SignalAborts, TypeOK, Execution
<1>7. /\ exec[r].phase \in {"agent", "flush", "report"}
      /\ exec[r].phase \in {"flush", "report"} => exec[r].terminal \in Terminal
  BY <1>2 DEF RunInv, ExecutionInv, Closed, TypeOK, Execution, Phase
<1>8. Present(r)'
  BY <1>1, <1>5 DEF Present
<1>9. QED BY <1>2, <1>5, <1>6, <1>7, <1>8, OpenRunInv

LEMMA AgentEventRunInv ==
  ASSUME TypeOK, NEW r \in RunIds, RunInv(r), AgentEvent(r)
  PROVE  RunInv(r)'
<1>1. /\ mode = "up" /\ Present(r) /\ Emit(r, run[r], "agent.event")
      /\ UNCHANGED <<mode, exec, disk, issued, unread>>
      /\ "agent.event" \in EventType
  BY DEF AgentEvent, EventType
<1>2. CASE Closed(r)
  BY <1>1, <1>2, EmitClosed, Untouched
<1>3. CASE ~Closed(r)
  <2>1. /\ run[r] \in ResearchRun /\ ~run[r].settled /\ CancellationHonoured(run[r])
        /\ run[r].status # "absent"
    BY <1>1, <1>3 DEF Closed, RunInv, Honoured, TypeOK, Present
  <2>2. /\ run'[r].status = run[r].status /\ ~run'[r].settled
        /\ CancellationHonoured(run'[r]) /\ EmitsOnly(queue'[r])
        /\ \A i \in 1..Len(queue'[r]) : CancellationHonoured(queue'[r][i].run)
    BY <1>1, <1>3, <2>1, EmitOpen
  <2>3. /\ exec[r].phase \in {"agent", "flush", "report"}
        /\ exec[r].phase \in {"flush", "report"} => exec[r].terminal \in Terminal
    BY <1>1, <1>3 DEF RunInv, ExecutionInv, Closed, TypeOK, Execution, Phase
  <2>4. Present(r)'
    BY <2>1, <2>2 DEF Present
  <2>5. QED BY <1>1, <1>3, <2>2, <2>3, <2>4, OpenRunInv
<1>4. QED BY <1>2, <1>3

LEMMA DeadlineRunInv ==
  ASSUME TypeOK, NEW r \in RunIds, RunInv(r), DeadlineFires(r)
  PROVE  RunInv(r)'
<1>1. /\ exec'[r].phase = exec[r].phase /\ exec'[r].terminal = exec[r].terminal
      /\ UNCHANGED <<mode, run, queue, disk, issued, unread>>
      /\ exec[r].phase # "none"
  BY DEF DeadlineFires, SignalAborts, TypeOK, Execution
<1>2. r \in issued
  BY <1>1 DEF RunInv, Fresh, NotExecuting
<1>3. QED
  BY <1>1, <1>2 DEF RunInv, ExecutionInv, HydrateInv, Honoured, Durable, Fresh, Present

LEMMA AgentReturnsRunInv ==
  ASSUME TypeOK, NEW r \in RunIds, RunInv(r), NEW outcome \in Outcome,
         AgentReturns(r, outcome)
  PROVE  RunInv(r)'
<1>1. /\ exec[r].phase = "agent" /\ UNCHANGED <<mode, queue, disk, issued, unread>>
      /\ exec'[r].phase = "flush" /\ exec'[r].terminal = TerminalStatus(r, outcome)
  BY DEF AgentReturns, TypeOK, Execution
<1>2. TerminalStatus(r, outcome) \in Terminal
  BY DEF TerminalStatus, Terminal, Outcome
<1>3. mode = "up" /\ Present(r) /\ ~run[r].settled /\ ~Closed(r) /\ EmitsOnly(queue[r])
  BY <1>1 DEF RunInv, ExecutionInv, Closed
<1>4. /\ run'[r].status = run[r].status /\ run'[r].settled = run[r].settled
      /\ run'[r].cancelRequested = run[r].cancelRequested
  BY DEF AgentReturns, TypeOK, ResearchRun
<1>5. CancellationHonoured(run'[r])
  BY <1>3, <1>4 DEF RunInv, Honoured, CancellationHonoured
<1>6. \A i \in 1..Len(queue'[r]) : CancellationHonoured(queue'[r][i].run)
  BY <1>1 DEF RunInv, Honoured
<1>7. Present(r)' /\ ~run'[r].settled
  BY <1>3, <1>4 DEF Present
<1>8. QED BY <1>1, <1>2, <1>3, <1>5, <1>6, <1>7, OpenRunInv

LEMMA FlushedRunInv ==
  ASSUME TypeOK, NEW r \in RunIds, RunInv(r), NEW ok \in BOOLEAN, Flushed(r, ok)
  PROVE  RunInv(r)'
<1>1. /\ exec[r].phase = "flush" /\ UNCHANGED <<mode, disk, issued, unread>>
      /\ exec'[r].phase = "report" /\ exec'[r].terminal = Reconsidered(r)
      /\ "evidence.write_error" \in EventType
  BY DEF Flushed, TypeOK, Execution, EventType
<1>2. /\ mode = "up" /\ Present(r) /\ ~run[r].settled /\ ~Closed(r) /\ EmitsOnly(queue[r])
      /\ exec[r].terminal \in Terminal /\ CancellationHonoured(run[r])
      /\ run[r] \in ResearchRun /\ run[r].status # "absent"
  BY <1>1 DEF RunInv, ExecutionInv, Honoured, Closed, TypeOK, Present
<1>3. Reconsidered(r) \in Terminal
  BY <1>2 DEF Reconsidered, Terminal
<1>4. CASE ok
  <2>1. run' = run /\ queue' = queue
    BY <1>4 DEF Flushed
  <2>2. \A i \in 1..Len(queue'[r]) : CancellationHonoured(queue'[r][i].run)
    BY <2>1 DEF RunInv, Honoured
  <2>3. Present(r)'
    BY <1>2, <2>1 DEF Present
  <2>4. QED BY <1>1, <1>2, <1>3, <2>1, <2>2, <2>3, OpenRunInv
<1>5. CASE ~ok
  <2>1. Emit(r, run[r], "evidence.write_error")
    BY <1>5 DEF Flushed
  <2>2. /\ run'[r].status = run[r].status /\ ~run'[r].settled
        /\ CancellationHonoured(run'[r]) /\ EmitsOnly(queue'[r])
        /\ \A i \in 1..Len(queue'[r]) : CancellationHonoured(queue'[r][i].run)
    BY <1>1, <1>2, <2>1, EmitOpen
  <2>3. Present(r)'
    BY <1>2, <2>2 DEF Present
  <2>4. QED BY <1>1, <1>2, <1>3, <2>2, <2>3, OpenRunInv
<1>6. QED BY <1>4, <1>5

\* The settled copy honours a cancellation that reached the run in time.
LEMMA SettledRunFacts ==
  ASSUME NEW x \in ResearchRun, NEW status \in Terminal,
         CancellationHonoured(x), ~x.settled,
         x.status = "cancelling" => status = "cancelled"
  PROVE  /\ SettledRun(x, status).settled
         /\ ~SettledRun(x, status).persistenceError
         /\ CancellationHonoured(SettledRun(x, status))
<1>1. /\ SettledRun(x, status).settled = TRUE
      /\ SettledRun(x, status).persistenceError = FALSE
      /\ SettledRun(x, status).status = status
      /\ SettledRun(x, status).cancelRequested = x.cancelRequested
  BY DEF SettledRun, ResearchRun
<1>2. QED BY <1>1 DEF CancellationHonoured

LEMMA ReportedRunInv ==
  ASSUME TypeOK, NEW r \in RunIds, RunInv(r), NEW ok \in BOOLEAN, Reported(r, ok)
  PROVE  RunInv(r)'
<1> DEFINE x == ReportedRun(run[r], ok)
           status == Reconsidered(r)
           z == SettledRun(x, status)
           q == Append(queue[r], Snap("emit", x))
<1>1. /\ exec[r].phase = "report" /\ UNCHANGED <<mode, disk, issued, unread>>
      /\ exec'[r].phase = "settle" /\ exec'[r].terminal = status
      /\ run'[r] = x
      /\ queue'[r] = queue[r] \o <<Snap("emit", x), Snap("settle", z)>>
  BY DEF Reported, ReportedRun, TypeOK, Execution
<1>2. /\ mode = "up" /\ Present(r) /\ ~run[r].settled /\ ~disk[r].settled
      /\ EmitsOnly(queue[r]) /\ exec[r].terminal \in Terminal
      /\ CancellationHonoured(run[r]) /\ run[r] \in ResearchRun
  BY <1>1 DEF RunInv, ExecutionInv, Honoured, TypeOK
<1>3. /\ x \in ResearchRun /\ x.status = run[r].status /\ x.settled = run[r].settled
      /\ x.cancelRequested = run[r].cancelRequested
  BY <1>2, ReportedRunType
<1>4. CancellationHonoured(x) /\ ~x.settled
  BY <1>2, <1>3 DEF CancellationHonoured
<1>5. status \in Terminal /\ (x.status = "cancelling" => status = "cancelled")
  BY <1>2, <1>3 DEF Reconsidered, CancellationRequested, Terminal
<1>6. z \in ResearchRun /\ z.settled /\ ~z.persistenceError /\ CancellationHonoured(z)
  BY <1>3, <1>4, <1>5, SettledRunType, SettledRunFacts
<1>7. /\ Snap("emit", x) \in Snapshot /\ Snap("emit", x).run = x
      /\ Snap("settle", z) \in Snapshot /\ Snap("settle", z).run = z
  BY <1>3, <1>6, SnapType
<1>8. q \in Seq(Snapshot) /\ EmitsOnly(q)
  BY <1>3, <1>4, <1>2, <1>7, AppendToEmits, AppendFacts DEF TypeOK
<1>9. queue'[r] = Append(q, Snap("settle", z))
  BY <1>1, <1>7, Append2 DEF TypeOK
<1>10. SettleIsLast(queue'[r])
  BY <1>6, <1>8, <1>9, AppendSettle
<1>11. \A i \in 1..Len(q) : CancellationHonoured(q[i].run)
  BY <1>4, <1>7, AppendFacts DEF RunInv, Honoured, TypeOK
<1>12. \A i \in 1..Len(queue'[r]) : CancellationHonoured(queue'[r][i].run)
  BY <1>6, <1>7, <1>8, <1>9, <1>11, AppendFacts
<1>13. r \in issued
  BY <1>2 DEF RunInv, Fresh, Present, NoRun
<1>14. Present(r)' /\ ~run'[r].settled
  BY <1>1, <1>2, <1>3 DEF Present
<1>15. QED
  BY <1>1, <1>2, <1>4, <1>5, <1>10, <1>12, <1>13, <1>14
  DEF RunInv, ExecutionInv, HydrateInv, Honoured, Durable, Fresh

LEMMA EmitWrittenRunInv ==
  ASSUME TypeOK, NEW r \in RunIds, RunInv(r), NEW ok \in BOOLEAN, EmitWritten(r, ok)
  PROVE  RunInv(r)' /\ (disk[r].settled => disk'[r] = disk[r])
<1>1. /\ mode = "up" /\ queue[r] # <<>> /\ Head(queue[r]).by = "emit"
      /\ UNCHANGED <<mode, exec, issued, unread>>
      /\ queue'[r] = Tail(queue[r])
      /\ disk'[r] \in {disk[r], Head(queue[r]).run}
  BY DEF EmitWritten, Written, TypeOK
<1>2. /\ exec[r].phase # "none" /\ Present(r) /\ ~run[r].settled /\ ~disk[r].settled
      /\ r \in issued
  BY <1>1 DEF RunInv, ExecutionInv, Fresh
<1>3. /\ run'[r].status = run[r].status /\ run'[r].settled = run[r].settled
      /\ run'[r].cancelRequested = run[r].cancelRequested /\ run'[r].error = run[r].error
  BY DEF EmitWritten, TypeOK, ResearchRun
<1>4. Present(r)' /\ ~run'[r].settled /\ CancellationHonoured(run'[r])
  BY <1>2, <1>3 DEF RunInv, Honoured, CancellationHonoured, Present
<1>5. /\ Head(queue[r]) = queue[r][1] /\ Len(queue[r]) \in Nat \ {0}
      /\ Len(queue'[r]) = Len(queue[r]) - 1
      /\ \A i \in 1..(Len(queue[r]) - 1) : queue'[r][i] = queue[r][i + 1]
  BY <1>1, TailFacts DEF TypeOK
<1>6. CancellationHonoured(Head(queue[r]).run)
  BY <1>5 DEF RunInv, Honoured
<1>7. \A i \in 1..Len(queue'[r]) : CancellationHonoured(queue'[r][i].run)
  BY <1>5 DEF RunInv, Honoured
<1>8. CASE exec[r].phase = "settle"
  <2>1. SettleIsLast(queue[r])
    BY <1>8 DEF RunInv, ExecutionInv
  <2>2. SettleIsLast(queue'[r]) /\ ~Head(queue[r]).run.settled
    BY <1>1, <2>1, TailOfSettling DEF TypeOK
  <2>3. QED
    BY <1>1, <1>2, <1>4, <1>6, <1>7, <1>8, <2>2
    DEF RunInv, ExecutionInv, HydrateInv, Honoured, Durable, Fresh
<1>9. CASE exec[r].phase # "settle"
  <2>1. EmitsOnly(queue[r])
    BY <1>2, <1>9 DEF RunInv, ExecutionInv, TypeOK, Execution, Phase
  <2>2. EmitsOnly(queue'[r]) /\ ~Head(queue[r]).run.settled
    BY <1>1, <2>1, TailOfEmits DEF TypeOK
  <2>3. QED
    BY <1>1, <1>2, <1>4, <1>6, <1>7, <1>9, <2>2
    DEF RunInv, ExecutionInv, HydrateInv, Honoured, Durable, Fresh
<1>10. QED BY <1>8, <1>9

LEMMA SettleWrittenRunInv ==
  ASSUME TypeOK, NEW r \in RunIds, RunInv(r), NEW ok \in BOOLEAN, SettleWritten(r, ok)
  PROVE  RunInv(r)' /\ (disk[r].settled => disk'[r] = disk[r])
<1> DEFINE x == Head(queue[r]).run
<1>1. /\ mode = "up" /\ queue[r] # <<>> /\ Head(queue[r]).by = "settle"
      /\ UNCHANGED <<mode, issued, unread>>
      /\ queue'[r] = Tail(queue[r]) /\ exec'[r] = NotExecuting
      /\ run'[r] = [x EXCEPT !.persistenceError = ~ok]
      /\ disk'[r] = IF ok THEN x ELSE disk[r]
  BY DEF SettleWritten, Written, SettledInMemory, TypeOK
<1>2. /\ exec[r].phase # "none" /\ Present(r) /\ ~disk[r].settled /\ r \in issued
  BY <1>1 DEF RunInv, ExecutionInv, Fresh
<1>3. exec[r].phase = "settle"
  <2>1. SUFFICES ASSUME EmitsOnly(queue[r]) PROVE FALSE
    BY <1>2 DEF RunInv, ExecutionInv, TypeOK, Execution, Phase
  <2>2. QED BY <1>1, <2>1, TailOfEmits DEF TypeOK
<1>4. queue'[r] = <<>> /\ x.settled /\ ~x.persistenceError
  BY <1>1, <1>3, TailOfSettling DEF RunInv, ExecutionInv, TypeOK
<1>5. x \in ResearchRun /\ CancellationHonoured(x)
  <2>1. Head(queue[r]) = queue[r][1] /\ 1 \in 1..Len(queue[r]) /\ Head(queue[r]) \in Snapshot
    BY <1>1, TailFacts DEF TypeOK
  <2>2. QED BY <2>1 DEF RunInv, Honoured, Snapshot
<1>6. /\ run'[r].settled /\ run'[r].status = x.status
      /\ run'[r].cancelRequested = x.cancelRequested /\ run'[r].error = x.error
      /\ run'[r].persistenceError = ~ok
  BY <1>1, <1>4, <1>5 DEF ResearchRun
<1>7. CancellationHonoured(run'[r])
  BY <1>4, <1>5, <1>6 DEF CancellationHonoured
<1>8. ok => run'[r] = x
  BY <1>1, <1>4, <1>5 DEF ResearchRun
<1>9. exec'[r].phase = "none"
  BY <1>1 DEF NotExecuting
<1>10. Honoured(r)'
  <2>1. Len(queue'[r]) = 0
    BY <1>4, EmptySeq
  <2>2. CancellationHonoured(disk'[r])
    BY <1>1, <1>5 DEF RunInv, Honoured
  <2>3. QED BY <1>7, <2>1, <2>2 DEF Honoured
<1>11. ExecutionInv(r)' /\ HydrateInv(r)' /\ Fresh(r)'
  BY <1>1, <1>2, <1>4, <1>6, <1>9 DEF RunInv, ExecutionInv, HydrateInv, Fresh
<1>12. Durable(r)'
  BY <1>1, <1>6, <1>8 DEF Durable
<1>13. QED
  BY <1>2, <1>10, <1>11, <1>12 DEF RunInv

-----------------------------------------------------------------------------
(* hydrate() *)

LEMMA HydrateFinishedRunInv ==
  ASSUME TypeOK, NEW r \in RunIds, RunInv(r), HydrateFinished(r)
  PROVE  RunInv(r)'
<1>1. /\ mode = "hydrating" /\ queue[r] = <<>> /\ r \in unread /\ run'[r] = disk[r]
      /\ UNCHANGED <<mode, exec, queue, disk, issued>> /\ r \notin unread'
      /\ disk[r].status \notin Unfinished /\ disk[r].status \in RunStatus \cup {"absent"}
  BY DEF HydrateFinished, HydrateIdle, TypeOK, ResearchRun
<1>2. exec[r].phase = "none"
  BY <1>1 DEF RunInv, ExecutionInv
<1>3. Present(r)' => run'[r].settled
  BY <1>1 DEF RunInv, Honoured, CancellationHonoured, RunStatus, Present
<1>4. Fresh(r)'
  BY <1>1 DEF RunInv, Fresh
<1>5. QED
  BY <1>1, <1>2, <1>3, <1>4 DEF RunInv, ExecutionInv, HydrateInv, Honoured, Durable

LEMMA HydrateUnfinishedRunInv ==
  ASSUME TypeOK, NEW r \in RunIds, RunInv(r), HydrateUnfinished(r)
  PROVE  RunInv(r)'
<1> DEFINE x == RestartedRun(disk[r])
<1>1. /\ mode = "hydrating" /\ queue[r] = <<>> /\ r \in unread
      /\ queue'[r] = <<Snap("hydrate", x)>>
      /\ UNCHANGED <<mode, run, exec, disk, issued>> /\ r \notin unread'
      /\ disk[r].status \in Unfinished /\ disk[r] \in ResearchRun
  BY DEF HydrateUnfinished, HydrateIdle, TypeOK
<1>2. /\ x.settled = TRUE /\ x.status = "failed" /\ x.error = "SERVICE_RESTARTED"
  BY <1>1 DEF RestartedRun, ResearchRun
<1>3. CancellationHonoured(x)
  BY <1>2 DEF CancellationHonoured, Terminal
<1>4. ~disk[r].settled
  BY <1>1 DEF RunInv, Honoured, CancellationHonoured, Unfinished, Terminal
<1>5. /\ Snap("hydrate", x).by = "hydrate" /\ Snap("hydrate", x).run = x
  BY DEF Snap
<1>6. /\ Len(queue'[r]) = 1 /\ queue'[r][1] = Snap("hydrate", x)
      /\ Head(queue'[r]) = Snap("hydrate", x)
  BY <1>1
<1>7. exec[r].phase = "none" /\ ~Present(r)
  BY <1>1 DEF RunInv, ExecutionInv, HydrateInv
<1>8. Honoured(r)'
  BY <1>1, <1>3, <1>5, <1>6 DEF RunInv, Honoured
<1>9. Fresh(r)'
  BY <1>1 DEF RunInv, Fresh, NoRun, Unfinished
<1>10. HydrateInv(r)'
  BY <1>1, <1>2, <1>4, <1>5, <1>6, <1>7 DEF HydrateInv, Present
<1>11. QED
  BY <1>1, <1>7, <1>8, <1>9, <1>10 DEF RunInv, ExecutionInv, Durable, Present

LEMMA HydrateWrittenRunInv ==
  ASSUME TypeOK, NEW r \in RunIds, RunInv(r), HydrateWritten(r)
  PROVE  RunInv(r)' /\ (disk[r].settled => disk'[r] = disk[r])
<1> DEFINE x == Head(queue[r]).run
<1>1. /\ mode = "hydrating" /\ queue[r] # <<>> /\ queue'[r] = Tail(queue[r])
      /\ run'[r] = x /\ disk'[r] = x /\ UNCHANGED <<mode, exec, issued, unread>>
  BY DEF HydrateWritten, Written, TypeOK
<1>2. /\ queue[r] = <<Head(queue[r])>> /\ x.settled /\ x.status # "absent"
      /\ ~disk[r].settled /\ r \notin unread
  BY <1>1 DEF RunInv, HydrateInv
<1>3. Len(queue[r]) = 1 /\ queue[r][1] = Head(queue[r])
  BY <1>2
<1>4. CancellationHonoured(x)
  BY <1>3 DEF RunInv, Honoured
<1>5. queue'[r] = <<>>
  BY <1>1, <1>3, TailFacts DEF TypeOK
<1>6. Honoured(r)'
  <2>1. Len(queue'[r]) = 0
    BY <1>5, EmptySeq
  <2>2. CancellationHonoured(run'[r]) /\ CancellationHonoured(disk'[r])
    BY <1>1, <1>4
  <2>3. QED BY <2>1, <2>2 DEF Honoured
<1>7. exec[r].phase = "none" /\ r \in issued
  BY <1>1 DEF RunInv, ExecutionInv, Fresh
<1>8. ExecutionInv(r)' /\ HydrateInv(r)' /\ Durable(r)' /\ Fresh(r)'
  BY <1>1, <1>2, <1>7, <1>5
  DEF RunInv, ExecutionInv, HydrateInv, Durable, Fresh, Present
<1>9. QED BY <1>2, <1>8, <1>6 DEF RunInv

LEMMA RestartRunInv ==
  ASSUME TypeOK, NEW r \in RunIds, RunInv(r), Restart
  PROVE  RunInv(r)'
<1>1. /\ mode = "down" /\ mode' = "hydrating"
      /\ UNCHANGED <<run, exec, queue, disk, issued>>
  BY DEF Restart
<1>2. exec[r].phase = "none" /\ queue[r] = <<>>
  BY <1>1 DEF RunInv, ExecutionInv
<1>3. QED
  BY <1>1, <1>2 DEF RunInv, ExecutionInv, HydrateInv, Honoured, Durable, Fresh, Present

LEMMA ServeRunInv ==
  ASSUME TypeOK, NEW r \in RunIds, RunInv(r), Serve
  PROVE  RunInv(r)'
<1>1. /\ mode = "hydrating" /\ mode' = "up" /\ queue[r] = <<>> /\ unread = {}
      /\ UNCHANGED <<run, exec, queue, disk, issued, unread>>
  BY DEF Serve, HydrateIdle
<1>2. exec[r].phase = "none"
  BY <1>1 DEF RunInv, ExecutionInv
<1>3. QED
  BY <1>1, <1>2 DEF RunInv, ExecutionInv, HydrateInv, Honoured, Durable, Fresh, Present

-----------------------------------------------------------------------------
(* The theorems *)

\* A step of run r leaves the other runs alone, but for the pruning in start.
LEMMA OthersUntouched ==
  ASSUME TypeOK, NEW r \in RunIds, RunStep(r), ~Start(r), ~HydrateAborts(r),
         NEW s \in RunIds, s # r, RunInv(s)
  PROVE  RunInv(s)' /\ disk'[s] = disk[s]
<1>1. /\ mode' = mode /\ issued' = issued
      /\ run'[s] = run[s] /\ exec'[s] = exec[s] /\ queue'[s] = queue[s]
      /\ disk'[s] = disk[s] /\ (s \in unread' <=> s \in unread)
  BY DEF RunStep, TypeOK, Cancel, SignalAborts, DeadlineFires, AgentEvent,
         AgentReturns, Flushed, Reported, EmitWritten, SettleWritten, Written,
         HydrateFinished, HydrateUnfinished, HydrateWritten, Emit
<1>2. QED BY <1>1, Untouched

\* One step of one run: the invariant of every run, and no outcome on disk
\* is touched.
LEMMA RunStepInv ==
  ASSUME TypeOK, \A t \in RunIds : RunInv(t), NEW r \in RunIds, RunStep(r), NEW s \in RunIds
  PROVE  RunInv(s)' /\ (disk[s].settled => disk'[s] = disk[s])
<1>1. CASE Start(r)
  BY <1>1, StartRunInv DEF Start
<1>2. CASE HydrateAborts(r)
  BY <1>2, LostRunInv DEF HydrateAborts
<1>3. CASE s # r /\ ~Start(r) /\ ~HydrateAborts(r)
  BY <1>3, OthersUntouched
<1>4. CASE s = r /\ ~Start(r) /\ ~HydrateAborts(r)
  <2>1. CASE Cancel(r)
    BY <1>4, <2>1, CancelRunInv DEF Cancel
  <2>2. CASE DeadlineFires(r)
    BY <1>4, <2>2, DeadlineRunInv DEF DeadlineFires
  <2>3. CASE AgentEvent(r)
    BY <1>4, <2>3, AgentEventRunInv DEF AgentEvent
  <2>4. CASE \E outcome \in Outcome : AgentReturns(r, outcome)
    BY <1>4, <2>4, AgentReturnsRunInv DEF AgentReturns
  <2>5. CASE \E ok \in BOOLEAN : Flushed(r, ok)
    BY <1>4, <2>5, FlushedRunInv DEF Flushed
  <2>6. CASE \E ok \in BOOLEAN : Reported(r, ok)
    BY <1>4, <2>6, ReportedRunInv DEF Reported
  <2>7. CASE \E ok \in BOOLEAN : EmitWritten(r, ok)
    BY <1>4, <2>7, EmitWrittenRunInv
  <2>8. CASE \E ok \in BOOLEAN : SettleWritten(r, ok)
    BY <1>4, <2>8, SettleWrittenRunInv
  <2>9. CASE HydrateFinished(r)
    BY <1>4, <2>9, HydrateFinishedRunInv DEF HydrateFinished
  <2>10. CASE HydrateUnfinished(r)
    BY <1>4, <2>10, HydrateUnfinishedRunInv DEF HydrateUnfinished
  <2>11. CASE HydrateWritten(r)
    BY <1>4, <2>11, HydrateWrittenRunInv
  <2>12. QED
    BY <1>4, <2>1, <2>2, <2>3, <2>4, <2>5, <2>6, <2>7, <2>8, <2>9, <2>10, <2>11 DEF RunStep
<1>5. QED BY <1>1, <1>2, <1>3, <1>4

\* Every step: IInv is inductive, and outcomes on disk are final.
LEMMA StepInv ==
  ASSUME IInv, [Next]_vars
  PROVE  IInv' /\ \A s \in RunIds : disk[s].settled => disk'[s] = disk[s]
<1>1. TypeOK /\ \A s \in RunIds : RunInv(s)
  BY DEF IInv
<1>2. TypeOK'
  BY <1>1, TypeCorrectStep DEF RunInv
<1>3. ASSUME NEW s \in RunIds
      PROVE  RunInv(s)' /\ (disk[s].settled => disk'[s] = disk[s])
  <2>1. CASE \E r \in RunIds : RunStep(r)
    BY <1>1, <2>1, RunStepInv
  <2>2. CASE StartRejected
    BY <1>1, <2>2, RejectRunInv DEF StartRejected
  <2>3. CASE Crash
    BY <1>1, <2>3, LostRunInv DEF Crash
  <2>4. CASE Restart
    BY <1>1, <2>4, RestartRunInv DEF Restart
  <2>5. CASE Serve
    BY <1>1, <2>5, ServeRunInv DEF Serve
  <2>6. CASE UNCHANGED vars
    BY <1>1, <2>6, Untouched DEF vars
  <2>7. QED BY <2>1, <2>2, <2>3, <2>4, <2>5, <2>6 DEF Next
<1>4. QED BY <1>2, <1>3 DEF IInv

\* The inductive invariant, from which the theorems below follow.
THEOREM InductiveInvariant == Spec => []IInv
<1>1. Init => IInv
  BY TypeCorrectInit, InitRunInv DEF IInv
<1>2. IInv /\ [Next]_vars => IInv'
  BY StepInv
<1>3. QED BY <1>1, <1>2, PTL DEF Spec

\* Type correctness of the run manager.
THEOREM TypeCorrect == Spec => []TypeOK
<1>1. IInv => TypeOK
  BY DEF IInv
<1>2. QED BY <1>1, InductiveInvariant, PTL

\* A cancellation that was acknowledged decides the outcome, in memory and on
\* disk, unless the process dies before (cancel, execute, settleRun, hydrate).
THEOREM CancellationWins == Spec => []AcknowledgedCancelWins
<1>1. IInv => AcknowledgedCancelWins
  BY DEF IInv, RunInv, Honoured, AcknowledgedCancelWins
<1>2. QED BY <1>1, InductiveInvariant, PTL

\* What is shown as settled without a persistenceError is on disk as it is
\* shown (settleRun and the persistence chain).
THEOREM SettledRunsAreDurable == Spec => []SettledIsDurable
<1>1. IInv => SettledIsDurable
  BY DEF IInv, RunInv, Durable, SettledIsDurable
<1>2. QED BY <1>1, InductiveInvariant, PTL

\* An outcome on disk is never overwritten, by this process or a later one
\* (persist, hydrate).
THEOREM OutcomesOnDiskAreFinal == Spec => DiskOutcomeIsFinal
<1>1. IInv /\ [Next]_vars => [\A r \in RunIds : disk[r].settled => disk'[r] = disk[r]]_vars
  BY StepInv
<1>2. QED BY <1>1, InductiveInvariant, PTL DEF Spec, DiskOutcomeIsFinal

\* Pruning for capacity never drops a run that is still executing
\* (start, pruneFinishedRuns).
THEOREM ExecutionsStayReachable == Spec => []ExecutionIsReachable
<1>1. IInv => ExecutionIsReachable
  BY DEF IInv, RunInv, ExecutionInv, ExecutionIsReachable
<1>2. QED BY <1>1, InductiveInvariant, PTL

-----------------------------------------------------------------------------
(* Logs *)

Logs == Seq(EventType)

LEMMA PrefixByElement ==
  ASSUME NEW s \in Logs, NEW t \in Logs
  PROVE  PrefixOf(s, t) <=> /\ Len(s) <= Len(t)
                            /\ \A i \in 1..Len(s) : s[i] = t[i]
<1>1. Len(s) \in Nat /\ Len(t) \in Nat /\ DOMAIN s = 1..Len(s) /\ DOMAIN t = 1..Len(t)
  BY DEF Logs
<1>2. SUFFICES ASSUME Len(s) <= Len(t)
               PROVE  SubSeq(t, 1, Len(s)) = s <=> \A i \in 1..Len(s) : s[i] = t[i]
  BY DEF PrefixOf
<1>3. /\ SubSeq(t, 1, Len(s)) \in Seq(EventType)
      /\ Len(SubSeq(t, 1, Len(s))) = Len(s)
      /\ \A i \in 1..Len(s) : SubSeq(t, 1, Len(s))[i] = t[i]
  BY <1>1, <1>2, SubSeqProperties DEF Logs
<1>4. (\A i \in 1..Len(s) : s[i] = t[i]) => SubSeq(t, 1, Len(s)) = s
  BY <1>1, <1>3, SeqEqual DEF Logs
<1> QED
  BY <1>3, <1>4

LEMMA PrefixFacts ==
  ASSUME NEW s \in Logs, NEW t \in Logs, PrefixOf(s, t)
  PROVE  /\ PrefixOf(s, s) /\ PrefixOf(t, t)
         /\ \A u \in Logs : PrefixOf(t, u) => PrefixOf(s, u)
         /\ \A e \in EventType : PrefixOf(s, Append(t, e))
         /\ s # <<>> => t # <<>>
<1>1. PrefixOf(s, s) /\ PrefixOf(t, t)
  BY PrefixByElement DEF Logs
<1>2. ASSUME NEW u \in Logs, PrefixOf(t, u) PROVE PrefixOf(s, u)
  <2>1. Len(s) \in Nat /\ Len(t) \in Nat /\ Len(u) \in Nat
    BY DEF Logs
  <2> QED
    BY <1>2, <2>1, PrefixByElement
<1>3. ASSUME NEW e \in EventType PROVE PrefixOf(s, Append(t, e))
  <2>1. /\ Append(t, e) \in Logs /\ Len(Append(t, e)) = Len(t) + 1
        /\ \A i \in 1..Len(t) : Append(t, e)[i] = t[i]
        /\ Len(s) \in Nat /\ Len(t) \in Nat
    BY AppendProperties DEF Logs
  <2>2. Len(s) <= Len(t) /\ \A i \in 1..Len(s) : s[i] = t[i]
    BY PrefixByElement
  <2>3. Len(s) <= Len(Append(t, e)) /\ \A i \in 1..Len(s) : s[i] = Append(t, e)[i]
    BY <2>1, <2>2
  <2>4. Append(t, e) \in Logs
    BY <2>1
  <2> QED
    BY <2>3, <2>4, PrefixByElement
<1>4. s # <<>> => t # <<>>
  BY PrefixByElement, EmptySeq DEF Logs
<1> QED
  BY <1>1, <1>2, <1>3, <1>4

LEMMA PrefixOfItself ==
  ASSUME NEW s \in Logs
  PROVE  PrefixOf(s, s) /\ PrefixOf(<<>>, s) /\ <<>> \in Logs
<1>1. <<>> \in Logs /\ Len(<<>>) = 0
  BY DEF Logs
<1>2. PrefixOf(s, s)
  BY PrefixByElement DEF Logs
<1>3. \A t \in Logs : Len(t) = 0 => PrefixOf(t, s)
  <2>1. Len(s) \in Nat
    BY DEF Logs
  <2> QED
    BY <2>1, PrefixByElement
<1> QED
  BY <1>1, <1>2, <1>3

-----------------------------------------------------------------------------
(* Chains of logs *)

LEMMA SnapshotLog ==
  ASSUME NEW q \in Seq(Snapshot), NEW i \in 1..Len(q)
  PROVE  /\ q[i] \in Snapshot /\ q[i].run \in ResearchRun /\ q[i].run.events \in Logs
<1>1. q[i] \in Snapshot
  OBVIOUS
<1>2. q[i].run \in ResearchRun
  BY <1>1 DEF Snapshot
<1> QED
  BY <1>1, <1>2 DEF ResearchRun, Logs

\* What is appended continues the memory's log, and with it every log before.
LEMMA ChainAppend ==
  ASSUME NEW first \in Logs, NEW q \in Seq(Snapshot), NEW last \in Logs, NEW last2 \in Logs,
         Chain(first, q, last), \A i \in 1..Len(q) : q[i].by = "emit",
         PrefixOf(first, last), PrefixOf(last, last2),
         NEW s \in Snapshot, PrefixOf(last, s.run.events),
         s.by = "emit" => last2 = s.run.events
  PROVE  Chain(first, Append(q, s), last2)
<1> DEFINE p == Append(q, s)
<1>1. /\ p \in Seq(Snapshot) /\ Len(p) = Len(q) + 1 /\ Len(q) \in Nat
      /\ p[Len(q) + 1] = s /\ \A i \in 1..Len(q) : p[i] = q[i]
  BY AppendFacts
<1>2. s.run.events \in Logs
  BY DEF Snapshot, ResearchRun, Logs
<1> HIDE DEF p
<1>3. PrefixOf(first, s.run.events) /\ PrefixOf(s.run.events, s.run.events)
  BY <1>2, PrefixFacts
<1> SUFFICES ASSUME NEW i \in 1..Len(p)
             PROVE  /\ PrefixOf(first, p[i].run.events)
                    /\ \A j \in i..Len(p) : PrefixOf(p[i].run.events, p[j].run.events)
                    /\ p[i].by = "emit" => PrefixOf(p[i].run.events, last2)
  BY DEF Chain, p
<1>4. CASE i = Len(q) + 1
  <2>1. \A j \in i..Len(p) : j = i
    BY <1>1, <1>4
  <2> QED
    BY <1>1, <1>3, <1>4, <2>1
<1>5. CASE i \in 1..Len(q)
  <2>1. /\ PrefixOf(first, q[i].run.events) /\ PrefixOf(q[i].run.events, last)
        /\ \A j \in i..Len(q) : PrefixOf(q[i].run.events, q[j].run.events)
        /\ q[i].run.events \in Logs
    BY <1>5, SnapshotLog DEF Chain
  <2>2. PrefixOf(q[i].run.events, s.run.events) /\ PrefixOf(q[i].run.events, last2)
    BY <1>2, <2>1, PrefixFacts
  <2>3. \A j \in i..Len(p) : j \in i..Len(q) \/ j = Len(q) + 1
    BY <1>1, <1>5
  <2>4. \A j \in i..Len(q) : j \in 1..Len(q)
    BY <1>1, <1>5
  <2> QED
    BY <1>1, <1>5, <2>1, <2>2, <2>3, <2>4
<1> QED
  BY <1>1, <1>4, <1>5

\* Writing the oldest snapshot, or failing to.
LEMMA ChainTail ==
  ASSUME NEW first, NEW q \in Seq(Snapshot), NEW last, q # <<>>, Chain(first, q, last)
  PROVE  /\ Chain(first, Tail(q), last) /\ Chain(Head(q).run.events, Tail(q), last)
         /\ PrefixOf(first, Head(q).run.events)
         /\ Head(q).by = "emit" => PrefixOf(Head(q).run.events, last)
<1>1. /\ Len(Tail(q)) = Len(q) - 1 /\ Len(q) \in Nat \ {0} /\ Head(q) = q[1]
      /\ \A i \in 1..(Len(q) - 1) : Tail(q)[i] = q[i + 1]
  BY TailFacts
<1>2. ASSUME NEW i \in 1..Len(Tail(q))
      PROVE  /\ PrefixOf(first, Tail(q)[i].run.events)
             /\ PrefixOf(Head(q).run.events, Tail(q)[i].run.events)
             /\ \A j \in i..Len(Tail(q)) : PrefixOf(Tail(q)[i].run.events, Tail(q)[j].run.events)
             /\ Tail(q)[i].by = "emit" => PrefixOf(Tail(q)[i].run.events, last)
  <2>1. i + 1 \in 1..Len(q) /\ 1 \in 1..Len(q) /\ i + 1 \in 1..Len(q) /\ Tail(q)[i] = q[i + 1]
    BY <1>1
  <2>2. \A j \in i..Len(Tail(q)) : j + 1 \in (i + 1)..Len(q) /\ Tail(q)[j] = q[j + 1]
    BY <1>1
  <2> QED
    BY <1>1, <2>1, <2>2 DEF Chain
<1>3. 1 \in 1..Len(q)
  BY <1>1
<1>4. Chain(first, Tail(q), last) /\ Chain(Head(q).run.events, Tail(q), last)
  BY <1>2 DEF Chain
<1> QED
  BY <1>1, <1>3, <1>4 DEF Chain

-----------------------------------------------------------------------------
(* Sound runs *)

ReportEvents == {"report.completed", "report.failed"}

LEMMA EventKinds ==
  /\ TerminalEvents = {"run.completed", "run.interrupted", "run.failed", "run.cancelled"}
  /\ \A status \in Terminal : TerminalEvent(status) \in TerminalEvents
  /\ TerminalEvent("failed") = "run.failed"
<1>1. \A status \in Terminal : TerminalEvent(status) \in TerminalEvents
  BY DEF TerminalEvents
<1>2. /\ TerminalEvent("completed") = "run.completed" /\ TerminalEvent("failed") = "run.failed"
      /\ TerminalEvent("interrupted") = "run.interrupted"
      /\ TerminalEvent("cancelled") = "run.cancelled"
  BY DEF TerminalEvent
<1> QED
  BY <1>1, <1>2 DEF TerminalEvents, Terminal

\* The log of a run that goes on has no terminal event.
LEMMA GoingOn ==
  ASSUME NEW r, NEW x \in ResearchRun, ~x.settled, Sound(r, x),
         NEW y \in ResearchRun, ~y.settled, NEW s
  PROVE  /\ y.events = x.events /\ x.events # <<>> => Sound(s, y)
         /\ \A type \in EventType \ TerminalEvents :
              y.events = Append(x.events, type) => Sound(s, y)
<1>1. x.events \in Seq(EventType) /\ Len(x.events) \in Nat
  BY DEF ResearchRun
<1>2. \A i \in 1..Len(x.events) : x.events[i] \notin TerminalEvents
  BY DEF Sound, EndsOnce
<1>3. ReportTells(s, y)
  BY DEF ReportTells
<1>4. y.events = x.events /\ x.events # <<>> => Sound(s, y)
  BY <1>2, <1>3 DEF Sound, EndsOnce
<1>5. ASSUME NEW type \in EventType \ TerminalEvents, y.events = Append(x.events, type)
      PROVE  Sound(s, y)
  <2>1. /\ Len(y.events) = Len(x.events) + 1 /\ y.events[Len(x.events) + 1] = type
        /\ \A i \in 1..Len(x.events) : y.events[i] = x.events[i]
    BY <1>1, <1>5, AppendProperties
  <2>2. y.events # <<>>
    BY <1>1, <1>5, AppendProperties, EmptySeq
  <2>3. \A i \in 1..Len(y.events) : y.events[i] \notin TerminalEvents
    BY <1>1, <1>2, <2>1
  <2> QED
    BY <1>3, <2>2, <2>3 DEF Sound, EndsOnce
<1> QED
  BY <1>4, <1>5

\* Settling appends the one terminal event.
LEMMA Ending ==
  ASSUME NEW r, NEW x \in ResearchRun, ~x.settled, Sound(r, x),
         NEW y \in ResearchRun, y.settled = TRUE, y.status \in Terminal,
         y.events = Append(x.events, TerminalEvent(y.status))
  PROVE  EndsOnce(y) /\ y.events # <<>>
<1>1. x.events \in Seq(EventType) /\ Len(x.events) \in Nat
  BY DEF ResearchRun
<1>2. \A i \in 1..Len(x.events) : x.events[i] \notin TerminalEvents
  BY DEF Sound, EndsOnce
<1>3. TerminalEvent(y.status) \in TerminalEvents /\ TerminalEvent(y.status) \in EventType
  BY EventKinds, TerminalEventType
<1>4. /\ Len(y.events) = Len(x.events) + 1
      /\ y.events[Len(x.events) + 1] = TerminalEvent(y.status)
      /\ \A i \in 1..Len(x.events) : y.events[i] = x.events[i]
  BY <1>1, <1>3, AppendProperties
<1>5. y.events # <<>>
  BY <1>1, <1>3, AppendProperties, EmptySeq
<1>6. ASSUME NEW i \in 1..Len(y.events)
      PROVE  y.events[i] \in TerminalEvents <=> i = Len(y.events)
  <2>1. i \in 1..Len(x.events) \/ i = Len(x.events) + 1
    BY <1>1, <1>4
  <2>2. i \in 1..Len(x.events) => i # Len(x.events) + 1
    BY <1>1
  <2> QED
    BY <1>2, <1>3, <1>4, <2>1, <2>2
<1> QED
  BY <1>4, <1>5, <1>6 DEF EndsOnce

-----------------------------------------------------------------------------
(* The steps of one run *)

LEMMA LogUntouched ==
  ASSUME NEW s \in RunIds, LogInv(s),
         mode' = mode, run'[s] = run[s], exec'[s] = exec[s], queue'[s] = queue[s],
         disk'[s] = disk[s], report'[s] = report[s],
         s \in unread' <=> s \in unread, s \notin issued' => s \notin issued
  PROVE  LogInv(s)'
  BY DEF LogInv, ChainInv, SoundInv, Sound, ReportTells, DecidedInv, FailedInv, Present

\* What is stored of a run, and what is known of it by type.
LEMMA RunLogs ==
  ASSUME TypeOK, NEW r \in RunIds
  PROVE  /\ run[r] \in ResearchRun /\ disk[r] \in ResearchRun /\ queue[r] \in Seq(Snapshot)
         /\ run[r].events \in Logs /\ disk[r].events \in Logs
<1>1. run[r] \in ResearchRun /\ disk[r] \in ResearchRun /\ queue[r] \in Seq(Snapshot)
  BY DEF TypeOK
<1> QED
  BY <1>1 DEF ResearchRun, Logs

LEMMA NothingStored ==
  /\ NoRun.events = <<>> /\ NoRun.status = "absent" /\ ~NoRun.settled
  /\ Len(NoRun.events) = 0
  /\ \A r : Sound(r, NoRun)
<1>1. NoRun.events = <<>> /\ NoRun.status = "absent" /\ NoRun.settled = FALSE
  BY DEF NoRun
<1>2. Len(NoRun.events) = 0
  BY <1>1
<1> QED
  BY <1>1, <1>2 DEF Sound, EndsOnce, ReportTells

\* A run that is dropped from memory: nothing of it is left but the files.
LEMMA LogDropped ==
  ASSUME NEW s \in RunIds, LogInv(s), run'[s] = NoRun, exec'[s] = NotExecuting,
         queue'[s] = <<>>, disk'[s] = disk[s], report'[s] = report[s],
         s \in unread' => s \in unread, s \notin issued' => s \notin issued
  PROVE  LogInv(s)'
<1>1. Len(queue'[s]) = 0 /\ exec'[s].phase = "none"
  BY DEF NotExecuting
<1>2. ChainInv(s)'
  BY <1>1, NothingStored DEF ChainInv, Chain, Present
<1>3. SoundInv(s)'
  BY <1>1, NothingStored DEF LogInv, SoundInv, Sound, ReportTells
<1>4. DecidedInv(s)' /\ FailedInv(s)'
  BY <1>1, NothingStored DEF LogInv, DecidedInv, FailedInv
<1> QED
  BY <1>2, <1>3, <1>4 DEF LogInv

\* emit() on an open run: memory and the newest snapshot get the event.
LEMMA EmitLog ==
  ASSUME TypeOK, NEW r \in RunIds, RunInv(r), LogInv(r), Present(r), ~Closed(r),
         NEW x \in ResearchRun, x.events = run[r].events, ~x.settled, x.status # "absent",
         NEW type \in EventType \ TerminalEvents, Emit(r, x, type),
         disk' = disk, report' = report
  PROVE  /\ ChainInv(r)' /\ SoundInv(r)'
         /\ run'[r].status = x.status
         /\ run'[r].events = Append(run[r].events, type)
         /\ type \notin ReportEvents /\ ~HasReport(run[r]) => ~HasReport(run'[r])
<1> DEFINE y == WithEvent(x, type)
           s == Snap("emit", y)
<1>1. y \in ResearchRun /\ s \in Snapshot /\ s.by = "emit" /\ s.run = y
  BY WithEventType, SnapType
<1>2. /\ y.events = Append(run[r].events, type) /\ y.status = x.status /\ ~y.settled
  BY DEF WithEvent, ResearchRun
<1>3. run'[r] = y /\ queue'[r] = Append(queue[r], s)
  BY DEF Emit, TypeOK
<1> HIDE DEF y, s
<1>4. EmitsOnly(queue[r])
  BY DEF RunInv, ExecutionInv, Closed, TypeOK, Execution, Phase
<1>5. /\ PrefixOf(disk[r].events, run[r].events) /\ Chain(disk[r].events, queue[r], run[r].events)
      /\ run[r].events \in Logs /\ y.events \in Logs
      /\ disk[r].events \in Logs /\ queue[r] \in Seq(Snapshot)
  BY <1>1, RunLogs DEF LogInv, ChainInv, ResearchRun, Logs
<1>6. PrefixOf(run[r].events, y.events) /\ PrefixOf(disk[r].events, y.events)
  BY <1>2, <1>5, PrefixFacts
<1>7. ChainInv(r)'
  <2>1. \A i \in 1..Len(queue[r]) : queue[r][i].by = "emit"
    BY <1>4 DEF EmitsOnly
  <2>2. Chain(disk[r].events, Append(queue[r], s), y.events)
    BY <1>1, <1>5, <1>6, <2>1, ChainAppend
  <2> QED
    BY <1>3, <1>6, <2>2 DEF ChainInv
<1>8. SoundInv(r)'
  <2>1. Sound(r, run[r]) /\ Sound(r, disk[r])
        /\ \A i \in 1..Len(queue[r]) : Sound(r, queue[r][i].run)
    BY DEF LogInv, SoundInv
  <2>2. ~run[r].settled /\ run[r] \in ResearchRun
    BY RunLogs DEF Closed
  <2>3. Sound(r, y)
    BY <1>1, <1>2, <2>1, <2>2, GoingOn
  <2>4. \A i \in 1..Len(queue'[r]) : Sound(r, queue'[r][i].run)
    BY <1>1, <1>3, <1>5, <2>1, <2>3, AppendFacts
  <2> QED
    BY <1>3, <2>1, <2>3, <2>4 DEF SoundInv, Sound, ReportTells
<1>9. type \notin ReportEvents /\ ~HasReport(run[r]) => ~HasReport(y)
  <2>1. /\ Len(y.events) = Len(run[r].events) + 1 /\ y.events[Len(run[r].events) + 1] = type
        /\ \A i \in 1..Len(run[r].events) : y.events[i] = run[r].events[i]
        /\ Len(run[r].events) \in Nat
    BY <1>2, <1>5, AppendProperties DEF Logs
  <2>2. \A i \in 1..Len(y.events) : i \in 1..Len(run[r].events) \/ i = Len(run[r].events) + 1
    BY <2>1
  <2> QED
    BY <2>1, <2>2 DEF HasReport, ReportEvents
<1> QED
  BY <1>2, <1>3, <1>7, <1>8, <1>9

\* An open run that stays open.
LEMMA OpenLog ==
  ASSUME TypeOK, NEW r \in RunIds, RunInv(r), LogInv(r), Present(r), ~Closed(r), mode = "up",
         mode' = mode, unread' = unread, issued' = issued, disk' = disk, report' = report,
         exec'[r].phase \in {"agent", "flush", "report"},
         exec'[r].terminal = "cancelled" => run'[r].status = "cancelling",
         run'[r].status \in {"running", "cancelling"},
         ChainInv(r)', SoundInv(r)', ~HasReport(run'[r])
  PROVE  LogInv(r)'
<1>1. report[r] = "none" /\ r \in issued
  BY DEF LogInv, DecidedInv, RunInv, ExecutionInv, Fresh, Closed, TypeOK, Execution, Phase,
         Present, NoRun
<1>2. DecidedInv(r)'
  BY <1>1 DEF DecidedInv, Present
<1>3. FailedInv(r)'
  BY DEF LogInv, FailedInv
<1> QED
  BY <1>2, <1>3 DEF LogInv

LEMMA OpenRun ==
  ASSUME TypeOK, NEW r \in RunIds, RunInv(r), LogInv(r),
         exec[r].phase \in {"agent", "flush", "report"} \/ (Present(r) /\ ~Closed(r))
  PROVE  /\ exec[r].phase \in {"agent", "flush", "report"} /\ Present(r) /\ ~Closed(r)
         /\ run[r].status \in {"running", "cancelling"} /\ ~run[r].settled
         /\ ~HasReport(run[r]) /\ r \in issued /\ EmitsOnly(queue[r]) /\ ~disk[r].settled
         /\ exec[r].terminal = "cancelled" => run[r].status = "cancelling"
<1>1. exec[r].phase \in {"agent", "flush", "report"} /\ Present(r) /\ ~Closed(r)
  BY DEF RunInv, ExecutionInv, Closed, TypeOK, Execution, Phase
<1>2. run[r].status \in {"running", "cancelling"} /\ ~run[r].settled
  <2>1. ~run[r].settled /\ run[r].status \notin Terminal
    BY <1>1 DEF Closed, RunInv, Honoured, CancellationHonoured
  <2>2. run[r].status # "queued" /\ run[r].status # "absent"
    BY <1>1 DEF LogInv, DecidedInv, Present
  <2> QED
    BY <2>1, <2>2, RunLogs DEF ResearchRun, RunStatus, Unfinished
<1>3. r \in issued
  BY <1>1 DEF RunInv, Fresh, Present, NoRun
<1> QED
  BY <1>1, <1>2, <1>3 DEF LogInv, DecidedInv, RunInv, ExecutionInv

LEMMA StartLog ==
  ASSUME TypeOK, NEW r \in RunIds, Start(r), \A t \in RunIds : RunInv(t) /\ LogInv(t),
         NEW s \in RunIds
  PROVE  LogInv(s)'
<1>1. CASE s = r
  <2>1. /\ run'[r] = StartedRun /\ disk'[r] = NoRun /\ mode = "up" /\ mode' = "up"
        /\ exec'[r] = [NotExecuting EXCEPT !.phase = "agent"] /\ r \in issued'
        /\ queue'[r] = <<Snap("emit", QueuedRun), Snap("emit", StartedRun)>>
        /\ unread' = unread /\ disk[r] = NoRun
    BY DEF Start, Pruned, RunInv, Fresh, TypeOK
  <2>2. /\ Len(queue'[r]) = 2
        /\ queue'[r][1].by = "emit" /\ queue'[r][1].run = QueuedRun
        /\ queue'[r][2].by = "emit" /\ queue'[r][2].run = StartedRun
    BY <2>1 DEF Snap
  <2>3. /\ QueuedRun.events = <<"run.queued">> /\ QueuedRun.settled = FALSE
        /\ StartedRun.events = <<"run.queued", "run.started">> /\ StartedRun.settled = FALSE
        /\ StartedRun.status = "running"
    BY DEF QueuedRun, StartedRun, NoRun
  <2>4. /\ Len(QueuedRun.events) = 1 /\ QueuedRun.events[1] = "run.queued"
        /\ Len(StartedRun.events) = 2 /\ StartedRun.events[1] = "run.queued"
        /\ StartedRun.events[2] = "run.started"
        /\ QueuedRun.events \in Logs /\ StartedRun.events \in Logs
    <3>1. "run.queued" \in EventType /\ "run.started" \in EventType
      BY DEF EventType
    <3> QED
      BY <2>3, <3>1 DEF Logs
  <2>5. Sound(r, QueuedRun) /\ Sound(r, StartedRun) /\ ~HasReport(StartedRun)
    <3>1. QueuedRun.events # <<>> /\ StartedRun.events # <<>>
      BY <2>4, EmptySeq DEF Logs
    <3> QED
      BY <2>3, <2>4, <3>1, EventKinds DEF Sound, EndsOnce, ReportTells, HasReport
  <2>6. /\ PrefixOf(QueuedRun.events, StartedRun.events)
        /\ PrefixOf(QueuedRun.events, QueuedRun.events)
        /\ PrefixOf(StartedRun.events, StartedRun.events)
        /\ PrefixOf(NoRun.events, QueuedRun.events) /\ PrefixOf(NoRun.events, StartedRun.events)
    <3>1. PrefixOf(QueuedRun.events, StartedRun.events)
      <4>1. \A i \in 1..Len(QueuedRun.events) : i = 1
        BY <2>4
      <4> QED
        BY <2>4, <4>1, PrefixByElement
    <3> QED
      BY <2>4, <3>1, PrefixOfItself, NothingStored
  <2>7. ChainInv(r)'
    <3>1. \A i \in 1..Len(queue'[r]) : i = 1 \/ i = 2
      BY <2>2
    <3>2. \A i \in 1..Len(queue'[r]) : \A j \in i..Len(queue'[r]) : j = 2 \/ (j = 1 /\ i = 1)
      BY <2>2
    <3> QED
      BY <2>1, <2>2, <2>6, <3>1, <3>2 DEF ChainInv, Chain
  <2>8. SoundInv(r)'
    <3>1. \A i \in 1..Len(queue'[r]) : i = 1 \/ i = 2
      BY <2>2
    <3>2. report' = report
      BY DEF Start
    <3> QED
      BY <2>1, <2>2, <2>5, <3>1, <3>2, NothingStored DEF SoundInv, Sound, ReportTells
  <2>9. DecidedInv(r)'
    <3>1. report'[r] = "none"
      BY DEF Start, LogInv, DecidedInv
    <3>2. exec'[r].phase = "agent" /\ exec'[r].terminal = "undecided"
      BY <2>1 DEF NotExecuting
    <3> QED
      BY <2>1, <2>3, <2>5, <3>1, <3>2 DEF DecidedInv, Present
  <2>10. FailedInv(r)'
    BY <2>1 DEF LogInv, FailedInv
  <2> QED
    BY <1>1, <2>7, <2>8, <2>9, <2>10 DEF LogInv
<1>2. CASE s # r
  <2>1. /\ mode' = mode /\ mode = "up" /\ exec'[s] = exec[s] /\ queue'[s] = queue[s]
        /\ disk'[s] = disk[s] /\ report' = report /\ unread' = unread
        /\ (s \notin issued' => s \notin issued)
    BY <1>2 DEF Start, TypeOK
  <2>2. run'[s] = run[s] \/ (run'[s] = NoRun /\ (run[s].settled \/ ~Present(s)))
    BY <1>2 DEF Start, Pruned, Kept, Runs, TypeOK
  <2>3. CASE run'[s] = run[s]
    BY <2>1, <2>3, LogUntouched
  <2>4. CASE run'[s] = NoRun /\ (run[s].settled \/ ~Present(s))
    <3>1. exec[s].phase = "none" /\ queue[s] = <<>>
      BY <2>1, <2>4 DEF RunInv, ExecutionInv
    <3> QED
      BY <2>1, <2>4, <3>1, NothingStored
      DEF LogInv, ChainInv, Chain, SoundInv, Sound, ReportTells, DecidedInv, FailedInv, Present
  <2> QED
    BY <2>2, <2>3, <2>4
<1> QED
  BY <1>1, <1>2

LEMMA RejectLog ==
  ASSUME TypeOK, StartRejected, NEW s \in RunIds, RunInv(s), LogInv(s)
  PROVE  LogInv(s)'
<1>1. /\ mode' = mode /\ mode = "up" /\ exec' = exec /\ queue' = queue /\ disk' = disk
      /\ report' = report /\ unread' = unread /\ issued' = issued
  BY DEF StartRejected
<1>2. run'[s] = run[s] \/ (run'[s] = NoRun /\ (run[s].settled \/ ~Present(s)))
  BY DEF StartRejected, Pruned, Kept, Runs, TypeOK
<1>3. CASE run'[s] = run[s]
  BY <1>1, <1>3, LogUntouched
<1>4. CASE run'[s] = NoRun /\ (run[s].settled \/ ~Present(s))
  <2>1. exec[s].phase = "none" /\ queue[s] = <<>>
    BY <1>1, <1>4 DEF RunInv, ExecutionInv
  <2> QED
    BY <1>1, <1>4, <2>1, NothingStored
    DEF LogInv, ChainInv, Chain, SoundInv, Sound, ReportTells, DecidedInv, FailedInv, Present
<1> QED
  BY <1>2, <1>3, <1>4

LEMMA CancelLog ==
  ASSUME TypeOK, NEW r \in RunIds, RunInv(r), LogInv(r), Cancel(r)
  PROVE  LogInv(r)'
<1> DEFINE x == [run[r] EXCEPT !.status = "cancelling", !.cancelRequested = TRUE]
<1>1. /\ x \in ResearchRun /\ x.events = run[r].events /\ x.settled = run[r].settled
      /\ x.status = "cancelling"
  <2>1. x \in ResearchRun
    BY RunLogs, FieldTypes
  <2> QED
    BY <2>1, RunLogs DEF ResearchRun
<1>2. /\ mode = "up" /\ Present(r) /\ ~Closed(r)
      /\ Emit(r, x, "run.cancellation_requested")
      /\ UNCHANGED <<mode, disk, report, issued, unread>>
      /\ exec'[r].phase = exec[r].phase
  BY DEF Cancel, SignalAborts, TypeOK, Execution
<1> HIDE DEF x
<1>3. "run.cancellation_requested" \in EventType \ TerminalEvents
  BY EventKinds DEF EventType
<1>4. exec[r].phase \in {"agent", "flush", "report"} /\ ~run[r].settled /\ ~HasReport(run[r])
  BY <1>2, OpenRun
<1>5. /\ ChainInv(r)' /\ SoundInv(r)' /\ run'[r].status = "cancelling"
      /\ ~HasReport(run'[r])
  BY <1>1, <1>2, <1>3, <1>4, EmitLog DEF ReportEvents
<1> QED
  BY <1>2, <1>4, <1>5, OpenLog

LEMMA AgentEventLog ==
  ASSUME TypeOK, NEW r \in RunIds, RunInv(r), LogInv(r), AgentEvent(r)
  PROVE  LogInv(r)'
<1>1. /\ mode = "up" /\ Present(r) /\ Emit(r, run[r], "agent.event")
      /\ UNCHANGED <<mode, exec, disk, report, issued, unread>>
  BY DEF AgentEvent
<1>2. CASE Closed(r)
  BY <1>1, <1>2, EmitClosed, LogUntouched
<1>3. CASE ~Closed(r)
  <2>1. "agent.event" \in EventType \ TerminalEvents
    BY EventKinds DEF EventType
  <2>2. /\ exec[r].phase \in {"agent", "flush", "report"} /\ ~run[r].settled
        /\ ~HasReport(run[r]) /\ run[r].status \in {"running", "cancelling"}
        /\ exec[r].terminal = "cancelled" => run[r].status = "cancelling"
    BY <1>1, <1>3, OpenRun
  <2>3. run[r] \in ResearchRun
    BY RunLogs
  <2>4. /\ ChainInv(r)' /\ SoundInv(r)' /\ run'[r].status = run[r].status
        /\ ~HasReport(run'[r])
    BY <1>1, <1>3, <2>1, <2>2, <2>3, EmitLog DEF ReportEvents
  <2> QED
    BY <1>1, <1>3, <2>2, <2>4, OpenLog
<1> QED
  BY <1>2, <1>3

LEMMA DeadlineLog ==
  ASSUME TypeOK, NEW r \in RunIds, LogInv(r), DeadlineFires(r)
  PROVE  LogInv(r)'
<1>1. /\ exec'[r].phase = exec[r].phase /\ exec'[r].terminal = exec[r].terminal
      /\ UNCHANGED <<mode, run, queue, disk, report, issued, unread>>
  BY DEF DeadlineFires, SignalAborts, TypeOK, Execution
<1> QED
  BY <1>1 DEF LogInv, ChainInv, SoundInv, Sound, ReportTells, DecidedInv, FailedInv, Present

LEMMA AgentReturnsLog ==
  ASSUME TypeOK, NEW r \in RunIds, RunInv(r), LogInv(r), NEW outcome \in Outcome,
         AgentReturns(r, outcome)
  PROVE  LogInv(r)'
<1>1. /\ exec[r].phase = "agent" /\ mode = "up"
      /\ UNCHANGED <<mode, queue, disk, report, issued, unread>>
      /\ exec'[r].phase = "flush" /\ exec'[r].terminal = TerminalStatus(r, outcome)
  BY DEF AgentReturns, TypeOK, Execution
<1>2. /\ Present(r) /\ ~Closed(r) /\ ~run[r].settled /\ ~HasReport(run[r])
      /\ run[r].status \in {"running", "cancelling"}
  BY <1>1, OpenRun
<1>3. /\ run'[r] \in ResearchRun
      /\ run'[r].status = run[r].status /\ run'[r].settled = run[r].settled
      /\ run'[r].events = run[r].events
  <2>1. run'[r] = [run[r] EXCEPT !.error = IF outcome = "throws" /\ ~CancellationRequested(r)
                                          THEN "RUN_FAILED" ELSE @]
    BY DEF AgentReturns, TypeOK
  <2>2. run[r] \in ResearchRun
    BY RunLogs
  <2> QED
    BY <2>1, <2>2 DEF ResearchRun
<1>4. exec'[r].terminal = "cancelled" => run'[r].status = "cancelling"
  BY <1>1, <1>3 DEF TerminalStatus, CancellationRequested, Outcome
<1>5. ChainInv(r)'
  BY <1>1, <1>3 DEF LogInv, ChainInv, Present
<1>6. SoundInv(r)'
  <2>1. run[r] \in ResearchRun /\ Sound(r, run[r]) /\ run[r].events # <<>>
    BY <1>2, RunLogs DEF LogInv, SoundInv, Sound, Present
  <2>2. Sound(r, run'[r])
    BY <1>2, <1>3, <2>1, GoingOn
  <2> QED
    BY <1>1, <2>2 DEF LogInv, SoundInv, Sound, ReportTells
<1>7. ~HasReport(run'[r])
  BY <1>2, <1>3 DEF HasReport
<1> QED
  BY <1>1, <1>2, <1>3, <1>4, <1>5, <1>6, <1>7, OpenLog

LEMMA FlushedLog ==
  ASSUME TypeOK, NEW r \in RunIds, RunInv(r), LogInv(r), NEW ok \in BOOLEAN, Flushed(r, ok)
  PROVE  LogInv(r)'
<1>1. /\ exec[r].phase = "flush" /\ mode = "up"
      /\ UNCHANGED <<mode, disk, report, issued, unread>>
      /\ exec'[r].phase = "report" /\ exec'[r].terminal = Reconsidered(r)
  BY DEF Flushed, TypeOK, Execution
<1>2. /\ Present(r) /\ ~Closed(r) /\ ~run[r].settled /\ ~HasReport(run[r])
      /\ run[r].status \in {"running", "cancelling"}
      /\ exec[r].terminal = "cancelled" => run[r].status = "cancelling"
  BY <1>1, OpenRun
<1>3. exec'[r].terminal = "cancelled" => run[r].status = "cancelling"
  BY <1>1, <1>2 DEF Reconsidered, CancellationRequested
<1>4. CASE ok
  <2>1. run' = run /\ queue' = queue
    BY <1>4 DEF Flushed
  <2>2. ChainInv(r)' /\ SoundInv(r)'
    BY <1>1, <2>1 DEF LogInv, ChainInv, SoundInv, Sound, ReportTells, Present
  <2> QED
    BY <1>1, <1>2, <1>3, <2>1, <2>2, OpenLog
<1>5. CASE ~ok
  <2>1. "evidence.write_error" \in EventType \ TerminalEvents
    BY EventKinds DEF EventType
  <2>2. Emit(r, run[r], "evidence.write_error") /\ run[r] \in ResearchRun
    BY <1>5, RunLogs DEF Flushed
  <2>3. /\ ChainInv(r)' /\ SoundInv(r)' /\ run'[r].status = run[r].status
        /\ ~HasReport(run'[r])
    BY <1>1, <1>2, <2>1, <2>2, EmitLog DEF ReportEvents
  <2> QED
    BY <1>1, <1>2, <1>3, <2>3, OpenLog
<1> QED
  BY <1>4, <1>5

\* The report decides what the settled copy says of it.
LEMMA ReportedLog ==
  ASSUME TypeOK, NEW r \in RunIds, RunInv(r), LogInv(r), NEW ok \in BOOLEAN, Reported(r, ok)
  PROVE  LogInv(r)'
<1> DEFINE x == ReportedRun(run[r], ok)
           status == Reconsidered(r)
           z == SettledRun(x, status)
           type == IF ok THEN "report.completed" ELSE "report.failed"
           q == Append(queue[r], Snap("emit", x))
<1>1. /\ exec[r].phase = "report" /\ mode = "up" /\ UNCHANGED <<mode, disk, issued, unread>>
      /\ exec'[r].phase = "settle" /\ exec'[r].terminal = status /\ run'[r] = x
      /\ queue'[r] = queue[r] \o <<Snap("emit", x), Snap("settle", z)>>
      /\ report'[r] = IF ok THEN exec[r].terminal ELSE report[r]
  BY DEF Reported, ReportedRun, ReportWritten, TypeOK, Execution
<1>2. /\ Present(r) /\ ~run[r].settled /\ ~disk[r].settled /\ ~HasReport(run[r])
      /\ run[r].status \in {"running", "cancelling"} /\ r \in issued /\ EmitsOnly(queue[r])
      /\ exec[r].terminal = "cancelled" => run[r].status = "cancelling"
  BY <1>1, OpenRun
<1>3. exec[r].terminal \in Terminal /\ report[r] = "none"
  BY <1>1 DEF RunInv, ExecutionInv, LogInv, DecidedInv
<1>4. /\ status \in Terminal /\ status \in {exec[r].terminal, "cancelled"}
      /\ status = "cancelled" <=> run[r].status = "cancelling"
  BY <1>2, <1>3 DEF Reconsidered, CancellationRequested, Terminal
<1>5. /\ type \in EventType \ TerminalEvents /\ type \in ReportEvents
  BY EventKinds DEF EventType, ReportEvents
<1>6. /\ run[r] \in ResearchRun /\ disk[r] \in ResearchRun /\ queue[r] \in Seq(Snapshot)
      /\ run[r].events \in Logs /\ disk[r].events \in Logs
  BY RunLogs
<1>7. /\ x \in ResearchRun /\ x.status = run[r].status /\ x.settled = run[r].settled
      /\ x.events = Append(run[r].events, type)
      /\ x.reportStatus = IF ok THEN "completed" ELSE "failed"
  <2>1. x \in ResearchRun /\ x.status = run[r].status /\ x.settled = run[r].settled
    BY <1>6, ReportedRunType
  <2>2. x.events = Append(run[r].events, type)
    BY <1>6 DEF ReportedRun, ResearchRun
  <2>3. x.reportStatus = IF ok THEN "completed" ELSE "failed"
    BY <1>6 DEF ReportedRun, ResearchRun
  <2> QED
    BY <2>1, <2>2, <2>3
<1>8. /\ z \in ResearchRun /\ z.settled = TRUE /\ z.status = status
      /\ z.events = Append(x.events, TerminalEvent(status))
      /\ z.reportStatus = x.reportStatus
  <2>1. x \in ResearchRun /\ status \in Terminal
    BY <1>4, <1>7
  <2> HIDE DEF x, status
  <2>2. z \in ResearchRun
    BY <2>1, SettledRunType
  <2>3. /\ z.settled = TRUE /\ z.status = status /\ z.reportStatus = x.reportStatus
        /\ z.events = Append(x.events, TerminalEvent(status))
    BY <2>1 DEF SettledRun, ResearchRun
  <2> QED
    BY <2>2, <2>3
<1>9. /\ Snap("emit", x) \in Snapshot /\ Snap("emit", x).run = x /\ Snap("emit", x).by = "emit"
      /\ Snap("settle", z) \in Snapshot /\ Snap("settle", z).run = z
      /\ Snap("settle", z).by = "settle"
  BY <1>7, <1>8, SnapType
<1>10. queue'[r] = Append(q, Snap("settle", z)) /\ q \in Seq(Snapshot)
  BY <1>1, <1>6, <1>9, Append2, AppendFacts
<1>11. x.events \in Logs /\ z.events \in Logs
  BY <1>7, <1>8 DEF ResearchRun, Logs
<1>12. /\ Len(q) = Len(queue[r]) + 1 /\ q[Len(queue[r]) + 1] = Snap("emit", x)
       /\ \A i \in 1..Len(queue[r]) : q[i] = queue[r][i]
       /\ Len(queue'[r]) = Len(q) + 1 /\ queue'[r][Len(q) + 1] = Snap("settle", z)
       /\ \A i \in 1..Len(q) : queue'[r][i] = q[i]
       /\ Len(q) \in Nat /\ Len(queue[r]) \in Nat
  BY <1>6, <1>9, <1>10, AppendFacts
<1>13. EndsOnce(x) /\ EndsOnce(z) /\ x.events # <<>> /\ z.events # <<>>
  <2>1. Sound(r, run[r])
    BY DEF LogInv, SoundInv
  <2>2. Sound(r, x) /\ x.status # "absent"
    BY <1>2, <1>5, <1>6, <1>7, <2>1, GoingOn
  <2>3. EndsOnce(z) /\ z.events # <<>>
    BY <1>2, <1>4, <1>7, <1>8, <2>2, Ending
  <2> QED
    BY <2>2, <2>3 DEF Sound
<1>14. HasReport(x)
  <2>1. /\ Len(x.events) = Len(run[r].events) + 1 /\ x.events[Len(run[r].events) + 1] = type
        /\ Len(run[r].events) \in Nat
    BY <1>5, <1>6, <1>7, AppendProperties DEF Logs
  <2> QED
    BY <1>5, <2>1 DEF HasReport, ReportEvents
<1> HIDE DEF x, z, status, q, type
<1>15. ChainInv(r)'
  <2>1. /\ Chain(disk[r].events, queue[r], run[r].events)
        /\ PrefixOf(disk[r].events, run[r].events)
    BY <1>2 DEF LogInv, ChainInv
  <2>2. /\ PrefixOf(run[r].events, x.events) /\ PrefixOf(disk[r].events, x.events)
        /\ PrefixOf(x.events, x.events)
    <3>1. PrefixOf(run[r].events, run[r].events)
      BY <1>6, PrefixOfItself
    <3>2. PrefixOf(run[r].events, x.events)
      BY <1>5, <1>6, <1>7, <3>1, PrefixFacts
    <3>3. PrefixOf(disk[r].events, x.events)
      BY <1>6, <1>11, <2>1, <3>2, PrefixFacts
    <3> QED
      BY <1>11, <3>2, <3>3, PrefixOfItself
  <2>3. PrefixOf(x.events, z.events)
    <3>1. TerminalEvent(status) \in EventType
      BY TerminalEventType
    <3> QED
      BY <1>8, <1>11, <2>2, <3>1, PrefixFacts
  <2>4. \A i \in 1..Len(queue[r]) : queue[r][i].by = "emit"
    BY <1>2 DEF EmitsOnly
  <2>5. Chain(disk[r].events, q, x.events)
    BY <1>6, <1>9, <1>11, <2>1, <2>2, <2>4, ChainAppend DEF q
  <2>6. \A i \in 1..Len(q) : q[i].by = "emit"
    BY <1>9, <1>12, <2>4
  <2>7. Chain(disk[r].events, Append(q, Snap("settle", z)), x.events)
    BY <1>6, <1>9, <1>10, <1>11, <2>2, <2>3, <2>5, <2>6, ChainAppend
  <2> QED
    BY <1>1, <1>10, <2>2, <2>7 DEF ChainInv
<1>16. SoundInv(r)'
  <2>1. /\ Sound(r, run[r])' /\ Sound(r, disk[r])'
    BY <1>1, <1>2, <1>7, <1>13 DEF LogInv, SoundInv, Sound, ReportTells
  <2>2. ASSUME NEW i \in 1..Len(queue'[r]) PROVE Sound(r, queue[r][i].run)'
    <3>1. CASE i = Len(q) + 1
      <4>1. queue'[r][i].run = z
        BY <1>9, <1>12, <3>1
      <4>2. /\ z.reportStatus = "completed" <=> report'[r] # "none"
            /\ report'[r] \in {"none", z.status} \/ z.status = "cancelled"
        BY <1>1, <1>3, <1>4, <1>7, <1>8 DEF Terminal
      <4> QED
        BY <1>13, <4>1, <4>2 DEF Sound, ReportTells
    <3>2. CASE i = Len(queue[r]) + 1
      <4>1. queue'[r][i].run = x
        BY <1>9, <1>12, <3>2
      <4> QED
        BY <1>2, <1>7, <1>13, <4>1 DEF Sound, ReportTells
    <3>3. CASE i \in 1..Len(queue[r])
      <4>1. queue'[r][i] = queue[r][i] /\ ~queue[r][i].run.settled
        BY <1>2, <1>12, <3>3 DEF EmitsOnly
      <4> QED
        BY <3>3, <4>1 DEF LogInv, SoundInv, Sound, ReportTells
    <3> QED
      BY <1>12, <3>1, <3>2, <3>3
  <2> QED
    BY <2>1, <2>2 DEF SoundInv
<1>17. DecidedInv(r)'
  <2>1. queue'[r][Len(queue'[r])].run = z
    BY <1>9, <1>12
  <2> QED
    BY <1>1, <1>2, <1>4, <1>7, <1>8, <1>14, <2>1 DEF DecidedInv, Present
<1>18. FailedInv(r)'
  BY <1>1 DEF LogInv, FailedInv
<1> QED
  BY <1>15, <1>16, <1>17, <1>18 DEF LogInv

LEMMA EmitWrittenLog ==
  ASSUME TypeOK, NEW r \in RunIds, RunInv(r), LogInv(r), NEW ok \in BOOLEAN, EmitWritten(r, ok)
  PROVE  LogInv(r)'
<1>1. /\ mode = "up" /\ queue[r] # <<>> /\ Head(queue[r]).by = "emit"
      /\ UNCHANGED <<mode, exec, report, issued, unread>>
      /\ queue'[r] = Tail(queue[r])
      /\ disk'[r] \in {disk[r], Head(queue[r]).run}
  BY DEF EmitWritten, Written, TypeOK
<1>2. /\ Present(r) /\ ~run[r].settled /\ ~disk[r].settled /\ r \in issued
      /\ exec[r].phase # "none"
  BY <1>1 DEF RunInv, ExecutionInv, Fresh
<1>3. /\ run'[r] \in ResearchRun /\ run'[r].status = run[r].status
      /\ run'[r].settled = run[r].settled /\ run'[r].events = run[r].events
  <2>1. run[r] \in ResearchRun
    BY RunLogs
  <2>2. run'[r] \in {run[r], [run[r] EXCEPT !.persistenceError = TRUE]}
    BY DEF EmitWritten, TypeOK
  <2>3. CASE run'[r] = run[r]
    BY <2>1, <2>3
  <2>4. CASE run'[r] = [run[r] EXCEPT !.persistenceError = TRUE]
    BY <2>1, <2>4 DEF ResearchRun
  <2> QED
    BY <2>2, <2>3, <2>4
<1>4. queue[r] \in Seq(Snapshot)
  BY DEF TypeOK
<1>5. /\ Head(queue[r]) = queue[r][1] /\ Len(queue[r]) \in Nat \ {0}
      /\ Len(queue'[r]) = Len(queue[r]) - 1
      /\ \A i \in 1..(Len(queue[r]) - 1) : queue'[r][i] = queue[r][i + 1]
  BY <1>1, <1>4, TailFacts
<1>6. ChainInv(r)'
  <2>1. /\ Chain(disk[r].events, queue[r], run[r].events)
        /\ PrefixOf(disk[r].events, run[r].events)
    BY <1>2 DEF LogInv, ChainInv
  <2>2. /\ Chain(disk[r].events, Tail(queue[r]), run[r].events)
        /\ Chain(Head(queue[r]).run.events, Tail(queue[r]), run[r].events)
        /\ PrefixOf(Head(queue[r]).run.events, run[r].events)
    BY <1>1, <1>4, <2>1, ChainTail
  <2> QED
    BY <1>1, <1>3, <2>1, <2>2 DEF ChainInv
<1>7. SoundInv(r)'
  <2>1. /\ Sound(r, run[r]) /\ Sound(r, disk[r])
        /\ \A i \in 1..Len(queue[r]) : Sound(r, queue[r][i].run)
    BY DEF LogInv, SoundInv
  <2>2. run[r].events # <<>>
    BY <1>2, <2>1 DEF Sound, Present
  <2>3. Sound(r, run'[r])
    BY <1>2, <1>3, <2>1, <2>2, RunLogs, GoingOn
  <2>4. Sound(r, disk'[r])
    <3>1. 1 \in 1..Len(queue[r])
      BY <1>5
    <3> QED
      BY <1>1, <1>5, <2>1, <3>1
  <2>5. \A i \in 1..Len(queue'[r]) : Sound(r, queue'[r][i].run)
    <3>1. \A i \in 1..Len(queue'[r]) : i \in 1..(Len(queue[r]) - 1) /\ i + 1 \in 1..Len(queue[r])
      BY <1>5
    <3> QED
      BY <1>5, <2>1, <3>1
  <2> QED
    BY <1>1, <2>3, <2>4, <2>5 DEF SoundInv, Sound, ReportTells
<1>8. DecidedInv(r)'
  <2>1. HasReport(run'[r]) <=> HasReport(run[r])
    BY <1>3 DEF HasReport
  <2>2. exec[r].phase = "settle" => queue'[r][Len(queue'[r])] = queue[r][Len(queue[r])]
    <3> SUFFICES ASSUME exec[r].phase = "settle"
                 PROVE  queue'[r][Len(queue'[r])] = queue[r][Len(queue[r])]
      OBVIOUS
    <3>1. SettleIsLast(queue[r])
      BY DEF RunInv, ExecutionInv
    <3>2. Len(queue[r]) # 1
      BY <1>1, <1>5, <3>1 DEF SettleIsLast
    <3>3. Len(queue[r]) - 1 \in 1..(Len(queue[r]) - 1) /\ (Len(queue[r]) - 1) + 1 = Len(queue[r])
      <4>1. \A n \in Nat \ {0} : n # 1 => n - 1 \in 1..(n - 1) /\ (n - 1) + 1 = n
        OBVIOUS
      <4> QED
        BY <1>5, <3>2, <4>1
    <3> QED
      BY <1>5, <3>3
  <2> QED
    BY <1>1, <1>2, <1>3, <2>1, <2>2 DEF LogInv, DecidedInv, Present
<1>9. FailedInv(r)'
  BY <1>1, <1>2 DEF FailedInv, RunInv, HydrateInv
<1> QED
  BY <1>6, <1>7, <1>8, <1>9 DEF LogInv

\* What the settled snapshot is when its turn comes.
LEMMA TurnOfTheSettled ==
  ASSUME TypeOK, NEW r \in RunIds, RunInv(r), LogInv(r), NEW ok \in BOOLEAN, SettleWritten(r, ok)
  PROVE  /\ exec[r].phase = "settle" /\ Present(r) /\ ~run[r].settled /\ ~disk[r].settled
         /\ Len(queue[r]) = 1 /\ Head(queue[r]) = queue[r][1] /\ queue'[r] = <<>>
         /\ Head(queue[r]).run \in ResearchRun
         /\ Head(queue[r]).run.settled /\ Head(queue[r]).run.status \in Terminal
<1>1. queue[r] # <<>> /\ Head(queue[r]).by = "settle" /\ queue[r] \in Seq(Snapshot)
      /\ queue'[r] = Tail(queue[r]) /\ mode = "up"
  BY DEF SettleWritten, TypeOK
<1>2. exec[r].phase # "none" /\ Present(r) /\ ~run[r].settled /\ ~disk[r].settled
  BY <1>1 DEF RunInv, ExecutionInv
<1>3. exec[r].phase = "settle"
  <2>1. SUFFICES ASSUME EmitsOnly(queue[r]) PROVE FALSE
    BY <1>2 DEF RunInv, ExecutionInv, TypeOK, Execution, Phase
  <2>2. QED BY <1>1, <2>1, TailOfEmits
<1>4. Tail(queue[r]) = <<>> /\ Head(queue[r]).run.settled
  BY <1>1, <1>3, TailOfSettling DEF RunInv, ExecutionInv
<1>5. /\ Len(queue[r]) = 1 /\ Head(queue[r]) = queue[r][1] /\ Head(queue[r]) \in Snapshot
  BY <1>1, <1>4, TailFacts
<1>6. 1 \in 1..Len(queue[r]) /\ Head(queue[r]).run \in ResearchRun
  BY <1>5 DEF Snapshot
<1>7. Head(queue[r]).run.status \in Terminal
  BY <1>4, <1>5, <1>6 DEF RunInv, Honoured, CancellationHonoured
<1> QED
  BY <1>1, <1>2, <1>3, <1>4, <1>5, <1>6, <1>7

\* Two copies of a run that say the same.
LEMMA SameStory ==
  ASSUME NEW r, NEW x, Sound(r, x), NEW y,
         y.settled = x.settled, y.status = x.status, y.events = x.events,
         y.error = x.error, y.reportStatus = x.reportStatus
  PROVE  Sound(r, y)
  BY DEF Sound, EndsOnce, ReportTells

LEMMA SettleWrittenLog ==
  ASSUME TypeOK, NEW r \in RunIds, RunInv(r), LogInv(r), NEW ok \in BOOLEAN, SettleWritten(r, ok)
  PROVE  LogInv(r)'
<1> DEFINE x == Head(queue[r]).run
<1>1. /\ mode = "up" /\ UNCHANGED <<mode, report, issued, unread>>
      /\ exec'[r] = NotExecuting /\ run'[r] = [x EXCEPT !.persistenceError = ~ok]
      /\ disk'[r] = IF ok THEN x ELSE disk[r]
  BY DEF SettleWritten, Written, SettledInMemory, TypeOK
<1>2. /\ Len(queue[r]) = 1 /\ Head(queue[r]) = queue[r][1] /\ queue'[r] = <<>>
      /\ x \in ResearchRun /\ x.settled /\ x.status \in Terminal /\ Present(r)
  BY TurnOfTheSettled
<1>3. /\ run'[r].settled = x.settled /\ run'[r].status = x.status
      /\ run'[r].events = x.events /\ run'[r].error = x.error
      /\ run'[r].reportStatus = x.reportStatus
  BY <1>1, <1>2 DEF ResearchRun
<1>4. 1 \in 1..Len(queue[r]) /\ Len(queue'[r]) = 0 /\ x = queue[r][1].run
  BY <1>2
<1>5. x.events \in Logs
  BY <1>2 DEF ResearchRun, Logs
<1> HIDE DEF x
<1>6. ChainInv(r)'
  <2>1. PrefixOf(disk[r].events, x.events) /\ PrefixOf(x.events, x.events)
    BY <1>4, <1>5, PrefixOfItself DEF LogInv, ChainInv, Chain
  <2> QED
    BY <1>1, <1>3, <1>4, <2>1 DEF ChainInv, Chain
<1>7. SoundInv(r)'
  <2>1. Sound(r, x) /\ Sound(r, disk[r])
    BY <1>4 DEF LogInv, SoundInv
  <2>2. Sound(r, run'[r])
    BY <1>3, <2>1, SameStory
  <2> QED
    BY <1>1, <1>4, <2>1, <2>2 DEF SoundInv, Sound, ReportTells
<1>8. DecidedInv(r)' /\ FailedInv(r)'
  BY <1>1, <1>2, <1>3 DEF LogInv, DecidedInv, FailedInv, NotExecuting, Present,
         Terminal
<1> QED
  BY <1>6, <1>7, <1>8 DEF LogInv

-----------------------------------------------------------------------------
(* hydrate() *)

LEMMA HydrateFinishedLog ==
  ASSUME TypeOK, NEW r \in RunIds, RunInv(r), LogInv(r), HydrateFinished(r)
  PROVE  LogInv(r)'
<1>1. /\ mode = "hydrating" /\ queue[r] = <<>> /\ r \in unread /\ run'[r] = disk[r]
      /\ UNCHANGED <<mode, exec, queue, disk, report, issued>> /\ r \notin unread'
      /\ disk[r].status \notin Unfinished
  BY DEF HydrateFinished, HydrateIdle, TypeOK
<1>2. exec[r].phase = "none" /\ Len(queue'[r]) = 0
  BY <1>1 DEF RunInv, ExecutionInv
<1>3. ChainInv(r)'
  <2>1. PrefixOf(disk[r].events, disk[r].events)
    BY RunLogs, PrefixOfItself
  <2> QED
    BY <1>1, <1>2, <2>1 DEF ChainInv, Chain
<1>4. SoundInv(r)'
  BY <1>1, <1>2 DEF LogInv, SoundInv, Sound, ReportTells
<1>5. DecidedInv(r)' /\ FailedInv(r)'
  BY <1>1, <1>2 DEF LogInv, DecidedInv, FailedInv, Unfinished, Present
<1> QED
  BY <1>3, <1>4, <1>5 DEF LogInv

\* The failed copy of a run that was not finished.
LEMMA RestartedRunFacts ==
  ASSUME NEW r, NEW x \in ResearchRun, ~x.settled, Sound(r, x)
  PROVE  /\ RestartedRun(x) \in ResearchRun /\ RestartedRun(x).settled = TRUE
         /\ RestartedRun(x).status = "failed" /\ RestartedRun(x).error = "SERVICE_RESTARTED"
         /\ RestartedRun(x).events = Append(x.events, "run.failed")
         /\ Sound(r, RestartedRun(x))
<1> DEFINE y == RestartedRun(x)
<1>1. /\ y \in ResearchRun /\ y.settled = TRUE /\ y.status = "failed"
      /\ y.error = "SERVICE_RESTARTED" /\ y.events = Append(x.events, "run.failed")
  <2>1. y \in ResearchRun
    BY RestartedRunType
  <2> QED
    BY <2>1 DEF RestartedRun, ResearchRun
<1> HIDE DEF y
<1>2. EndsOnce(y) /\ y.events # <<>>
  <2>1. y.status \in Terminal /\ y.events = Append(x.events, TerminalEvent(y.status))
    BY <1>1, EventKinds DEF Terminal
  <2> QED
    BY <1>1, <2>1, Ending
<1>3. Sound(r, y)
  BY <1>1, <1>2 DEF Sound, ReportTells
<1> QED
  BY <1>1, <1>3 DEF y

LEMMA HydrateUnfinishedLog ==
  ASSUME TypeOK, NEW r \in RunIds, RunInv(r), LogInv(r), HydrateUnfinished(r)
  PROVE  LogInv(r)'
<1> DEFINE x == RestartedRun(disk[r])
<1>1. /\ mode = "hydrating" /\ r \in unread /\ queue'[r] = <<Snap("hydrate", x)>>
      /\ UNCHANGED <<mode, run, exec, disk, report, issued>> /\ r \notin unread'
      /\ disk[r].status \in Unfinished /\ queue[r] = <<>>
  BY DEF HydrateUnfinished, HydrateIdle, TypeOK
<1>2. /\ Len(queue'[r]) = 1 /\ queue'[r][1] = Snap("hydrate", x)
      /\ Head(queue'[r]) = Snap("hydrate", x)
      /\ Snap("hydrate", x).by = "hydrate" /\ Snap("hydrate", x).run = x
  BY <1>1 DEF Snap
<1>3. exec[r].phase = "none" /\ ~Present(r) /\ disk[r].status # "absent"
  BY <1>1 DEF RunInv, ExecutionInv, HydrateInv, LogInv, FailedInv
<1>4. ~disk[r].settled
  BY <1>1 DEF RunInv, Honoured, CancellationHonoured, Unfinished, Terminal
<1>5. x \in ResearchRun /\ x.events = Append(disk[r].events, "run.failed") /\ Sound(r, x)
  BY <1>4, RunLogs, RestartedRunFacts DEF LogInv, SoundInv
<1>6. \A i \in 1..Len(queue'[r]) : i = 1 /\ \A j \in i..Len(queue'[r]) : j = 1
  BY <1>2
<1>7. ChainInv(r)'
  <2>1. PrefixOf(disk[r].events, x.events) /\ PrefixOf(x.events, x.events)
    <3>1. "run.failed" \in EventType /\ PrefixOf(disk[r].events, disk[r].events)
          /\ disk[r].events \in Logs /\ x.events \in Logs
      BY <1>5, RunLogs, PrefixOfItself DEF EventType, ResearchRun, Logs
    <3> QED
      BY <1>5, <3>1, PrefixFacts, PrefixOfItself
  <2> HIDE DEF x
  <2>2. ~Present(r)'
    BY <1>1, <1>3 DEF Present
  <2> QED
    BY <1>1, <1>2, <1>6, <2>1, <2>2 DEF ChainInv, Chain
<1>8. SoundInv(r)'
  <2> HIDE DEF x
  <2> QED
    BY <1>1, <1>2, <1>5, <1>6 DEF LogInv, SoundInv, Sound, ReportTells
<1>9. DecidedInv(r)'
  BY <1>1, <1>3 DEF LogInv, DecidedInv
<1>10. FailedInv(r)'
  BY <1>1, <1>2, <1>3 DEF FailedInv, Present
<1> QED
  BY <1>7, <1>8, <1>9, <1>10 DEF LogInv

LEMMA HydrateWrittenLog ==
  ASSUME TypeOK, NEW r \in RunIds, RunInv(r), LogInv(r), HydrateWritten(r)
  PROVE  LogInv(r)'
<1> DEFINE x == RestartedRun(disk[r])
<1>1. /\ mode = "hydrating" /\ queue[r] # <<>> /\ queue'[r] = Tail(queue[r])
      /\ run'[r] = Head(queue[r]).run /\ disk'[r] = Head(queue[r]).run
      /\ UNCHANGED <<mode, exec, report, issued, unread>>
  BY DEF HydrateWritten, Written, TypeOK
<1>2. /\ queue[r] = <<Head(queue[r])>> /\ ~disk[r].settled /\ r \notin unread
      /\ Head(queue[r]).run = x /\ exec[r].phase = "none"
  BY <1>1 DEF RunInv, ExecutionInv, HydrateInv, LogInv, FailedInv
<1>3. queue'[r] = <<>> /\ Len(queue'[r]) = 0
  <2>1. Len(queue[r]) = 1
    BY <1>2
  <2> QED
    BY <1>1, <2>1, TailFacts DEF TypeOK
<1>4. x \in ResearchRun /\ x.status = "failed" /\ Sound(r, x)
  BY <1>2, RunLogs, RestartedRunFacts DEF LogInv, SoundInv
<1>5. PrefixOf(x.events, x.events)
  BY <1>4, PrefixOfItself DEF ResearchRun, Logs
<1> HIDE DEF x
<1>6. ChainInv(r)'
  BY <1>1, <1>2, <1>3, <1>5 DEF ChainInv, Chain
<1>7. SoundInv(r)'
  BY <1>1, <1>2, <1>3, <1>4 DEF SoundInv, Sound, ReportTells
<1>8. DecidedInv(r)' /\ FailedInv(r)'
  BY <1>1, <1>2, <1>3, <1>4 DEF LogInv, DecidedInv, FailedInv, Present
<1> QED
  BY <1>6, <1>7, <1>8 DEF LogInv

-----------------------------------------------------------------------------
(* Every step *)

LEMMA LostLog ==
  ASSUME NEW s \in RunIds, LogInv(s), MemoryLost, UNCHANGED <<disk, report, issued>>
  PROVE  LogInv(s)'
  BY LogDropped DEF MemoryLost

LEMMA RestartLog ==
  ASSUME TypeOK, NEW s \in RunIds, RunInv(s), LogInv(s), Restart \/ Serve
  PROVE  LogInv(s)'
<1>1. /\ UNCHANGED <<run, exec, queue, disk, report, issued>>
      /\ queue[s] = <<>>
      /\ s \in unread' => disk[s].status # "absent"
  BY DEF Restart, Serve, HydrateIdle, OnDisk, RunInv, ExecutionInv, HydrateInv
<1> QED
  BY <1>1 DEF LogInv, ChainInv, SoundInv, Sound, ReportTells, DecidedInv, FailedInv, Present

LEMMA RunStepLog ==
  ASSUME TypeOK, \A t \in RunIds : RunInv(t) /\ LogInv(t), NEW r \in RunIds, RunStep(r),
         NEW s \in RunIds
  PROVE  LogInv(s)'
<1>1. CASE Start(r)
  BY <1>1, StartLog
<1>2. CASE HydrateAborts(r)
  BY <1>2, LostLog DEF HydrateAborts
<1>3. CASE s # r /\ ~Start(r) /\ ~HydrateAborts(r)
  <2>1. /\ mode' = mode /\ issued' = issued
        /\ run'[s] = run[s] /\ exec'[s] = exec[s] /\ queue'[s] = queue[s]
        /\ disk'[s] = disk[s] /\ report'[s] = report[s] /\ (s \in unread' <=> s \in unread)
    BY <1>3 DEF RunStep, TypeOK, Cancel, SignalAborts, DeadlineFires, AgentEvent,
           AgentReturns, Flushed, Reported, ReportWritten, EmitWritten, SettleWritten, Written,
           HydrateFinished, HydrateUnfinished, HydrateWritten, Emit
  <2> QED
    BY <2>1, LogUntouched
<1>4. CASE s = r /\ ~Start(r) /\ ~HydrateAborts(r)
  BY <1>4, CancelLog, DeadlineLog, AgentEventLog, AgentReturnsLog, FlushedLog, ReportedLog,
     EmitWrittenLog, SettleWrittenLog, HydrateFinishedLog, HydrateUnfinishedLog,
     HydrateWrittenLog DEF RunStep
<1> QED
  BY <1>1, <1>2, <1>3, <1>4

\* One run more at a time is in memory.
LEMMA FiniteRuns ==
  ASSUME TypeOK, IsFiniteSet(Runs), [Next]_vars
  PROVE  IsFiniteSet(Runs')
<1>1. ASSUME NEW r \in RunIds, RunStep(r), ~Start(r), ~HydrateAborts(r),
             NEW s \in RunIds, s # r
      PROVE  run'[s] = run[s]
  BY <1>1 DEF RunStep, TypeOK, Cancel, DeadlineFires, AgentEvent,
         AgentReturns, Flushed, Reported, EmitWritten, SettleWritten,
         HydrateFinished, HydrateUnfinished, HydrateWritten, Emit
<1>2. ASSUME NEW r \in RunIds, Start(r) \/ StartRejected, NEW s \in RunIds, s # r \/ StartRejected
      PROVE  run'[s] \in {run[s], NoRun}
  BY <1>2 DEF Start, StartRejected, Pruned, TypeOK
<1>3. \/ \E r \in RunIds : Runs' \subseteq Runs \cup {r}
      \/ Runs' \subseteq Runs
  <2>1. ASSUME NEW r \in RunIds, RunStep(r) PROVE Runs' \subseteq Runs \cup {r}
    <3>1. CASE Start(r)
      BY <1>2, <3>1 DEF Runs, Present, NoRun
    <3>2. CASE HydrateAborts(r)
      BY <3>2 DEF HydrateAborts, MemoryLost, Runs, Present, NoRun
    <3>3. CASE ~Start(r) /\ ~HydrateAborts(r)
      BY <1>1, <2>1, <3>3 DEF Runs, Present
    <3> QED
      BY <3>1, <3>2, <3>3
  <2>2. CASE StartRejected
    BY <1>2, <2>2 DEF Runs, Present, NoRun
  <2>3. CASE Crash
    BY <2>3 DEF Crash, MemoryLost, Runs, Present, NoRun
  <2>4. CASE Restart \/ Serve \/ UNCHANGED vars
    BY <2>4 DEF Restart, Serve, vars, Runs, Present
  <2> QED
    BY <2>1, <2>2, <2>3, <2>4 DEF Next
<1>4. \A r : IsFiniteSet(Runs \cup {r})
  BY FS_AddElement
<1> QED
  BY <1>3, <1>4, FS_Subset

LEMMA StepLog ==
  ASSUME LIInv, [Next]_vars
  PROVE  LIInv'
<1>1. /\ TypeOK /\ IsFiniteSet(Runs) /\ IInv
      /\ \A s \in RunIds : RunInv(s) /\ LogInv(s)
  BY DEF LIInv, IInv
<1>2. IInv' /\ IsFiniteSet(Runs')
  BY <1>1, StepInv, FiniteRuns
<1>3. ASSUME NEW s \in RunIds PROVE LogInv(s)'
  <2>1. CASE \E r \in RunIds : RunStep(r)
    BY <1>1, <2>1, RunStepLog
  <2>2. CASE StartRejected
    BY <1>1, <2>2, RejectLog
  <2>3. CASE Crash
    BY <1>1, <2>3, LostLog DEF Crash
  <2>4. CASE Restart \/ Serve
    BY <1>1, <2>4, RestartLog
  <2>5. CASE UNCHANGED vars
    BY <1>1, <2>5, LogUntouched DEF vars
  <2> QED
    BY <2>1, <2>2, <2>3, <2>4, <2>5 DEF Next
<1> QED
  BY <1>2, <1>3 DEF LIInv

LEMMA InitLog ==
  ASSUME Init
  PROVE  LIInv
<1>1. IInv
  BY TypeCorrectInit, InitRunInv DEF IInv
<1>2. Runs = {}
  BY DEF Init, Runs, Present, NoRun
<1>3. IsFiniteSet(Runs)
  BY <1>2, FS_EmptySet
<1>4. ASSUME NEW r \in RunIds PROVE LogInv(r)
  <2>1. /\ run[r] = NoRun /\ disk[r] = NoRun /\ exec[r].phase = "none" /\ Len(queue[r]) = 0
        /\ queue[r] = <<>> /\ report[r] = "none" /\ unread = {}
    BY DEF Init, NotExecuting
  <2>2. ChainInv(r) /\ SoundInv(r)
    BY <2>1, NothingStored DEF ChainInv, Chain, SoundInv, Present
  <2>3. DecidedInv(r) /\ FailedInv(r)
    BY <2>1, NothingStored DEF DecidedInv, FailedInv
  <2> QED
    BY <2>2, <2>3 DEF LogInv
<1> QED
  BY <1>1, <1>3, <1>4 DEF LIInv

-----------------------------------------------------------------------------
(* The theorems about logs and reports *)

\* The inductive invariant behind the theorems below.
THEOREM LogInvariant == Spec => []LIInv
<1>1. Init => LIInv
  BY InitLog
<1>2. LIInv /\ [Next]_vars => LIInv'
  BY StepLog
<1> QED
  BY <1>1, <1>2, PTL DEF Spec

\* The file of a run never holds a log that the one a client reads does not continue,
\* and a settled run has one terminal event, its last, that names its status
\* (emit, persist, settleRun, hydrate).
THEOREM LogsAreSound == Spec => []LogIsSound
<1>1. LIInv => LogIsSound
  BY DEF LIInv, IInv, LogInv, ChainInv, SoundInv, Sound, LogIsSound, DiskLogIsPrefix,
         OneTerminalEvent
<1> QED
  BY <1>1, LogInvariant, PTL

\* The report a client can download names the outcome of its run, unless the run was
\* cancelled under the report's hands or its process died (execute, writeRunReport).
THEOREM ReportsAgree == Spec => []ReportAgrees
<1>1. LIInv => ReportAgrees
  BY DEF LIInv, LogInv, SoundInv, Sound, ReportAgrees
<1> QED
  BY <1>1, LogInvariant, PTL

-----------------------------------------------------------------------------
(* RunManager implements RunLifecycle *)

\* The refinement mapping.
view == [r \in RunIds |-> run[r].status]
log == [r \in RunIds |-> run[r].events]
saved == [r \in RunIds |->
            [log |-> disk[r].events,
             outcome |-> IF disk[r].settled THEN disk[r].status ELSE "open"]]

Stutter == UNCHANGED <<issued, view, log, saved>>
Step == Lifecycle!LifecycleNext \/ Stutter

LEMMA InitMaps == Init => Lifecycle!LifecycleInit
  BY DEF Init, NoRun, Lifecycle!LifecycleInit

LEMMA StutterMaps ==
  ASSUME TypeOK, issued' = issued, disk' = disk,
         \A r \in RunIds : run'[r].status = run[r].status /\ run'[r].events = run[r].events
  PROVE  Step
  BY DEF Step, Stutter, view, log, saved

\* What emit() on an open run shows.
LEMMA EmitMaps ==
  ASSUME TypeOK, NEW r \in RunIds, RunInv(r), LogInv(r), Present(r), ~Closed(r), disk' = disk,
         NEW x \in ResearchRun, x.events = run[r].events, NEW type \in EventType, Emit(r, x, type)
  PROVE  /\ log' = [log EXCEPT ![r] = Append(@, type)]
         /\ view' = [view EXCEPT ![r] = x.status]
         /\ saved' = saved
<1>1. run' = [run EXCEPT ![r] = WithEvent(x, type)]
  BY DEF Emit
<1>2. WithEvent(x, type).status = x.status /\ WithEvent(x, type).events = Append(run[r].events, type)
  BY DEF WithEvent, ResearchRun
<1> QED
  BY <1>1, <1>2 DEF view, log, saved, TypeOK

LEMMA CancelMaps ==
  ASSUME TypeOK, NEW r \in RunIds, RunInv(r), LogInv(r), Cancel(r)
  PROVE  Step
<1> DEFINE x == [run[r] EXCEPT !.status = "cancelling", !.cancelRequested = TRUE]
<1>1. x \in ResearchRun /\ x.events = run[r].events /\ x.status = "cancelling"
  <2>1. x \in ResearchRun
    BY RunLogs, FieldTypes
  <2> QED
    BY <2>1, RunLogs DEF ResearchRun
<1>2. /\ Present(r) /\ ~Closed(r) /\ run[r].status # "cancelling" /\ disk' = disk
      /\ Emit(r, x, "run.cancellation_requested") /\ issued' = issued
      /\ "run.cancellation_requested" \in EventType
  BY DEF Cancel, EventType
<1> HIDE DEF x
<1>3. run[r].status = "running"
  BY <1>2, OpenRun
<1>4. /\ log' = [log EXCEPT ![r] = Append(@, "run.cancellation_requested")]
      /\ view' = [view EXCEPT ![r] = "cancelling"] /\ saved' = saved
  BY <1>1, <1>2, EmitMaps
<1>5. Lifecycle!RequestCancel(r)
  BY <1>2, <1>3, <1>4 DEF Lifecycle!RequestCancel, Lifecycle!Logs, view, log, saved
<1> QED
  BY <1>5 DEF Step, Lifecycle!LifecycleNext

LEMMA LoggedMaps ==
  ASSUME NEW r \in RunIds, run[r].status \in {"running", "cancelling"},
         NEW type \in Lifecycle!AgentEvents \cup Lifecycle!ReportEvents,
         type \in ReportEvents => ~HasReport(run[r]),
         run[r].events \in Logs, issued' = issued, view' = view, saved' = saved,
         log' = [log EXCEPT ![r] = Append(@, type)]
  PROVE  Step
<1>1. type \in Lifecycle!ReportEvents => Lifecycle!ReportPending(run[r].events)
  BY DEF Lifecycle!ReportPending, Lifecycle!ReportEvents, ReportEvents, HasReport, Logs
<1>2. Lifecycle!Emit(r, type)
  BY <1>1 DEF Lifecycle!Emit, Lifecycle!Logs, Lifecycle!Active, view, log, saved
<1> QED
  BY <1>2 DEF Step, Lifecycle!LifecycleNext

LEMMA SameView ==
  ASSUME NEW r \in RunIds, view' = [view EXCEPT ![r] = run[r].status]
  PROVE  view' = view
  BY DEF view

LEMMA AgentEventMaps ==
  ASSUME TypeOK, NEW r \in RunIds, RunInv(r), LogInv(r), AgentEvent(r)
  PROVE  Step
<1>1. /\ Present(r) /\ Emit(r, run[r], "agent.event") /\ issued' = issued /\ disk' = disk
      /\ "agent.event" \in EventType /\ run[r] \in ResearchRun /\ run[r].events \in Logs
  BY RunLogs DEF AgentEvent, EventType
<1>2. CASE Closed(r)
  BY <1>1, <1>2, EmitClosed, StutterMaps
<1>3. CASE ~Closed(r)
  <2>1. /\ log' = [log EXCEPT ![r] = Append(@, "agent.event")] /\ view' = view /\ saved' = saved
    BY <1>1, <1>3, EmitMaps, SameView
  <2>2. run[r].status \in {"running", "cancelling"}
    BY <1>1, <1>3, OpenRun
  <2> QED
    BY <1>1, <2>1, <2>2, LoggedMaps DEF Lifecycle!AgentEvents, ReportEvents
<1> QED
  BY <1>2, <1>3

LEMMA AgentReturnsMaps ==
  ASSUME TypeOK, NEW r \in RunIds, NEW outcome \in Outcome, AgentReturns(r, outcome)
  PROVE  Step
<1>1. \A s \in RunIds : run'[s].status = run[s].status /\ run'[s].events = run[s].events
  BY DEF AgentReturns, TypeOK, ResearchRun
<1> QED
  BY <1>1, StutterMaps DEF AgentReturns

LEMMA FlushedMaps ==
  ASSUME TypeOK, NEW r \in RunIds, RunInv(r), LogInv(r), NEW ok \in BOOLEAN, Flushed(r, ok)
  PROVE  Step
<1>1. exec[r].phase = "flush" /\ issued' = issued /\ disk' = disk
  BY DEF Flushed
<1>2. CASE ok
  BY <1>1, <1>2, StutterMaps DEF Flushed
<1>3. CASE ~ok
  <2>1. /\ Present(r) /\ ~Closed(r) /\ run[r].status \in {"running", "cancelling"}
        /\ run[r] \in ResearchRun /\ run[r].events \in Logs
        /\ Emit(r, run[r], "evidence.write_error") /\ "evidence.write_error" \in EventType
    BY <1>1, <1>3, OpenRun, RunLogs DEF Flushed, EventType
  <2>2. /\ log' = [log EXCEPT ![r] = Append(@, "evidence.write_error")]
        /\ view' = view /\ saved' = saved
    BY <1>1, <2>1, EmitMaps, SameView
  <2> QED
    BY <1>1, <2>1, <2>2, LoggedMaps DEF Lifecycle!AgentEvents, ReportEvents
<1> QED
  BY <1>2, <1>3

LEMMA ReportedMaps ==
  ASSUME TypeOK, NEW r \in RunIds, RunInv(r), LogInv(r), NEW ok \in BOOLEAN, Reported(r, ok)
  PROVE  Step
<1> DEFINE type == IF ok THEN "report.completed" ELSE "report.failed"
<1>1. /\ exec[r].phase = "report" /\ issued' = issued /\ disk' = disk
      /\ run' = [run EXCEPT ![r] = ReportedRun(run[r], ok)]
  BY DEF Reported, ReportedRun
<1>2. /\ run[r].status \in {"running", "cancelling"} /\ ~HasReport(run[r])
      /\ run[r] \in ResearchRun /\ run[r].events \in Logs
  BY <1>1, OpenRun, RunLogs
<1>3. /\ ReportedRun(run[r], ok).status = run[r].status
      /\ ReportedRun(run[r], ok).events = Append(run[r].events, type)
  BY <1>2 DEF ReportedRun, ResearchRun
<1> HIDE DEF type
<1>4. /\ log' = [log EXCEPT ![r] = Append(@, type)] /\ view' = view /\ saved' = saved
  BY <1>1, <1>3 DEF view, log, saved, TypeOK
<1>5. type \in Lifecycle!ReportEvents
  BY DEF type, Lifecycle!ReportEvents
<1> QED
  BY <1>1, <1>2, <1>4, <1>5, LoggedMaps

LEMMA EmitWrittenMaps ==
  ASSUME TypeOK, NEW r \in RunIds, RunInv(r), LogInv(r), NEW ok \in BOOLEAN, EmitWritten(r, ok)
  PROVE  Step
<1> DEFINE x == Head(queue[r]).run
<1>1. /\ mode = "up" /\ queue[r] # <<>> /\ Head(queue[r]).by = "emit" /\ issued' = issued
      /\ queue[r] \in Seq(Snapshot) /\ Head(queue[r]) \in Snapshot
      /\ disk' = IF ok THEN [disk EXCEPT ![r] = x] ELSE disk
  BY TailFacts DEF EmitWritten, Written, TypeOK
<1>2. \A s \in RunIds : run'[s].status = run[s].status /\ run'[s].events = run[s].events
  BY DEF EmitWritten, TypeOK, ResearchRun
<1>3. CASE ~ok
  BY <1>1, <1>2, <1>3, StutterMaps
<1>4. CASE ok
  <2>1. exec[r].phase # "none" /\ ~disk[r].settled /\ Present(r)
    BY <1>1 DEF RunInv, ExecutionInv
  <2>2. ~x.settled
    <3>1. CASE exec[r].phase = "settle"
      BY <1>1, <3>1, TailOfSettling DEF RunInv, ExecutionInv
    <3>2. CASE exec[r].phase # "settle"
      BY <1>1, <2>1, <3>2, TailOfEmits DEF RunInv, ExecutionInv, TypeOK, Execution, Phase
    <3> QED
      BY <3>1, <3>2
  <2>3. x.events \in Logs /\ disk[r].events \in Logs /\ run[r].events \in Logs
    BY <1>1, RunLogs DEF Snapshot, ResearchRun, Logs
  <2>4. PrefixOf(disk[r].events, x.events) /\ PrefixOf(x.events, run[r].events)
    BY <1>1, ChainTail DEF LogInv, ChainInv
  <2> HIDE DEF x
  <2>5. PrefixOf(disk[r].events, run[r].events)
    BY <2>3, <2>4, PrefixFacts
  <2>6. /\ Len(x.events) \in Len(disk[r].events)..Len(run[r].events)
        /\ x.events = SubSeq(run[r].events, 1, Len(x.events))
    BY <2>3, <2>4 DEF PrefixOf, Logs
  <2>7. saved' = [saved EXCEPT ![r].log = x.events] /\ saved[r].log = disk[r].events
        /\ saved[r].outcome = "open"
    BY <1>1, <1>4, <2>1, <2>2 DEF saved, TypeOK
  <2>8. view' = view /\ log' = log /\ log[r] = run[r].events
    BY <1>2 DEF view, log
  <2>9. Lifecycle!Prefix(disk[r].events, run[r].events)
    BY <2>5 DEF Lifecycle!Prefix, PrefixOf
  <2>10. Lifecycle!Save(r)
    <3>1. \E n \in Len(saved[r].log)..Len(log[r]) :
            /\ Lifecycle!Prefix(saved[r].log, log[r])
            /\ saved' = [saved EXCEPT ![r].log = SubSeq(log[r], 1, n)]
      BY <2>6, <2>7, <2>8, <2>9
    <3> QED
      BY <1>1, <2>7, <2>8, <3>1 DEF Lifecycle!Save, view, log, saved
  <2> QED
    BY <2>10 DEF Step, Lifecycle!LifecycleNext
<1> QED
  BY <1>3, <1>4

LEMMA SettleWrittenMaps ==
  ASSUME TypeOK, NEW r \in RunIds, RunInv(r), LogInv(r), NEW ok \in BOOLEAN, SettleWritten(r, ok)
  PROVE  Step
<1> DEFINE x == Head(queue[r]).run
           y == SettledInMemory(x, ok)
<1>1. /\ issued' = issued /\ run' = [run EXCEPT ![r] = y]
      /\ disk' = IF ok THEN [disk EXCEPT ![r] = x] ELSE disk
  BY DEF SettleWritten, Written
<1>2. /\ exec[r].phase = "settle" /\ Present(r) /\ ~run[r].settled
      /\ Len(queue[r]) = 1 /\ Head(queue[r]) = queue[r][1] /\ x \in ResearchRun
      /\ x.settled /\ x.status \in Terminal
  BY TurnOfTheSettled
<1>3. y.status = x.status /\ y.events = x.events
  BY <1>2 DEF SettledInMemory, ResearchRun
<1>4. /\ HasReport(run[r]) /\ x.events = Append(run[r].events, TerminalEvent(x.status))
      /\ x.status = "cancelled" <=> run[r].status = "cancelling"
  BY <1>2 DEF LogInv, DecidedInv
<1>5. run[r].status \in {"running", "cancelling"}
  <2>1. run[r].status \notin Terminal /\ run[r].status # "queued" /\ run[r].status # "absent"
    BY <1>2 DEF RunInv, Honoured, CancellationHonoured, LogInv, DecidedInv, Present
  <2> QED
    BY <2>1, RunLogs DEF ResearchRun, RunStatus, Unfinished
<1> HIDE DEF x, y
<1>6. PICK outcome \in Terminal : outcome = x.status
  BY <1>2
<1>7. /\ view' = [view EXCEPT ![r] = outcome]
      /\ log' = [log EXCEPT ![r] = Append(@, TerminalEvent(outcome))]
      /\ log'[r] = x.events
  BY <1>1, <1>3, <1>4, <1>6 DEF view, log, TypeOK
<1>8. saved' \in {saved, [saved EXCEPT ![r] = [log |-> x.events, outcome |-> outcome]]}
  BY <1>1, <1>2, <1>6 DEF saved, TypeOK
<1>9. Lifecycle!TerminalEvent(outcome) = TerminalEvent(outcome) /\ outcome \in Lifecycle!Terminal
  BY DEF Lifecycle!TerminalEvent, TerminalEvent, Lifecycle!Terminal, Terminal
<1>10. ~Lifecycle!ReportPending(run[r].events)
  BY <1>4, RunLogs DEF Lifecycle!ReportPending, Lifecycle!ReportEvents, HasReport, Logs
<1>11. Lifecycle!Finish(r, outcome)
  BY <1>1, <1>4, <1>5, <1>6, <1>7, <1>8, <1>9, <1>10
  DEF Lifecycle!Finish, Lifecycle!Logs, Lifecycle!Active, view, log, saved
<1> QED
  BY <1>9, <1>11 DEF Step, Lifecycle!LifecycleNext

LEMMA ForgottenMaps ==
  ASSUME TypeOK, MemoryLost, issued' = issued, disk' = disk
  PROVE  Step
<1>1. Lifecycle!Crash
  BY DEF Lifecycle!Crash, MemoryLost, NoRun
<1> QED
  BY <1>1 DEF Step, Lifecycle!LifecycleNext

\* A run that a new process finds on disk, finished or failed by it.
LEMMA RecoverMaps ==
  ASSUME TypeOK, NEW r \in RunIds, run[r].status = "absent", disk[r].events # <<>>,
         issued' = issued, run' = [run EXCEPT ![r] = disk'[r]],
         \/ disk' = disk /\ disk[r].settled /\ disk[r].status # "open"
         \/ /\ disk' = [disk EXCEPT ![r] = RestartedRun(disk[r])]
            /\ ~disk[r].settled /\ Sound(r, disk[r])
  PROVE  Step
<1>1. /\ view[r] = "absent" /\ saved[r].log # <<>>
      /\ view' = [view EXCEPT ![r] = disk'[r].status]
      /\ log' = [log EXCEPT ![r] = disk'[r].events]
  BY DEF view, log, saved, TypeOK
<1>2. CASE disk' = disk /\ disk[r].settled /\ disk[r].status # "open"
  <2>1. saved[r].outcome = disk[r].status /\ saved' = saved /\ saved[r].log = disk[r].events
    BY <1>2 DEF saved
  <2>2. Lifecycle!Recover(r)
    BY <1>1, <1>2, <2>1 DEF Lifecycle!Recover, view, log, saved
  <2> QED
    BY <2>2 DEF Step, Lifecycle!LifecycleNext
<1>3. CASE /\ disk' = [disk EXCEPT ![r] = RestartedRun(disk[r])]
           /\ ~disk[r].settled /\ Sound(r, disk[r])
  <2>1. /\ disk'[r].settled = TRUE /\ disk'[r].status = "failed"
        /\ disk'[r].events = Append(disk[r].events, "run.failed")
    BY <1>3, RunLogs, RestartedRunFacts DEF TypeOK
  <2>2. /\ saved[r].outcome = "open" /\ saved[r].log = disk[r].events
        /\ saved'[r].outcome = "failed" /\ saved'[r].log = Append(disk[r].events, "run.failed")
    BY <1>3, <2>1 DEF saved
  <2>3. saved' = [saved EXCEPT ![r] = [log |-> Append(@.log, "run.failed"),
                                      outcome |-> "failed"]]
    BY <1>3, <2>1 DEF saved, TypeOK
  <2>4. Lifecycle!Recover(r)
    BY <1>1, <2>1, <2>2, <2>3 DEF Lifecycle!Recover, view, log, saved
  <2> QED
    BY <2>4 DEF Step, Lifecycle!LifecycleNext
<1> QED
  BY <1>2, <1>3

LEMMA HydrateFinishedMaps ==
  ASSUME TypeOK, NEW r \in RunIds, RunInv(r), LogInv(r), HydrateFinished(r)
  PROVE  Step
<1>1. /\ r \in unread /\ mode = "hydrating" /\ disk[r].status \notin Unfinished
      /\ disk' = disk /\ issued' = issued /\ run' = [run EXCEPT ![r] = disk[r]]
  BY DEF HydrateFinished, HydrateIdle
<1>2. run[r].status = "absent" /\ disk[r].status # "absent"
  BY <1>1 DEF RunInv, HydrateInv, LogInv, FailedInv, Present
<1>3. disk[r].status \in Terminal /\ disk[r].settled /\ disk[r].events # <<>>
  <2>1. disk[r].status \in Terminal
    BY <1>1, <1>2, RunLogs DEF ResearchRun, RunStatus
  <2> QED
    BY <1>2, <2>1 DEF RunInv, Honoured, CancellationHonoured, LogInv, SoundInv, Sound
<1> QED
  BY <1>1, <1>2, <1>3, RecoverMaps DEF Terminal

LEMMA HydrateWrittenMaps ==
  ASSUME TypeOK, NEW r \in RunIds, RunInv(r), LogInv(r), HydrateWritten(r)
  PROVE  Step
<1>1. /\ mode = "hydrating" /\ queue[r] # <<>> /\ issued' = issued
      /\ run' = [run EXCEPT ![r] = Head(queue[r]).run]
      /\ disk' = [disk EXCEPT ![r] = Head(queue[r]).run]
  BY DEF HydrateWritten, Written
<1>2. /\ ~disk[r].settled /\ Head(queue[r]).run = RestartedRun(disk[r])
      /\ run[r].status = "absent" /\ disk[r].events # <<>> /\ Sound(r, disk[r])
  BY <1>1 DEF RunInv, HydrateInv, LogInv, FailedInv, SoundInv, Sound, Present
<1>3. disk'[r] = Head(queue[r]).run
  BY <1>1 DEF TypeOK
<1> QED
  BY <1>1, <1>2, <1>3, RecoverMaps

\* What start() drops from memory for room.
LEMMA DroppedMaps ==
  ASSUME LIInv, NEW dropped, dropped = Runs \ Kept
  PROVE  /\ dropped \subseteq RunIds /\ Lifecycle!MayGo(dropped)
         /\ \A s \in RunIds :
              /\ Pruned[s].status = Lifecycle!Without(view, dropped, "absent")[s]
              /\ Pruned[s].events = Lifecycle!Without(log, dropped, <<>>)[s]
<1>0. \A s \in RunIds : RunInv(s) /\ LogInv(s)
  BY DEF LIInv, IInv
<1>1. \A s \in dropped : run[s].settled /\ s \in RunIds
  BY DEF Kept, Runs
<1>2. \A s \in RunIds : run[s].settled => run[s].status \in Terminal
  BY <1>0 DEF RunInv, Honoured, CancellationHonoured
<1>3. Lifecycle!MayGo(dropped)
  BY <1>1, <1>2 DEF Lifecycle!MayGo, Lifecycle!Terminal, Terminal
<1>4. \A s \in RunIds : Pruned[s] = IF s \in dropped THEN NoRun ELSE run[s]
  <2>1. \A s \in RunIds : s \notin Runs => run[s] = NoRun
    BY <1>0 DEF LogInv, DecidedInv, Runs
  <2> QED
    BY <2>1 DEF Pruned, Kept, Runs
<1> QED
  BY <1>1, <1>3, <1>4, NothingStored DEF Lifecycle!Without, view, log

\* The FiniteSets the instance extends are those extended here.
LEMMA SameCardinality ==
  ASSUME NEW S
  PROVE  Lifecycle!Cardinality(S) = Cardinality(S)
  BY DEF Cardinality, Lifecycle!Cardinality

LEMMA StartMaps ==
  ASSUME LIInv, NEW r \in RunIds, Start(r)
  PROVE  Step
<1>0. TypeOK /\ IsFiniteSet(Runs) /\ \A s \in RunIds : RunInv(s) /\ LogInv(s)
  BY DEF LIInv, IInv
<1>1. PICK dropped : dropped = Runs \ Kept
  OBVIOUS
<1>2. /\ dropped \subseteq RunIds /\ Lifecycle!MayGo(dropped)
      /\ \A s \in RunIds :
           /\ Pruned[s].status = Lifecycle!Without(view, dropped, "absent")[s]
           /\ Pruned[s].events = Lifecycle!Without(log, dropped, <<>>)[s]
  BY <1>1, DroppedMaps
<1>3. /\ r \notin issued /\ HasRoom /\ issued' = issued \cup {r} /\ disk' = disk
      /\ run' = [Pruned EXCEPT ![r] = StartedRun]
  BY DEF Start
<1>4. /\ StartedRun.status = "running" /\ StartedRun.events = <<"run.queued", "run.started">>
  BY DEF StartedRun, QueuedRun, NoRun
<1>5. /\ view' = [Lifecycle!Without(view, dropped, "absent") EXCEPT ![r] = "running"]
      /\ log' = [Lifecycle!Without(log, dropped, <<>>) EXCEPT
                   ![r] = <<"run.queued", "run.started">>]
      /\ saved' = saved
  <2>1. \A s \in RunIds : run'[s] = IF s = r THEN StartedRun ELSE Pruned[s]
    BY <1>3 DEF Pruned
  <2> HIDE DEF Pruned
  <2>2. /\ Lifecycle!Without(view, dropped, "absent") =
             [s \in RunIds |-> Lifecycle!Without(view, dropped, "absent")[s]]
        /\ Lifecycle!Without(log, dropped, <<>>) =
             [s \in RunIds |-> Lifecycle!Without(log, dropped, <<>>)[s]]
    BY DEF Lifecycle!Without
  <2>3. saved' = saved
    BY <1>3 DEF saved
  <2>4. view' = [Lifecycle!Without(view, dropped, "absent") EXCEPT ![r] = "running"]
    BY <1>2, <1>4, <2>1, <2>2 DEF view
  <2>5. log' = [Lifecycle!Without(log, dropped, <<>>) EXCEPT
                  ![r] = <<"run.queued", "run.started">>]
    BY <1>2, <1>4, <2>1, <2>2 DEF log
  <2> QED
    BY <2>3, <2>4, <2>5
<1>6. Cardinality({s \in RunIds : view[s] \in Lifecycle!Active}) < MaxRuns
  <2> DEFINE active == {s \in RunIds : view[s] \in Lifecycle!Active}
  <2>1. active \subseteq Kept /\ Kept \subseteq Runs
    <3>1. ASSUME NEW s \in active PROVE s \in Runs /\ ~run[s].settled
      <4>1. run[s].status \in {"running", "cancelling"} /\ s \in RunIds
        BY DEF Lifecycle!Active, view
      <4> QED
        BY <1>0, <4>1 DEF Runs, Present, RunInv, Honoured, CancellationHonoured, Terminal
    <3> QED
      BY <3>1 DEF Kept
  <2> HIDE DEF active
  <2>2. IsFiniteSet(Kept)
    BY <1>0, <2>1, FS_Subset
  <2>3. Cardinality(active) <= Cardinality(Kept) /\ Cardinality(Kept) \in Nat
        /\ Cardinality(active) \in Nat
    BY <2>1, <2>2, FS_Subset, FS_CardinalityType
  <2>4. Cardinality(Kept) < MaxRuns /\ MaxRuns \in Nat
    BY <1>3, RunManagerAssumption DEF HasRoom
  <2> QED
    BY <2>3, <2>4 DEF active
<1>7. Lifecycle!Accept(r, dropped)
  BY <1>2, <1>3, <1>5, <1>6, SameCardinality DEF Lifecycle!Accept, view, log, saved
<1> QED
  BY <1>2, <1>7 DEF Step, Lifecycle!LifecycleNext

LEMMA RejectMaps ==
  ASSUME LIInv, StartRejected
  PROVE  Step
<1>1. PICK dropped : dropped = Runs \ Kept
  OBVIOUS
<1>2. /\ dropped \subseteq RunIds /\ Lifecycle!MayGo(dropped)
      /\ \A s \in RunIds :
           /\ Pruned[s].status = Lifecycle!Without(view, dropped, "absent")[s]
           /\ Pruned[s].events = Lifecycle!Without(log, dropped, <<>>)[s]
  BY <1>1, DroppedMaps
<1>3. issued' = issued /\ disk' = disk /\ run' = Pruned
  BY DEF StartRejected
<1>4. /\ view' = Lifecycle!Without(view, dropped, "absent")
      /\ log' = Lifecycle!Without(log, dropped, <<>>) /\ saved' = saved
  BY <1>2, <1>3 DEF Lifecycle!Without, view, log, saved
<1>5. Lifecycle!Drop(dropped)
  BY <1>2, <1>3, <1>4 DEF Lifecycle!Drop, view, log, saved
<1> QED
  BY <1>2, <1>5 DEF Step, Lifecycle!LifecycleNext

-----------------------------------------------------------------------------
(* The refinement *)

LEMMA NextMaps ==
  ASSUME LIInv, [Next]_vars
  PROVE  [Lifecycle!LifecycleNext]_Lifecycle!lifecycleVars
<1> SUFFICES Step
  BY DEF Step, Stutter, Lifecycle!lifecycleVars, view, log, saved
<1>0. TypeOK /\ \A r \in RunIds : RunInv(r) /\ LogInv(r)
  BY DEF LIInv, IInv
<1>1. ASSUME NEW r \in RunIds, RunStep(r) PROVE Step
  <2>1. CASE DeadlineFires(r) \/ HydrateUnfinished(r)
    BY <1>0, <2>1, StutterMaps DEF DeadlineFires, HydrateUnfinished
  <2>2. CASE HydrateAborts(r)
    BY <1>0, <2>2, ForgottenMaps DEF HydrateAborts
  <2> QED
    BY <1>0, <1>1, <2>1, <2>2, StartMaps, CancelMaps, AgentEventMaps, AgentReturnsMaps,
       FlushedMaps, ReportedMaps, EmitWrittenMaps, SettleWrittenMaps, HydrateFinishedMaps,
       HydrateWrittenMaps DEF RunStep
<1>2. CASE StartRejected
  BY <1>2, RejectMaps
<1>3. CASE Crash
  BY <1>0, <1>3, ForgottenMaps DEF Crash
<1>4. CASE Restart \/ Serve \/ UNCHANGED vars
  BY <1>0, <1>4, StutterMaps DEF Restart, Serve, vars
<1> QED
  BY <1>1, <1>2, <1>3, <1>4 DEF Next

\* The run service keeps every promise of RunLifecycle to its clients and to the
\* operator who restarts it (src/app/run-manager.ts).
THEOREM ImplementsLifecycle == Spec => LifecycleSpec
<1>1. Init => Lifecycle!LifecycleInit
  BY InitMaps
<1>2. LIInv /\ [Next]_vars => [Lifecycle!LifecycleNext]_Lifecycle!lifecycleVars
  BY NextMaps
<1> QED
  BY <1>1, <1>2, LogInvariant, PTL DEF Spec, LifecycleSpec, Lifecycle!LifecycleSpec

=============================================================================
