---------------------------- MODULE RunLifecycle ----------------------------
(***************************************************************************)
(* What the asynchronous run service promises to a client that polls       *)
(* GET /v1/research/:runId and its events (src/adapters/http/server.ts)    *)
(* and to the operator who restarts it, without saying how: the status     *)
(* diagram of the README section "Run lifecycle", the events that lead     *)
(* through it, and what a restart may do to both.                          *)
(***************************************************************************)
EXTENDS Naturals, Sequences, FiniteSets

CONSTANTS
  RunIds,
  MaxRuns   \* the most runs that are active at a time

Terminal == {"completed", "interrupted", "failed", "cancelled"}
Active == {"running", "cancelling"}

TerminalEvent(outcome) ==
  CASE outcome = "completed" -> "run.completed"
    [] outcome = "interrupted" -> "run.interrupted"
    [] outcome = "failed" -> "run.failed"
    [] OTHER -> "run.cancelled"

ReportEvents == {"report.completed", "report.failed"}

VARIABLES
  issued,   \* the run ids handed out so far (a random UUID is never reused)
  view,     \* the status shown, "absent" for a 404
  log,      \* the events shown; the sequence number is the index
  saved     \* on disk: the log as it was saved last and the outcome, "open"
            \* while there is none

lifecycleVars == <<issued, view, log, saved>>

\* No report has been written or given up for the run with this log.
ReportPending(events) == \A i \in DOMAIN events : events[i] \notin ReportEvents

Prefix(s, t) == Len(s) <= Len(t) /\ SubSeq(t, 1, Len(s)) = s

LifecycleInit ==
  /\ issued = {}
  /\ view = [r \in RunIds |-> "absent"]
  /\ log = [r \in RunIds |-> <<>>]
  /\ saved = [r \in RunIds |-> [log |-> <<>>, outcome |-> "open"]]

\* Finished runs may be dropped from memory at any time; the others may not.
MayGo(gone) == gone \subseteq {r \in RunIds : view[r] \in Terminal}

Without(f, gone, nothing) == [r \in RunIds |-> IF r \in gone THEN nothing ELSE f[r]]

Drop(gone) ==
  /\ MayGo(gone)
  /\ view' = Without(view, gone, "absent")
  /\ log' = Without(log, gone, <<>>)
  /\ UNCHANGED <<issued, saved>>

Accept(r, gone) ==
  /\ r \notin issued
  /\ Cardinality({s \in RunIds : view[s] \in Active}) < MaxRuns
  /\ MayGo(gone)
  /\ issued' = issued \cup {r}
  /\ view' = [Without(view, gone, "absent") EXCEPT ![r] = "running"]
  /\ log' = [Without(log, gone, <<>>) EXCEPT ![r] = <<"run.queued", "run.started">>]
  /\ UNCHANGED saved

Logs(r, event) == log' = [log EXCEPT ![r] = Append(@, event)]

RequestCancel(r) ==
  /\ view[r] = "running"
  /\ view' = [view EXCEPT ![r] = "cancelling"]
  /\ Logs(r, "run.cancellation_requested")
  /\ UNCHANGED <<issued, saved>>

\* The agent, or the report, of which there is one.
Emit(r, event) ==
  /\ view[r] \in Active
  /\ event \in ReportEvents => ReportPending(log[r])
  /\ Logs(r, event)
  /\ UNCHANGED <<issued, view, saved>>

\* What is saved follows what is shown.
Save(r) ==
  /\ \E n \in Len(saved[r].log)..Len(log[r]) :
       /\ Prefix(saved[r].log, log[r])
       /\ saved' = [saved EXCEPT ![r].log = SubSeq(log[r], 1, n)]
  /\ saved[r].outcome = "open"
  /\ UNCHANGED <<issued, view, log>>

\* A run ends once, after its report, with an event that says how. An
\* acknowledged cancellation decides how. The outcome is durable unless the
\* disk refused it.
Finish(r, outcome) ==
  /\ view[r] \in Active
  /\ ~ReportPending(log[r])
  /\ view[r] = "cancelling" <=> outcome = "cancelled"
  /\ view' = [view EXCEPT ![r] = outcome]
  /\ Logs(r, TerminalEvent(outcome))
  /\ saved' \in {saved, [saved EXCEPT ![r] = [log |-> log'[r], outcome |-> outcome]]}
  /\ UNCHANGED issued

Crash ==
  /\ view' = [r \in RunIds |-> "absent"]
  /\ log' = [r \in RunIds |-> <<>>]
  /\ UNCHANGED <<issued, saved>>

\* A later process shows the outcome on disk; a run it finds without one
\* failed, and that is made durable before it is shown.
Recover(r) ==
  /\ view[r] = "absent"
  /\ saved[r].log # <<>>
  /\ IF saved[r].outcome = "open"
     THEN saved' = [saved EXCEPT ![r] = [log |-> Append(@.log, "run.failed"),
                                         outcome |-> "failed"]]
     ELSE UNCHANGED saved
  /\ view' = [view EXCEPT ![r] = saved'[r].outcome]
  /\ log' = [log EXCEPT ![r] = saved'[r].log]
  /\ UNCHANGED issued

AgentEvents == {"agent.event", "evidence.write_error"}

LifecycleNext ==
  \/ \E gone \in SUBSET RunIds : Drop(gone)
  \/ \E r \in RunIds, gone \in SUBSET RunIds : Accept(r, gone)
  \/ \E r \in RunIds : RequestCancel(r) \/ Save(r) \/ Recover(r)
  \/ \E r \in RunIds, event \in AgentEvents \cup ReportEvents : Emit(r, event)
  \/ \E r \in RunIds, outcome \in Terminal : Finish(r, outcome)
  \/ Crash

LifecycleSpec == LifecycleInit /\ [][LifecycleNext]_lifecycleVars

=============================================================================
