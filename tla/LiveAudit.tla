----------------------------- MODULE LiveAudit -----------------------------
(***************************************************************************)
(* A live audit: main() of src/app/run-live-audit.ts, which connects the   *)
(* search tools, races the audit against the run's timer and closes the    *)
(* tools; the audit itself (live-audit-runtime.ts), which goes on behind   *)
(* main's back when the timer has won; the policy loop it runs             *)
(* (run-policy-task.ts, local-session-loop.ts) with the model calls of     *)
(* NanoclawBridge; and the workspace of EvidenceStore, to which other      *)
(* processes save at the same time.                                        *)
(***************************************************************************)
EXTENDS EvidenceStore, NanoclawBridge

CONSTANTS
  Audit,            \* this process, one of Savers
  MaxIterations,    \* runtime.maxIterations
  PreflightRetries, \* runtime.preflightRetryAttempts
  RunTimer,         \* runtime.runTimeoutMs > 0
  OtherKinds,       \* decisions of no known kind, which may search and fetch
  MaxSearches,      \* bound: the search actions of a decision
  MaxFetches,       \* bound: its fetch actions
  MaxOtherSaves     \* bound: the saves other processes begin

ASSUME LiveAuditAssumption ==
  /\ Audit \in Savers
  /\ MaxIterations \in Nat \ {0}
  /\ PreflightRetries \in Nat
  /\ RunTimer \in BOOLEAN
  /\ "none" \notin OtherKinds
  /\ MaxSearches \in Nat
  /\ MaxFetches \in Nat
  /\ MaxOtherSaves \in Nat

VARIABLES
  main,      \* connect, running (the audit), closing, exited
  error,     \* main's primaryError, or the cleanup error it ends with
  op,        \* where the audit is
  attempt,   \* of the preflight
  state,     \* fullAuditState: turn, found, fetched, failed
  work,      \* the iteration's copies: found, fetched, failed
  todo,      \* the decision: its kind and the actions left
  summary,   \* run-summary.json, or None
  everFailed, \* tool calls that failed in this audit
  others     \* saves other processes have begun

auditVars == <<main, error, op, attempt, state, work, todo, summary, everFailed>>
vars == <<storeVars, bridgeVars, auditVars, others>>

Terminal == {"finalize", "stop", "summarize_and_stop"}
Kinds == {"continue_search", "continue_fetch"} \cup Terminal \cup OtherKinds
Decisions == [kind : Kinds, searches : 0..MaxSearches, fetches : 0..MaxFetches]

None == [kind |-> "none"]
NoDecision == [kind |-> "none", searches |-> 0, fetches |-> 0]
Nothing == [found |-> FALSE, fetched |-> {}, failed |-> 0]

Ended == {"done", "threw"}
Ops == {"idle", "probe", "preflight", "pause", "ask", "persist", "search",
        "fetch", "save"} \cup Ended
Errors == {"none", "connect", "timeout", "failed", "cleanup", "killed"}

Invalid(d) ==
  \/ d.kind = "continue_search" /\ d.fetches > 0
  \/ d.kind = "continue_fetch" /\ d.searches > 0
  \/ d.kind \in Terminal /\ d.searches + d.fetches > 0

\* transportOutcome.status
Transport(s) ==
  IF s.failed = 0 THEN "healthy"
  ELSE IF s.found \/ s.fetched # {} THEN "degraded" ELSE "failed"

Gated(kind, s) ==
  \/ kind \notin Terminal
  \/ kind = "finalize" /\ Transport(s) # "healthy"

\* met: the report falls short of nothing.
SummaryOf(kind, s, met) ==
  [kind |-> kind, fetched |-> s.fetched,
   execution |-> IF Gated(kind, s) THEN "bounded_interruption" ELSE "complete",
   status |-> IF kind \in Terminal /\ met /\ ~Gated(kind, s)
              THEN "complete" ELSE "incomplete"]

-----------------------------------------------------------------------------
(* The policy loop: what happens between two awaits *)

Throw == op' = "threw" /\ work' = Nothing /\ todo' = NoDecision

CopyOf(s) == [found |-> s.found, fetched |-> s.fetched, failed |-> s.failed]

\* The head of the loop, which looks at the signal before it asks the model.
StartTurn(s) ==
  /\ state' = s
  /\ UNCHANGED summary
  /\ IF aborted THEN Throw /\ call' = NoCall
     ELSE op' = "ask" /\ work' = CopyOf(s) /\ todo' = NoDecision /\ StartCall

\* The loop returns and the summary is written, in one go; a write may fail.
Report(kind, s) ==
  /\ state' = s
  /\ work' = Nothing /\ todo' = NoDecision /\ call' = NoCall
  /\ \/ op' = "done" /\ \E met \in BOOLEAN : summary' = SummaryOf(kind, s, met)
     \/ op' = "threw" /\ UNCHANGED summary

\* What the iteration leaves: fullAuditState with its copies, one turn later.
AfterTurn(w) ==
  [turn |-> state.turn + 1, found |-> w.found, fetched |-> w.fetched,
   failed |-> w.failed]

EndTurn(kind, w) ==
  IF kind \in Terminal \/ state.turn + 1 = MaxIterations
  THEN Report(kind, AfterTurn(w))
  ELSE StartTurn(AfterTurn(w))

\* Searches come first; the signal is looked at before every action.
NextAction(w, d) ==
  IF d.searches + d.fetches = 0 THEN EndTurn(d.kind, w)
  ELSE /\ UNCHANGED <<state, summary>> /\ call' = NoCall
       /\ IF aborted THEN Throw
          ELSE /\ work' = w
               /\ todo' = IF d.searches > 0 THEN [d EXCEPT !.searches = @ - 1]
                          ELSE [d EXCEPT !.fetches = @ - 1]
               /\ op' = IF d.searches > 0 THEN "search" ELSE "fetch"

AuditThrows == Throw /\ call' = NoCall /\ UNCHANGED <<state, summary>>

WithFailure == [work EXCEPT !.failed = @ + 1]

-----------------------------------------------------------------------------
(* The preflight *)

FirstState == [turn |-> 0, found |-> FALSE, fetched |-> {}, failed |-> 0]

PreflightFails(reason) ==
  /\ IF reason = "retryable" /\ attempt < PreflightRetries /\ ~aborted
     THEN op' = "pause" /\ UNCHANGED <<work, todo>>
     ELSE Throw
  /\ call' = NoCall
  /\ UNCHANGED <<state, summary>>

\* resolvePreflightProvenance is not given up when the signal aborts.
Probe ==
  /\ op = "probe"
  /\ \/ op' = "preflight" /\ StartCall /\ UNCHANGED <<state, work, todo, summary>>
     \/ \E reason \in {"retryable", "final"} : PreflightFails(reason)
  /\ UNCHANGED <<storeVars, aborted, main, error, attempt, everFailed, others>>

Preflight ==
  /\ op = "preflight"
  /\ \/ call.phase = "answered" /\ StartTurn(FirstState)
     \/ call.phase = "failed" /\ call.error = "empty" /\ StartTurn(FirstState)
     \/ call.phase = "failed" /\ PreflightFails(call.error)
  /\ UNCHANGED <<storeVars, aborted, main, error, attempt, everFailed, others>>

Pause ==
  /\ op = "pause"
  /\ IF aborted THEN Throw /\ UNCHANGED attempt
     ELSE op' = "probe" /\ attempt' = attempt + 1 /\ UNCHANGED <<work, todo>>
  /\ UNCHANGED <<storeVars, bridgeVars, main, error, state, summary, everFailed, others>>

-----------------------------------------------------------------------------
(* One iteration of the policy loop *)

ModelStep ==
  /\ CallStep
  /\ UNCHANGED <<storeVars, auditVars, others>>

\* The answer is kept on disk before anyone looks at it.
Answer ==
  /\ op = "ask" /\ call.phase \in {"answered", "failed"}
  /\ IF call.phase = "failed" THEN AuditThrows
     ELSE op' = "persist" /\ call' = NoCall /\ UNCHANGED <<state, work, todo, summary>>
  /\ UNCHANGED <<storeVars, aborted, main, error, attempt, everFailed, others>>

\* Mutant: the signal is not looked at when askAgent has returned.
DecideRegardless ==
  /\ op = "persist"
  /\ \/ AuditThrows
     \/ \E d \in Decisions : ~Invalid(d) /\ NextAction(work, d)
  /\ UNCHANGED <<storeVars, aborted, main, error, attempt, everFailed, others>>

\* A reply that cannot be parsed ends the audit like an inconsistent one.
Decide ==
  /\ op = "persist"
  /\ \/ AuditThrows
     \/ ~aborted /\ \E d \in Decisions : ~Invalid(d) /\ NextAction(work, d)
  /\ UNCHANGED <<storeVars, aborted, main, error, attempt, everFailed, others>>

Search(found) ==
  /\ op = "search" /\ ~aborted
  /\ NextAction([work EXCEPT !.found = @ \/ found], todo)
  /\ UNCHANGED <<storeVars, aborted, main, error, attempt, everFailed, others>>

\* Any other error than a cancellation is a fact to go on with.
ToolFails ==
  /\ op \in {"search", "fetch"} /\ ~aborted
  /\ NextAction(WithFailure, todo)
  /\ everFailed' = TRUE
  /\ UNCHANGED <<storeVars, aborted, main, error, attempt, others>>

\* The signal, or the request's own timer: isCancellation takes a
\* RuntimeTimeoutError for one.
ToolGivesUp ==
  /\ op \in {"search", "fetch"}
  /\ AuditThrows
  /\ UNCHANGED <<storeVars, aborted, main, error, attempt, everFailed, others>>

Fetch(p, now) ==
  /\ op = "fetch" /\ ~aborted
  /\ ReadIndex(Audit, p, now)
  /\ op' = "save"
  /\ UNCHANGED <<bridgeVars, main, error, attempt, state, work, todo, summary, everFailed, others>>

\* A page counts once it is kept; a save that fails is a failed fetch.
Keep ==
  /\ op = "save" /\ saving[Audit].step \in {"saved", "failed"}
  /\ IF saving[Audit].step = "saved"
     THEN /\ NextAction([work EXCEPT !.fetched = @ \cup {saving[Audit].page}], todo)
          /\ UNCHANGED everFailed
     ELSE /\ IF aborted THEN AuditThrows ELSE NextAction(WithFailure, todo)
          /\ everFailed' = TRUE
  /\ saving' = [saving EXCEPT ![Audit] = Idle]
  /\ UNCHANGED <<files, index, finished, overlapped, aborted, main, error, attempt, others>>

AuditSaves ==
  /\ SaveStep(Audit)
  /\ UNCHANGED <<bridgeVars, auditVars, others>>

-----------------------------------------------------------------------------
(* The process *)

\* The tools' process answers the handshake, or fails, or is too slow.
Connect ==
  /\ main = "connect"
  /\ \/ main' = "running" /\ op' = "probe" /\ UNCHANGED error
     \/ main' = "exited" /\ error' = "connect" /\ UNCHANGED op
  /\ UNCHANGED <<storeVars, bridgeVars, attempt, state, work, todo, summary,
                 everFailed, others>>

\* The run's timer aborts the signal and rejects; the audit is still there.
RunTimesOut ==
  /\ RunTimer /\ main = "running" /\ op \notin Ended
  /\ main' = "closing" /\ error' = "timeout" /\ aborted' = TRUE
  /\ UNCHANGED <<storeVars, call, op, attempt, state, work, todo, summary,
                 everFailed, others>>

AuditEnds ==
  /\ main = "running" /\ op \in Ended
  /\ main' = "closing"
  /\ error' = IF op = "threw" THEN "failed" ELSE error
  /\ UNCHANGED <<storeVars, bridgeVars, op, attempt, state, work, todo, summary,
                 everFailed, others>>

\* The close is bounded too; its error is main's only if there is no other.
Close ==
  /\ main = "closing"
  /\ main' = "exited"
  /\ error' \in IF error = "none" THEN {"none", "cleanup"} ELSE {error}
  /\ UNCHANGED <<storeVars, bridgeVars, op, attempt, state, work, todo, summary,
                 everFailed, others>>

\* The process is killed: between two steps of a save as well.
Kill ==
  /\ main # "exited" \/ op \notin Ended \cup {"idle"}
  /\ main' = "exited"
  /\ error' = IF main = "exited" THEN error ELSE "killed"
  /\ AuditThrows
  /\ saving' = [saving EXCEPT ![Audit] = Idle]
  /\ UNCHANGED <<files, index, finished, overlapped, aborted, attempt, everFailed, others>>

-----------------------------------------------------------------------------
(* Other processes in the same directory: an earlier, a later or a
   simultaneous audit, of which only the saves matter here. *)

OtherBegins(s, p, now) ==
  /\ ~Running(s) /\ others < MaxOtherSaves
  /\ ReadIndex(s, p, now)
  /\ others' = others + 1
  /\ UNCHANGED <<bridgeVars, auditVars>>

OtherSaves(s) ==
  /\ SaveStep(s)
  /\ UNCHANGED <<bridgeVars, auditVars, others>>

OtherProcess ==
  \E s \in Savers \ {Audit} :
    OtherSaves(s) \/ \E p \in Pages, now \in Times : OtherBegins(s, p, now)

-----------------------------------------------------------------------------

Init ==
  /\ StoreInit
  /\ aborted = FALSE /\ call = NoCall
  /\ main = "connect" /\ error = "none" /\ op = "idle" /\ attempt = 0
  /\ state = FirstState /\ work = Nothing /\ todo = NoDecision
  /\ summary = None /\ everFailed = FALSE /\ others = 0

LoopStep ==
  \/ Answer \/ Decide \/ Keep \/ AuditSaves
  \/ ToolFails \/ ToolGivesUp
  \/ \E found \in BOOLEAN : Search(found)
  \/ \E p \in Pages, now \in Times : Fetch(p, now)

Next ==
  \/ Connect \/ RunTimesOut \/ AuditEnds \/ Close \/ Kill
  \/ Probe \/ Preflight \/ Pause
  \/ ModelStep \/ LoopStep
  \/ OtherProcess

Spec == Init /\ [][Next]_vars

BridgeAlone(A) == A /\ UNCHANGED <<storeVars, auditVars, others>>

\* Every wait is ended by a timer, by the signal or, for a body and for the
\* probe, by the platform's limit on a silent connection. Neither the model nor
\* a tool need ever answer, and the run's timer may be far away.
Fairness ==
  /\ WF_vars(Connect) /\ WF_vars(AuditEnds) /\ WF_vars(Close)
  /\ WF_vars(Probe) /\ WF_vars(Preflight) /\ WF_vars(Pause)
  /\ WF_vars(BridgeAlone(BridgeTimers)) /\ WF_vars(BridgeAlone(BodyEnds))
  /\ WF_vars(Answer) /\ WF_vars(Decide)
  /\ WF_vars(AuditSaves) /\ WF_vars(Keep) /\ WF_vars(ToolGivesUp)

FairSpec == Spec /\ Fairness
-----------------------------------------------------------------------------
(* What the audit promises *)

TypeOK ==
  /\ aborted \in BOOLEAN /\ call \in Call
  /\ main \in {"connect", "running", "closing", "exited"}
  /\ error \in Errors /\ op \in Ops /\ attempt \in 0..PreflightRetries
  /\ state \in [turn : 0..MaxIterations, found : BOOLEAN, fetched : SUBSET Pages,
                failed : Nat]
  /\ work \in [found : BOOLEAN, fetched : SUBSET Pages, failed : Nat]
  /\ todo = NoDecision \/ todo \in Decisions
  /\ everFailed \in BOOLEAN
  /\ others \in 0..MaxOtherSaves

\* An audit that is called complete ended on a terminal decision, has had no
\* failed tool call in any turn if that was to finalize, and rests on pages that
\* are all in the workspace (runPolicyTaskLoop, createPersistentFetchTool).
CompleteIsClean ==
  summary # None =>
    /\ \A p \in summary.fetched : DocOf[p] \in DOMAIN files
    /\ ~overlapped => \A p \in summary.fetched : DocOf[p] \in DOMAIN index
    /\ summary.status = "complete" =>
         /\ summary.kind \in Terminal
         /\ summary.kind = "finalize" => ~everFailed

\* The audit that main has given up may still write its summary, but never one
\* that says complete; one that failed has none; and main ends without an error
\* only when there is one (runLiveAudit, main).
LateSummaryIsHonest ==
  /\ error = "timeout" /\ summary # None => summary.status = "incomplete"
  /\ error \in {"failed", "connect"} => summary = None
  /\ main = "exited" /\ error \in {"none", "cleanup"} => summary # None

\* With the types: a summary that was written can be believed.
SummaryIsHonest == TypeOK /\ CompleteIsClean /\ LateSummaryIsHonest

\* Once the run's signal has aborted, no probe, no model request, no retry and
\* no tool call begins, however far the audit had come.
AbortStartsNothing ==
  [][aborted => /\ call'.phase = "request" => UNCHANGED call
                /\ op' \in {"search", "fetch"} => UNCHANGED <<op, todo>>
                /\ op' = "probe" => op = "probe"]_vars

\* Main exits and the audit behind it stops, even if the model and the tools
\* never answer and the run has no timer of its own.
EverythingEnds == <>(main = "exited" /\ op \in Ended \cup {"idle"})

-----------------------------------------------------------------------------
(* The inductive invariant behind SummaryIsHonest *)

BeforeLoop == {"idle", "probe", "preflight", "pause"}
InTurn == {"ask", "persist", "search", "fetch", "save"}

\* The page is in the workspace to stay.
Kept(p) == DocOf[p] \in DOMAIN files /\ (~overlapped => DocOf[p] \in DOMAIN index)

\* What the loop counts as fetched is kept, from the moment its save is over.
KeptInv ==
  /\ \A p \in work.fetched : Kept(p)
  /\ saving[Audit].step = "saved" => Kept(saving[Audit].page)

\* Every counter leaves room for the next step; a decision with actions is never
\* terminal, so an abort during its last action cannot complete the audit; and
\* a failed call is counted as long as the loop goes on.
LoopInv ==
  /\ call.phase = "sleep" => call.attempt < MaxAttempts
  /\ op = "pause" => attempt < PreflightRetries
  /\ op \notin Ended => state.turn < MaxIterations
  /\ op \in {"search", "fetch", "save"} => todo \in Decisions /\ todo.kind \notin Terminal
  /\ op \in BeforeLoop => ~everFailed
  /\ op \in InTurn /\ everFailed => work.failed > 0

\* How main and the audit end together.
EndInv ==
  /\ op \notin Ended => summary = None
  /\ op = "done" => summary # None
  /\ main = "running" /\ op = "threw" => summary = None
  /\ main = "connect" => op = "idle"
  /\ main \in {"connect", "running"} => error = "none"
  /\ main = "closing" /\ error \in {"none", "cleanup"} => op = "done"
  /\ error = "timeout" => aborted
  /\ error = "connect" => op = "idle"
  /\ error = "failed" => op = "threw"

HonestInv == SummaryIsHonest /\ KeptInv /\ LoopInv /\ EndInv

=============================================================================
