----------------------------- MODULE AgentLoop -----------------------------
(***************************************************************************)
(* One call of runResearchAgent (src/agent/agent-loop.ts) with the         *)
(* executor it drives (src/agent/action-executor.ts), the decision parser  *)
(* (src/agent/decision-protocol.ts) and the evidence matching of           *)
(* src/evidence/citations.ts.                                              *)
(*                                                                         *)
(* JavaScript runs to completion between awaits: a step goes from one      *)
(* await to the next, the loop head included. The awaits are the model     *)
(* call, each provider call, each evidence write and the settling of a     *)
(* batch; the signal may abort at any of them.                             *)
(*                                                                         *)
(* Left out: prompts, event payloads, uncertainties, the text of an        *)
(* answer, and search results (only a diagnostic counts them). "cancelled" *)
(* stands for both reasons an aborted signal yields. Callbacks are assumed *)
(* not to throw. The run has an evidence store, which the caller may omit; *)
(* any of its writes may fail.                                             *)
(***************************************************************************)
EXTENDS Naturals, FiniteSets

CONSTANTS
  Queries,     \* exact search queries
  Urls,        \* exact URLs: fetched, redirected to and cited
  Canonical,   \* canonicalEvidenceUrl: [Urls -> Urls]
  FindingIds,  \* ids a finish may give its findings
  Tasks        \* the tasks the loop is started with

Actions == Queries \cup Urls

Task ==
  [maxIterations : 1..100,
   completionMode : {"natural", "target_results", "rounds"},
   targetResultCount : 1..100,
   evidenceRequired : BOOLEAN,
   minFetchedPages : 0..100,       \* 0: the option is not set
   maxSearchActionsPerTurn : 1..8,
   maxFetchActionsPerTurn : 1..8]

ASSUME AgentLoopAssumption ==
  /\ IsFiniteSet(Queries) /\ IsFiniteSet(Urls) /\ IsFiniteSet(FindingIds)
  /\ Queries \cap Urls = {}
  /\ Canonical \in [Urls -> Urls]
  /\ Tasks \subseteq Task

VARIABLES
  task,
  pc,             \* the await the loop is at; "start" before the first loop head
  modelCall,      \* model calls made
  iteration,      \* state.currentIteration
  attempts,       \* how often state.decisions holds each exact action
  lastKind,       \* state.decisions.at(-1)?.decision
  pages,          \* state.fetchedPages
  findings,       \* findings of the returned decision
  protocolError,  \* protocolError is set
  recovery,       \* protocolRecoveryAttempts
  batch,          \* progress of each action of the decision being executed
  kind,           \* the decision being executed
  got,            \* the pages this batch has fetched
  aborted,        \* options.signal.aborted
  outcome,        \* what the promise resolved with
  requests,       \* history: provider requests made for each exact action
  stored,         \* pages whose evidenceStore.saveFetchedPage has succeeded
  reported,       \* history: pages whose write failed, each with evidence.write_error
  refusals        \* history: agent.protocol_error events since the last executed decision

loopVars == <<modelCall, iteration, protocolError, recovery, refusals>>
stateVars == <<attempts, lastKind, pages>>
batchVars == <<batch, kind, got>>
evidenceVars == <<stored, reported>>
vars == <<task, pc, loopVars, stateVars, findings, batchVars, aborted, outcome,
          requests, evidenceVars>>

-----------------------------------------------------------------------------
(* Data *)

Page == [requested : Urls, final : Urls, ok : BOOLEAN]  \* ok: success_with_content

Disposition == {"absent", "confirmed", "unconfirmed"}   \* uncertain, excluded: unconfirmed
Finding == [disposition : Disposition, urls : SUBSET Urls]
NoFinding == [disposition |-> "absent", urls |-> {}]
NoFindings == [i \in FindingIds |-> NoFinding]

Status == {"running", "completed", "interrupted", "failed"}
Reason == {"none", "max_iterations", "timeout", "cancelled", "protocol_error",
           "provider_error", "completion_not_reached"}

MaxRecovery == 2      \* maxProtocolRecoveryAttempts
MaxAttempts == 3      \* MAX_ATTEMPTS_PER_EXACT_ACTION
MaxModelCalls == (task.maxIterations + 1) * MaxRecovery

MinFetchedPages ==
  IF task.minFetchedPages # 0 THEN task.minFetchedPages
  ELSE IF task.evidenceRequired THEN task.targetResultCount ELSE 1

EmptyBatch == [a \in {} |-> "asked"]

Successful(p) == p.ok

\* matchedFetchedEvidenceUrls: the canonical cited URLs that were fetched,
\* under the URL requested or the URL the fetch ended at
Matched(cited) ==
  {Canonical[u] : u \in cited} \cap
    UNION {{Canonical[p.requested], Canonical[p.final]} :
             p \in {q \in pages : Successful(q)}}

Confirmed(fs) == {i \in FindingIds : fs[i].disposition = "confirmed"}

\* decision.evidenceUrls: the parser derives it from the findings, whatever
\* their disposition
EvidenceUrls(fs) == UNION {fs[i].urls : i \in FindingIds}

\* Mutant: every confirmed finding counts, bound to evidence or not.
ConfirmedByModel(fs) == Confirmed(fs)

Validated(fs) ==
  {i \in Confirmed(fs) : task.evidenceRequired => Matched(fs[i].urls) # {}}

\* Mutant: citations count whether the page was fetched or not.
EvidenceCited(fs) == Cardinality(EvidenceUrls(fs)) >= MinFetchedPages

EvidenceReached(fs) == Cardinality(Matched(EvidenceUrls(fs))) >= MinFetchedPages

CompletionReached(fs) ==
  /\ task.evidenceRequired => EvidenceReached(fs)
  /\ task.completionMode = "rounds" => iteration >= task.maxIterations
  /\ task.completionMode = "target_results" =>
       Cardinality(Validated(fs)) >= task.targetResultCount

-----------------------------------------------------------------------------
(* The loop *)

Init ==
  /\ task \in Tasks
  /\ pc = "start"
  /\ modelCall = 0 /\ iteration = 0
  /\ attempts = [a \in Actions |-> 0] /\ lastKind = "none" /\ pages = {}
  /\ findings = NoFindings
  /\ protocolError = FALSE /\ recovery = 0 /\ refusals = 0
  /\ batch = EmptyBatch /\ kind = "none" /\ got = {}
  /\ aborted \in BOOLEAN
  /\ outcome = [status |-> "running", reason |-> "none"]
  /\ requests = [a \in Actions |-> 0] /\ stored = {} /\ reported = {}

Abort ==
  /\ pc # "done"
  /\ aborted' = TRUE
  /\ UNCHANGED <<task, pc, loopVars, stateVars, findings, batchVars, outcome,
                 requests, evidenceVars>>

Return(status, reason) ==
  /\ pc' = "done"
  /\ outcome' = [status |-> status, reason |-> reason]

\* The loop head, then the model call; or what follows the loop. it and
\* error are state.currentIteration and protocolError by then.
EnterTurn(it, error) ==
  IF \/ modelCall >= MaxModelCalls
     \/ it >= task.maxIterations /\ task.completionMode = "natural" /\ ~task.evidenceRequired
  THEN /\ IF error THEN Return("failed", "protocol_error")
                   ELSE Return("interrupted", "max_iterations")
       /\ UNCHANGED modelCall
  ELSE IF aborted
  THEN Return("interrupted", "cancelled") /\ UNCHANGED modelCall
  ELSE pc' = "model" /\ modelCall' = modelCall + 1 /\ UNCHANGED outcome

Start ==
  /\ pc = "start"
  /\ EnterTurn(iteration, protocolError)
  /\ UNCHANGED <<task, iteration, protocolError, recovery, refusals, stateVars,
                 findings, batchVars, aborted, requests, evidenceVars>>

\* llm.complete rejects
ModelFails(timeout) ==
  /\ pc = "model"
  /\ IF aborted THEN Return("interrupted", "cancelled")
     ELSE IF timeout THEN Return("interrupted", "timeout")
     ELSE Return("failed", "provider_error")
  /\ UNCHANGED <<task, loopVars, stateVars, findings, batchVars, aborted,
                 requests, evidenceVars>>

\* Mutant: a response is used whether the signal has aborted or not.
UseAnyResponse == TRUE

UseResponse == ~aborted

DiscardLateResponse ==
  /\ pc = "model"
  /\ ~UseResponse
  /\ Return("interrupted", "cancelled")
  /\ UNCHANGED <<task, loopVars, stateVars, findings, batchVars, aborted,
                 requests, evidenceVars>>

\* counted as far as the property needs
OneMoreRefusal == IF refusals <= MaxRecovery THEN refusals + 1 ELSE refusals

RecoveryExhausted == recovery + 1 >= MaxRecovery

\* The response is not a decision, or one validateRetryIntent, the repeated
\* review rule or the action budget turns down.
RefuseResponse ==
  /\ pc = "model"
  /\ UseResponse
  /\ protocolError' = TRUE
  /\ recovery' = recovery + 1
  /\ refusals' = OneMoreRefusal
  /\ IF RecoveryExhausted
     THEN Return("failed", "protocol_error") /\ UNCHANGED modelCall
     ELSE EnterTurn(iteration, TRUE)
  /\ UNCHANGED <<task, iteration, stateVars, findings, batchVars, aborted,
                 requests, evidenceVars>>

\* A finish, complete or not, ends the run.
Finish(fs) ==
  /\ pc = "model"
  /\ UseResponse
  /\ protocolError' = FALSE
  /\ recovery' = 0
  /\ findings' = fs
  /\ IF CompletionReached(fs) THEN Return("completed", "none")
     ELSE IF iteration >= task.maxIterations THEN Return("interrupted", "max_iterations")
     ELSE Return("interrupted", "completion_not_reached")
  /\ UNCHANGED <<task, modelCall, iteration, refusals, stateVars, batchVars, aborted,
                 requests, evidenceVars>>

\* Mutant: the limit on an exact action is checked after it is exceeded.
OneAttemptTooMany(a) == attempts[a] <= MaxAttempts

AttemptsLeft(a) == attempts[a] < MaxAttempts

\* What parseAgentDecision, validateRetryIntent, the repeated review rule and
\* the action budget let through: retry holds the actions marked as a retry.
Acceptable(k, acts, retry) ==
  /\ k = "search" => acts \subseteq Queries /\ Cardinality(acts) \in 1..task.maxSearchActionsPerTurn
  /\ k = "fetch" => acts \subseteq Urls /\ Cardinality(acts) \in 1..task.maxFetchActionsPerTurn
  /\ k = "review" => acts = {} /\ ~(task.completionMode = "target_results" /\ lastKind = "review")
  /\ \A a \in acts : AttemptsLeft(a) /\ (a \in retry <=> attempts[a] > 0)

\* The decision comes when no round is left. recovery was reset just before,
\* so the check against MaxRecovery that follows never holds.
PastRoundLimit(k, acts, retry) ==
  /\ pc = "model"
  /\ UseResponse
  /\ Acceptable(k, acts, retry)
  /\ iteration >= task.maxIterations
  /\ protocolError' = TRUE
  /\ recovery' = 1
  /\ refusals' = OneMoreRefusal
  /\ EnterTurn(iteration, TRUE)
  /\ UNCHANGED <<task, iteration, stateVars, findings, batchVars, aborted,
                 requests, evidenceVars>>

-----------------------------------------------------------------------------
(* executeAgentActions() *)

\* A search asks its provider at once, a fetch after the (empty) searches have
\* settled. A review only uses up a round.
Execute(k, acts, retry) ==
  /\ pc = "model"
  /\ UseResponse
  /\ Acceptable(k, acts, retry)
  /\ iteration < task.maxIterations
  /\ protocolError' = FALSE
  /\ recovery' = 0
  /\ refusals' = 0
  /\ IF k = "review"
     THEN /\ iteration' = iteration + 1
          /\ lastKind' = "review"
          /\ EnterTurn(iteration + 1, FALSE)
          /\ UNCHANGED <<batchVars, requests>>
     ELSE /\ pc' = "batch"
          /\ kind' = k
          /\ batch' = [a \in acts |-> IF k = "search" THEN "asked" ELSE "waiting"]
          /\ requests' = [a \in Actions |->
               IF k = "search" /\ a \in acts THEN requests[a] + 1 ELSE requests[a]]
          /\ UNCHANGED <<modelCall, iteration, lastKind, got, outcome>>
  /\ UNCHANGED <<task, attempts, pages, findings, aborted, evidenceVars>>

\* throwIfAborted, then fetch.request, for every fetch of the batch at once
AskFetches ==
  /\ pc = "batch"
  /\ \E a \in DOMAIN batch : batch[a] = "waiting"
  /\ IF aborted
     THEN /\ batch' = [a \in DOMAIN batch |-> "rejected"]
          /\ UNCHANGED requests
     ELSE /\ batch' = [a \in DOMAIN batch |-> "asked"]
          /\ requests' = [a \in Actions |->
               IF a \in DOMAIN batch THEN requests[a] + 1 ELSE requests[a]]
  /\ UNCHANGED <<task, pc, loopVars, stateVars, findings, kind, got, aborted,
                 outcome, evidenceVars>>

CancelledAfterRequest == aborted

\* The provider answers or throws (a failed answer then stands for it); unless
\* the signal has aborted, the answer is handed to the evidence store.
Answer(a, final, ok) ==
  /\ pc = "batch"
  /\ a \in DOMAIN batch /\ batch[a] = "asked"
  /\ IF CancelledAfterRequest
     THEN batch' = [batch EXCEPT ![a] = "rejected"] /\ UNCHANGED got
     ELSE /\ batch' = [batch EXCEPT ![a] = "saving"]
          /\ got' = IF kind = "fetch"
                    THEN got \cup {[requested |-> a, final |-> final, ok |-> ok]}
                    ELSE got
  /\ UNCHANGED <<task, pc, loopVars, stateVars, findings, kind, aborted, outcome,
                 requests, evidenceVars>>

PagesOf(a) == {p \in got : p.requested = a}

\* persistEvidence: a failure of the write is reported and goes no further.
PersistEvidence(written) ==
  \/ stored' = stored \cup written /\ UNCHANGED reported
  \/ reported' = reported \cup written /\ UNCHANGED stored

\* The write is over, whatever came of it.
Saved(a) ==
  /\ pc = "batch"
  /\ a \in DOMAIN batch /\ batch[a] = "saving"
  /\ PersistEvidence(PagesOf(a))
  /\ batch' = [batch EXCEPT ![a] = "settled"]
  /\ UNCHANGED <<task, pc, loopVars, stateVars, findings, kind, got, aborted,
                 outcome, requests>>

WithDecision ==
  [a \in Actions |-> IF a \in DOMAIN batch THEN attempts[a] + 1 ELSE attempts[a]]

\* Mutant: a batch waits for the values of all its actions.
AllAnswered == \A a \in DOMAIN batch : batch[a] = "settled"

\* Mutant: a batch does not wait for its writes.
AllHandedOver == \A a \in DOMAIN batch : batch[a] \in {"saving", "settled", "rejected"}

AllSettled == \A a \in DOMAIN batch : batch[a] \in {"settled", "rejected"}

\* settleActionBatch resolves once every action has settled. One rejection,
\* possible only after an abort, drops the whole batch from the state.
BatchSettles ==
  /\ pc = "batch"
  /\ AllSettled
  /\ IF \E a \in DOMAIN batch : batch[a] = "rejected"
     THEN /\ Return("interrupted", "cancelled")
          /\ UNCHANGED <<modelCall, iteration, stateVars>>
     ELSE /\ iteration' = iteration + 1
          /\ attempts' = WithDecision
          /\ lastKind' = kind
          /\ pages' = pages \cup got
          /\ EnterTurn(iteration + 1, FALSE)
  /\ batch' = EmptyBatch /\ kind' = "none" /\ got' = {}
  /\ UNCHANGED <<task, protocolError, recovery, refusals, findings, aborted,
                 requests, evidenceVars>>

-----------------------------------------------------------------------------
Kinds == {"search", "fetch", "review"}
Submitted == {NoFinding} \cup [disposition : Disposition \ {"absent"}, urls : SUBSET Urls]

Decides ==
  \/ DiscardLateResponse
  \/ RefuseResponse
  \/ \E fs \in [FindingIds -> Submitted] : Finish(fs)
  \/ \E k \in Kinds, acts \in SUBSET Actions : \E retry \in SUBSET acts :
       PastRoundLimit(k, acts, retry) \/ Execute(k, acts, retry)

ModelResponds == Decides \/ \E timeout \in BOOLEAN : ModelFails(timeout)

Answered(a) == \E final \in Urls \cup {a}, ok \in BOOLEAN : Answer(a, final, ok)

Next ==
  \/ Abort
  \/ Start
  \/ ModelResponds
  \/ AskFetches
  \/ \E a \in Actions : Answered(a) \/ Saved(a)
  \/ BatchSettles

Spec == Init /\ [][Next]_vars

\* The model and the providers answer in the end: each has a timeout of its own.
FairSpec ==
  /\ Spec
  /\ WF_vars(Start) /\ WF_vars(ModelResponds) /\ WF_vars(AskFetches)
  /\ WF_vars(BatchSettles)
  /\ \A a \in Actions : WF_vars(Answered(a)) /\ WF_vars(Saved(a))

-----------------------------------------------------------------------------
(* Properties *)

Progress == {"waiting", "asked", "saving", "settled", "rejected"}

\* The variables have the types the source gives them; a batch has one
\* progress per action of its decision.
TypeOK ==
  /\ task \in Task
  /\ pc \in {"start", "model", "batch", "done"}
  /\ modelCall \in Nat /\ iteration \in Nat /\ refusals \in Nat
  /\ recovery \in 0..MaxRecovery
  /\ protocolError \in BOOLEAN /\ aborted \in BOOLEAN
  /\ attempts \in [Actions -> Nat] /\ requests \in [Actions -> Nat]
  /\ lastKind \in Kinds \cup {"none"} /\ kind \in {"search", "fetch", "none"}
  /\ pages \cup got \cup stored \cup reported \subseteq Page
  /\ findings \in [FindingIds -> Finding]
  /\ DOMAIN batch \subseteq Actions
  /\ \A a \in DOMAIN batch : batch[a] \in Progress
  /\ outcome \in [status : Status, reason : Reason]

\* What the agent builds on is kept or known to be lost: a page of the state, the
\* only thing a finish can cite, is in the store unless the failure of its write
\* was reported, although writes outlast the answers, fail one by one and are
\* swallowed where they fail (action-executor.ts:50-57, 130-150).
EvidenceIsKept == pages \subseteq stored \cup reported

\* With that: a run that had to give evidence and completed has it: one page
\* fetched with content, in this run, for some URL of each of the findings that
\* count (agent-loop.ts:424-440 over the state many batches built up).
CompletedIsEvidenced ==
  /\ EvidenceIsKept
  /\ (outcome.status = "completed" /\ task.evidenceRequired
        /\ task.completionMode = "target_results") =>
       \E fs \in SUBSET Confirmed(findings) :
         /\ Cardinality(fs) >= task.targetResultCount
         /\ \A i \in fs : \E u \in findings[i].urls, p \in pages :
              /\ p.ok
              /\ requests[p.requested] > 0
              /\ Canonical[u] \in {Canonical[p.requested], Canonical[p.final]}

\* answerStatus of buildGenericReport, which counts findings and evidence by
\* rules of its own, for a run settled with this status
Blocked ==
  \/ /\ task.evidenceRequired
     /\ Cardinality(Matched(EvidenceUrls(findings))) <
          (IF task.minFetchedPages # 0 THEN task.minFetchedPages ELSE task.targetResultCount)
  \/ /\ task.completionMode = "target_results"
     /\ Cardinality(Confirmed(findings)) < task.targetResultCount

AnswerStatus ==
  IF Blocked THEN "blocked_by_evidence"
  ELSE IF outcome.status = "completed" THEN "completed"
  ELSE IF outcome.status = "failed" THEN "failed" ELSE "interrupted"

\* With the types: the loop and the report agree on completion: the report of a run that
\* completed never says that its answer is blocked by missing evidence
\* (agent-loop.ts:424-436 against generic-report.ts:63-70).
CompletedIsAnswered ==
  TypeOK /\ (outcome.status = "completed" => AnswerStatus = "completed")

\* No exact query or URL is requested more than three times in a run, over
\* all its rounds (MAX_ATTEMPTS_PER_EXACT_ACTION, README.md:258).
ExactActionLimit == \A a \in Actions : requests[a] <= MaxAttempts

\* The budget of model calls never cuts research short: a run that stops for
\* its iterations has used them all, and one that fails for the protocol has
\* either been refused twice in a row or used them all
\* (agent-loop.ts:269, 408, 494-498).
BudgetOutlastsRounds ==
  /\ outcome.reason = "max_iterations" => iteration >= task.maxIterations
  /\ outcome.reason = "protocol_error" =>
       recovery = MaxRecovery \/ iteration >= task.maxIterations

\* Both limits, over the same rounds.
LimitsHold == ExactActionLimit /\ BudgetOutlastsRounds

\* The loop implements its contract: one outcome, and "interrupted" if the
\* signal had aborted by then (agent-loop.ts:273, 306, 329, 489).
Contract == INSTANCE AgentContract WITH status <- outcome.status
ContractSpec == Contract!Spec

\* Every run returns, whatever the model, the providers and the caller do.
EveryRunReturns == <>(pc = "done")

=============================================================================
