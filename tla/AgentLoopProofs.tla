-------------------------- MODULE AgentLoopProofs --------------------------
(***************************************************************************)
(* Machine-checked safety of AgentLoop, for any set of queries, URLs,      *)
(* finding ids and tasks: types, the contract with the caller, the limits  *)
(* on actions and model calls, and the evidence behind a completed run.    *)
(***************************************************************************)
EXTENDS AgentLoop, FiniteSetTheorems, TLAPS

-----------------------------------------------------------------------------
(* The inductive invariant *)

\* Where the loop is and what its variables hold there.
StageInv ==
  /\ pc # "done" <=> outcome.status = "running"
  /\ pc # "done" => outcome.reason = "none"
  /\ pc # "batch" => DOMAIN batch = {}
  /\ pc = "start" => ~protocolError
  /\ kind = "fetch" => DOMAIN batch \subseteq Urls

\* Each round costs at most two model calls, and one more after a refusal.
BudgetInv ==
  /\ pc = "start" => modelCall = 0 /\ iteration = 0 /\ recovery = 0
  /\ pc = "model" => recovery <= 1
  /\ pc = "model" /\ iteration < task.maxIterations =>
       modelCall <= 2 * iteration + recovery + 1
  /\ pc = "batch" => /\ recovery = 0
                     /\ iteration < task.maxIterations
                     /\ modelCall <= 2 * iteration + 2
  /\ BudgetOutlastsRounds

\* A request is made at most once for each time its action is decided on.
RequestInv ==
  /\ \A x \in Actions : requests[x] <= MaxAttempts /\ attempts[x] <= MaxAttempts
  /\ pc # "done" =>
       \A x \in Actions :
         /\ x \notin DOMAIN batch => requests[x] <= attempts[x]
         /\ x \in DOMAIN batch => /\ requests[x] <= attempts[x] + 1
                                  /\ attempts[x] < MaxAttempts
                                  /\ batch[x] = "waiting" => requests[x] <= attempts[x]
                                  /\ batch[x] \in {"asked", "saving"} => requests[x] > 0
  /\ \A x, y \in DOMAIN batch : batch[x] = "waiting" => batch[y] = "waiting"

\* A page was asked for, and once its write is over it is in the store or its loss
\* was reported. A page the state has yet to take in may still be written.
EvidenceInv ==
  /\ EvidenceIsKept
  /\ \A p \in got \ (stored \cup reported) :
       p.requested \in DOMAIN batch /\ batch[p.requested] = "saving"
  /\ \A p \in pages \cup got : requests[p.requested] > 0
  /\ outcome.status = "completed" => CompletionReached(findings)

IInv == TypeOK /\ StageInv /\ BudgetInv /\ RequestInv /\ EvidenceInv

-----------------------------------------------------------------------------
(* The loop head *)

LEMMA TaskBounds ==
  ASSUME TypeOK
  PROVE  /\ task.maxIterations \in Nat /\ task.maxIterations >= 1
         /\ modelCall \in Nat /\ iteration \in Nat /\ recovery \in 0..2
         /\ MaxModelCalls = 2 * task.maxIterations + 2
  BY DEF TypeOK, Task, MaxModelCalls, MaxRecovery

\* What entering a turn can lead to.
LEMMA EnterTurnCases ==
  ASSUME TypeOK, NEW it \in Nat, NEW error \in BOOLEAN, EnterTurn(it, error)
  PROVE  \/ /\ pc' = "done" /\ modelCall' = modelCall
            /\ modelCall >= MaxModelCalls \/ it >= task.maxIterations
            /\ outcome' = IF error THEN [status |-> "failed", reason |-> "protocol_error"]
                          ELSE [status |-> "interrupted", reason |-> "max_iterations"]
         \/ /\ pc' = "done" /\ modelCall' = modelCall /\ aborted
            /\ outcome' = [status |-> "interrupted", reason |-> "cancelled"]
         \/ /\ pc' = "model" /\ modelCall' = modelCall + 1 /\ outcome' = outcome
  BY DEF EnterTurn, Return

\* A turn entered with calls in hand keeps the stage and the types, and
\* returns for the rounds only when none is left.
LEMMA EnterTurnInv ==
  ASSUME IInv, pc # "done", NEW it \in Nat, NEW error \in BOOLEAN, EnterTurn(it, error),
         it < task.maxIterations => modelCall <= 2 * it + 1
  PROVE  /\ pc' \in {"model", "done"} /\ modelCall' \in Nat
         /\ outcome' \in [status : Status, reason : Reason]
         /\ pc' # "done" <=> outcome'.status = "running"
         /\ pc' # "done" => outcome'.reason = "none"
         /\ pc' = "model" /\ it < task.maxIterations => modelCall' <= 2 * it + 2
         /\ outcome'.reason \in {"max_iterations", "protocol_error"} => it >= task.maxIterations
         /\ outcome'.status # "completed"
<1>1. modelCall >= MaxModelCalls => it >= task.maxIterations
  BY TaskBounds DEF IInv
<1>2. outcome \in [status : Status, reason : Reason] /\ outcome.status = "running"
        /\ outcome.reason = "none" /\ modelCall \in Nat
  BY DEF IInv, StageInv, TypeOK
<1>3. \/ /\ pc' = "done" /\ modelCall' = modelCall /\ it >= task.maxIterations
         /\ outcome' = IF error THEN [status |-> "failed", reason |-> "protocol_error"]
                       ELSE [status |-> "interrupted", reason |-> "max_iterations"]
      \/ /\ pc' = "done" /\ modelCall' = modelCall
         /\ outcome' = [status |-> "interrupted", reason |-> "cancelled"]
      \/ /\ pc' = "model" /\ modelCall' = modelCall + 1 /\ outcome' = outcome
  BY <1>1, EnterTurnCases DEF IInv
<1>4. pc' = "model" /\ it < task.maxIterations => modelCall' <= 2 * it + 2
  BY <1>2, <1>3, TaskBounds DEF IInv
<1>5. QED BY <1>2, <1>3, <1>4 DEF Status, Reason

-----------------------------------------------------------------------------
(* Steps that touch neither batch nor evidence *)

LEMMA InitInv ==
  ASSUME Init
  PROVE  IInv
<1>1. TypeOK
  <2>1. NoFindings \in [FindingIds -> Finding]
    BY DEF NoFindings, NoFinding, Finding, Disposition
  <2>2. task \in Task
    BY AgentLoopAssumption DEF Init
  <2>3. /\ DOMAIN batch = {}
        /\ outcome \in [status : Status, reason : Reason]
    BY DEF Init, EmptyBatch, Status, Reason
  <2>4. /\ attempts \in [Actions -> Nat] /\ requests \in [Actions -> Nat]
        /\ pages \cup got \cup stored \cup reported \subseteq Page
    BY DEF Init
  <2>5. /\ pc = "start" /\ modelCall = 0 /\ iteration = 0 /\ lastKind = "none"
        /\ protocolError \in BOOLEAN /\ recovery = 0 /\ refusals = 0
        /\ kind = "none" /\ aborted \in BOOLEAN
    BY DEF Init
  <2>6. findings \in [FindingIds -> Finding]
    BY <2>1 DEF Init
  <2>7. QED
    BY <2>2, <2>3, <2>4, <2>5, <2>6 DEF TypeOK, MaxRecovery, Kinds
<1>2. StageInv /\ RequestInv
  BY DEF Init, StageInv, RequestInv, EmptyBatch, MaxAttempts
<1>3. BudgetInv /\ EvidenceInv
  BY DEF Init, BudgetInv, EvidenceInv, EvidenceIsKept, BudgetOutlastsRounds
<1>4. QED BY <1>1, <1>2, <1>3 DEF IInv

\* No action of the loop moves these: requests, the batch and its pages.
LEMMA BatchUntouched ==
  ASSUME IInv, pc # "done", pc' # "batch", pc # "batch",
         UNCHANGED <<task, attempts, pages, batchVars, requests, evidenceVars>>
  PROVE  /\ RequestInv' /\ EvidenceIsKept'
         /\ \A p \in got' \ (stored' \cup reported') :
              p.requested \in DOMAIN batch' /\ batch'[p.requested] = "saving"
         /\ \A p \in pages' \cup got' : requests'[p.requested] > 0
  BY DEF IInv, RequestInv, EvidenceInv, EvidenceIsKept, batchVars, evidenceVars, StageInv

LEMMA AbortInv ==
  ASSUME IInv, Abort
  PROVE  IInv'
<1>1. TypeOK' /\ StageInv'
  BY DEF IInv, Abort, TypeOK, StageInv, loopVars, stateVars, batchVars, evidenceVars
<1>2. BudgetInv' /\ RequestInv'
  BY DEF IInv, Abort, BudgetInv, BudgetOutlastsRounds, RequestInv, loopVars, stateVars, batchVars
<1>3. EvidenceInv'
  BY DEF IInv, Abort, EvidenceInv, EvidenceIsKept, StageInv, stateVars, batchVars, evidenceVars
<1>4. QED BY <1>1, <1>2, <1>3 DEF IInv

LEMMA StartInv ==
  ASSUME IInv, Start
  PROVE  IInv'
<1>1. /\ pc = "start" /\ EnterTurn(iteration, protocolError) /\ ~protocolError
      /\ modelCall = 0 /\ iteration = 0 /\ recovery = 0
      /\ UNCHANGED <<task, iteration, protocolError, recovery, refusals, attempts, lastKind,
                     pages, findings, batch, kind, got, aborted, requests,
                     stored, reported>>
  BY DEF Start, IInv, StageInv, BudgetInv, stateVars, batchVars, evidenceVars
<1>2. /\ pc' \in {"model", "done"} /\ modelCall' \in Nat
      /\ outcome' \in [status : Status, reason : Reason]
      /\ pc' # "done" <=> outcome'.status = "running"
      /\ pc' # "done" => outcome'.reason = "none"
      /\ pc' = "model" /\ iteration < task.maxIterations => modelCall' <= 2 * iteration + 2
      /\ outcome'.reason \in {"max_iterations", "protocol_error"} =>
           iteration >= task.maxIterations
      /\ outcome'.status # "completed"
  BY <1>1, EnterTurnInv, TaskBounds DEF IInv, TypeOK
<1>3. pc' = "model" => modelCall' = 1
  BY <1>1, EnterTurnCases DEF IInv, TypeOK
<1>4. TypeOK' /\ StageInv'
  BY <1>1, <1>2 DEF IInv, TypeOK, StageInv
<1>5. BudgetInv'
  BY <1>1, <1>2, <1>3, TaskBounds DEF IInv, BudgetInv, BudgetOutlastsRounds
<1>6. RequestInv' /\ EvidenceInv'
  BY <1>1, <1>2, BatchUntouched DEF EvidenceInv, batchVars, evidenceVars
<1>7. QED BY <1>4, <1>5, <1>6 DEF IInv

\* The model call ends in a return other than a finish.
LEMMA ReturnInv ==
  ASSUME IInv, pc = "model", NEW status \in Status \ {"running", "completed"},
         NEW reason \in Reason \ {"none", "max_iterations", "protocol_error"},
         Return(status, reason),
         UNCHANGED <<task, loopVars, stateVars, findings, batchVars, aborted, requests,
                     evidenceVars>>
  PROVE  IInv'
<1>1. /\ pc' = "done" /\ outcome' = [status |-> status, reason |-> reason]
      /\ UNCHANGED <<task, modelCall, iteration, protocolError, recovery, refusals, attempts,
                     lastKind, pages, findings, batch, kind, got, aborted, requests,
                     stored, reported>>
  BY DEF Return, loopVars, stateVars, batchVars, evidenceVars
<1>2. TypeOK' /\ StageInv'
  BY <1>1 DEF IInv, TypeOK, StageInv
<1>3. BudgetInv'
  BY <1>1 DEF BudgetInv, BudgetOutlastsRounds
<1>4. RequestInv' /\ EvidenceInv'
  BY <1>1, BatchUntouched DEF EvidenceInv, batchVars, evidenceVars
<1>5. QED BY <1>2, <1>3, <1>4 DEF IInv

LEMMA ModelFailsInv ==
  ASSUME IInv, NEW timeout \in BOOLEAN, ModelFails(timeout)
  PROVE  IInv'
<1>1. \/ Return("interrupted", "cancelled")
      \/ Return("interrupted", "timeout")
      \/ Return("failed", "provider_error")
  BY DEF ModelFails
<1>2. QED BY <1>1, ReturnInv DEF ModelFails, Status, Reason

LEMMA DiscardInv ==
  ASSUME IInv, DiscardLateResponse
  PROVE  IInv'
  BY ReturnInv DEF DiscardLateResponse, Status, Reason

LEMMA RefuseInv ==
  ASSUME IInv, RefuseResponse
  PROVE  IInv'
<1>1. /\ pc = "model" /\ protocolError' = TRUE /\ recovery' = recovery + 1
      /\ refusals' \in Nat
      /\ UNCHANGED <<task, iteration, attempts, lastKind, pages, findings, batch, kind, got,
                     aborted, requests, stored, reported>>
  BY DEF RefuseResponse, OneMoreRefusal, stateVars, batchVars, evidenceVars, IInv, TypeOK
<1>2. CASE RecoveryExhausted
  <2>1. /\ pc' = "done" /\ modelCall' = modelCall
        /\ outcome' = [status |-> "failed", reason |-> "protocol_error"]
    BY <1>2 DEF RefuseResponse, Return
  <2>2. recovery' = 2
    BY <1>1, <1>2, TaskBounds DEF RecoveryExhausted, MaxRecovery, IInv, BudgetInv
  <2>3. TypeOK' /\ StageInv' /\ BudgetInv'
    BY <1>1, <2>1, <2>2
    DEF IInv, TypeOK, StageInv, BudgetInv, BudgetOutlastsRounds, MaxRecovery, Status, Reason
  <2>4. RequestInv' /\ EvidenceInv'
    BY <1>1, <2>1, BatchUntouched DEF EvidenceInv, batchVars, evidenceVars
  <2>5. QED BY <2>3, <2>4 DEF IInv
<1>3. CASE ~RecoveryExhausted
  <2>1. EnterTurn(iteration, TRUE)
    BY <1>3 DEF RefuseResponse
  <2>2. recovery = 0 /\ recovery' = 1
    BY <1>1, <1>3, TaskBounds DEF RecoveryExhausted, MaxRecovery, IInv
  <2>3. iteration < task.maxIterations => modelCall <= 2 * iteration + 1
    BY <1>1, <2>2, TaskBounds DEF IInv, BudgetInv
  <2>4. /\ pc' \in {"model", "done"} /\ modelCall' \in Nat
        /\ outcome' \in [status : Status, reason : Reason]
        /\ pc' # "done" <=> outcome'.status = "running"
        /\ pc' # "done" => outcome'.reason = "none"
        /\ pc' = "model" /\ iteration < task.maxIterations => modelCall' <= 2 * iteration + 2
        /\ outcome'.reason \in {"max_iterations", "protocol_error"} =>
             iteration >= task.maxIterations
        /\ outcome'.status # "completed"
    BY <1>1, <2>1, <2>3, EnterTurnInv, TaskBounds DEF IInv
  <2>5. TypeOK' /\ StageInv'
    BY <1>1, <2>2, <2>4 DEF IInv, TypeOK, StageInv, MaxRecovery
  <2>6. BudgetInv'
    BY <1>1, <2>2, <2>4, TaskBounds DEF IInv, BudgetInv, BudgetOutlastsRounds
  <2>7. RequestInv' /\ EvidenceInv'
    BY <1>1, <2>4, BatchUntouched DEF EvidenceInv, batchVars, evidenceVars
  <2>8. QED BY <2>5, <2>6, <2>7 DEF IInv
<1>4. QED BY <1>2, <1>3

LEMMA PastRoundLimitInv ==
  ASSUME IInv, NEW k, NEW acts, NEW retry, PastRoundLimit(k, acts, retry)
  PROVE  IInv'
<1>1. /\ pc = "model" /\ protocolError' = TRUE /\ recovery' = 1
      /\ refusals' = OneMoreRefusal
      /\ iteration >= task.maxIterations /\ EnterTurn(iteration, TRUE)
      /\ UNCHANGED <<task, iteration, attempts, lastKind, pages, findings, batch, kind, got,
                     aborted, requests, stored, reported>>
  BY DEF PastRoundLimit, stateVars, batchVars, evidenceVars
<1>2. OneMoreRefusal \in Nat
  BY DEF OneMoreRefusal, IInv, TypeOK
<1>3. /\ pc = "model" /\ protocolError' = TRUE /\ recovery' = 1 /\ refusals' \in Nat
      /\ iteration >= task.maxIterations /\ EnterTurn(iteration, TRUE)
      /\ UNCHANGED <<task, iteration, attempts, lastKind, pages, findings, batch, kind, got,
                     aborted, requests, stored, reported>>
  BY <1>1, <1>2
<1>4. iteration < task.maxIterations => modelCall <= 2 * iteration + 1
  BY <1>1, TaskBounds DEF IInv
<1>5. /\ pc' \in {"model", "done"} /\ modelCall' \in Nat
      /\ outcome' \in [status : Status, reason : Reason]
      /\ pc' # "done" <=> outcome'.status = "running"
      /\ pc' # "done" => outcome'.reason = "none"
      /\ outcome'.status # "completed"
  BY <1>3, <1>4, EnterTurnInv, TaskBounds DEF IInv
<1>6. TypeOK' /\ StageInv' /\ BudgetInv'
  BY <1>3, <1>5, TaskBounds
  DEF IInv, TypeOK, StageInv, BudgetInv, BudgetOutlastsRounds, MaxRecovery
<1>7. RequestInv' /\ EvidenceInv'
  BY <1>3, <1>5, BatchUntouched DEF EvidenceInv, batchVars, evidenceVars
<1>8. QED BY <1>6, <1>7 DEF IInv

LEMMA FinishInv ==
  ASSUME IInv, NEW fs \in [FindingIds -> Submitted], Finish(fs)
  PROVE  IInv'
<1>1. /\ pc = "model" /\ pc' = "done" /\ protocolError' \in BOOLEAN /\ recovery' = 0
      /\ findings' = fs
      /\ UNCHANGED <<task, modelCall, iteration, refusals, attempts, lastKind, pages, batch,
                     kind, got, aborted, requests, stored, reported>>
      /\ \/ /\ CompletionReached(fs)
            /\ outcome' = [status |-> "completed", reason |-> "none"]
         \/ /\ outcome' = [status |-> "interrupted", reason |-> "max_iterations"]
            /\ iteration >= task.maxIterations
         \/ outcome' = [status |-> "interrupted", reason |-> "completion_not_reached"]
  BY DEF Finish, Return, stateVars, batchVars, evidenceVars
<1>2. fs \in [FindingIds -> Finding]
  BY DEF Submitted, NoFinding, Finding, Disposition
<1>3. findings' \in [FindingIds -> Finding]
  BY <1>1, <1>2
<1>4. /\ outcome' \in [status : Status, reason : Reason] /\ outcome'.status # "running"
  BY <1>1 DEF Status, Reason
<1>5. TypeOK' /\ StageInv'
  <2>1. TypeOK'
    BY <1>1, <1>3, <1>4 DEF IInv, TypeOK, MaxRecovery
  <2>2. StageInv'
    BY <1>1, <1>4 DEF IInv, StageInv
  <2>3. QED BY <2>1, <2>2
<1>6. BudgetInv'
  BY <1>1 DEF BudgetInv, BudgetOutlastsRounds
<1>7. RequestInv' /\ EvidenceInv'
  <2>1. outcome'.status = "completed" => CompletionReached(findings)'
    BY <1>1
    DEF CompletionReached, EvidenceReached, Validated, Confirmed, Matched, Successful,
        EvidenceUrls, MinFetchedPages
  <2>2. QED BY <1>1, <2>1, BatchUntouched DEF EvidenceInv, batchVars, evidenceVars
<1>8. QED BY <1>5, <1>6, <1>7 DEF IInv

-----------------------------------------------------------------------------
(* The steps of a batch *)

LEMMA ReviewInv ==
  ASSUME IInv, NEW acts \in SUBSET Actions, NEW retry, Execute("review", acts, retry)
  PROVE  IInv'
<1>1. /\ pc = "model" /\ protocolError' \in BOOLEAN /\ recovery' = 0 /\ refusals' = 0
      /\ iteration < task.maxIterations /\ iteration' = iteration + 1
      /\ lastKind' = "review" /\ EnterTurn(iteration + 1, FALSE)
      /\ UNCHANGED <<task, attempts, pages, findings, batch, kind, got, aborted, requests,
                     stored, reported>>
  BY DEF Execute, batchVars, evidenceVars
<1>2. modelCall <= 2 * (iteration + 1) + 1 /\ iteration + 1 \in Nat
  BY <1>1, TaskBounds DEF IInv, BudgetInv
<1>3. /\ pc' \in {"model", "done"} /\ modelCall' \in Nat
      /\ outcome' \in [status : Status, reason : Reason]
      /\ pc' # "done" <=> outcome'.status = "running"
      /\ pc' # "done" => outcome'.reason = "none"
      /\ outcome'.reason \in {"max_iterations", "protocol_error"} =>
           iteration + 1 >= task.maxIterations
      /\ outcome'.status # "completed"
  BY <1>1, <1>2, EnterTurnInv
<1>4. pc' = "model" => modelCall' = modelCall + 1
  BY <1>1, <1>2, EnterTurnCases DEF IInv
<1>5. TypeOK' /\ StageInv'
  BY <1>1, <1>2, <1>3 DEF IInv, TypeOK, StageInv, MaxRecovery, Kinds
<1>6. BudgetInv'
  BY <1>1, <1>2, <1>3, <1>4, TaskBounds DEF IInv, BudgetInv, BudgetOutlastsRounds
<1>7. RequestInv' /\ EvidenceInv'
  BY <1>1, <1>3, BatchUntouched DEF EvidenceInv, batchVars, evidenceVars
<1>8. QED BY <1>5, <1>6, <1>7 DEF IInv

\* A batch starts with actions that have attempts left.
LEMMA BatchStartsInv ==
  ASSUME IInv, NEW k \in {"search", "fetch"}, NEW acts \in SUBSET Actions, NEW retry,
         Execute(k, acts, retry)
  PROVE  IInv'
<1>1. /\ pc = "model" /\ pc' = "batch" /\ kind' = k /\ recovery' = 0 /\ refusals' = 0
      /\ protocolError' \in BOOLEAN /\ iteration < task.maxIterations
      /\ batch' = [x \in acts |-> IF k = "search" THEN "asked" ELSE "waiting"]
      /\ requests' = [x \in Actions |->
           IF k = "search" /\ x \in acts THEN requests[x] + 1 ELSE requests[x]]
      /\ UNCHANGED <<task, modelCall, iteration, lastKind, attempts, pages, findings, got,
                     aborted, outcome, stored, reported>>
  BY DEF Execute, evidenceVars
<1>2. /\ k = "fetch" => acts \subseteq Urls
      /\ \A x \in acts : attempts[x] < MaxAttempts
  BY DEF Execute, Acceptable, AttemptsLeft
<1>3. DOMAIN batch' = acts /\ \A x \in acts : batch'[x] \in {"asked", "waiting"}
  BY <1>1
<1>4. requests' \in [Actions -> Nat]
  BY <1>1 DEF IInv, TypeOK
<1>5. TypeOK'
  BY <1>1, <1>3, <1>4 DEF IInv, TypeOK, MaxRecovery, Progress
<1>6. StageInv'
  BY <1>1, <1>2, <1>3 DEF IInv, StageInv
<1>7. BudgetInv'
  BY <1>1, TaskBounds DEF IInv, StageInv, BudgetInv, BudgetOutlastsRounds
<1>8. RequestInv'
  <2>1. \A x \in Actions : requests[x] \in Nat /\ attempts[x] \in Nat /\ requests[x] <= attempts[x]
    BY <1>1 DEF IInv, TypeOK, StageInv, RequestInv
  <2>2. ASSUME NEW x \in Actions
        PROVE  /\ requests'[x] <= MaxAttempts /\ attempts'[x] <= MaxAttempts
               /\ x \notin acts => requests'[x] <= attempts'[x]
               /\ x \in acts => /\ requests'[x] <= attempts'[x] + 1
                                /\ attempts'[x] < MaxAttempts
                                /\ batch'[x] = "waiting" => requests'[x] <= attempts'[x]
                                /\ batch'[x] \in {"asked", "saving"} => requests'[x] > 0
    BY <1>1, <1>2, <2>1 DEF IInv, RequestInv, MaxAttempts
  <2>3. \A x, y \in acts : batch'[x] = "waiting" => batch'[y] = "waiting"
    BY <1>1
  <2>4. QED BY <1>3, <2>2, <2>3 DEF RequestInv
<1>9. EvidenceInv'
  <2>1. \A p \in pages \cup got : p.requested \in Actions /\ requests'[p.requested] > 0
    BY <1>1 DEF IInv, TypeOK, EvidenceInv, Page, Actions
  <2>2. QED BY <1>1, <2>1 DEF IInv, EvidenceInv, EvidenceIsKept, StageInv
<1>10. QED BY <1>5, <1>6, <1>7, <1>8, <1>9 DEF IInv

LEMMA AskFetchesInv ==
  ASSUME IInv, AskFetches
  PROVE  IInv'
<1>1. /\ pc = "batch" /\ \A x \in DOMAIN batch : batch[x] = "waiting"
      /\ DOMAIN batch' = DOMAIN batch
      /\ UNCHANGED <<task, pc, modelCall, iteration, protocolError, recovery, refusals,
                     attempts, lastKind, pages, findings, kind, got, aborted, outcome,
                     stored, reported>>
  BY DEF AskFetches, IInv, RequestInv, loopVars, stateVars, evidenceVars
<1>2. \/ /\ batch' = [x \in DOMAIN batch |-> "rejected"] /\ requests' = requests
      \/ /\ batch' = [x \in DOMAIN batch |-> "asked"]
         /\ requests' = [x \in Actions |->
              IF x \in DOMAIN batch THEN requests[x] + 1 ELSE requests[x]]
  BY DEF AskFetches
<1>3. requests' \in [Actions -> Nat]
  BY <1>2 DEF IInv, TypeOK
<1>4. TypeOK' /\ StageInv'
  <2>1. \A x \in DOMAIN batch' : batch'[x] \in Progress
    BY <1>1, <1>2 DEF Progress
  <2>2. TypeOK'
    BY <1>1, <1>3, <2>1 DEF IInv, TypeOK
  <2>3. QED BY <1>1, <2>2 DEF IInv, StageInv
<1>5. BudgetInv'
  BY <1>1 DEF IInv, BudgetInv, BudgetOutlastsRounds
<1>6. RequestInv'
  <2>1. \A x \in Actions : requests[x] \in Nat /\ attempts[x] \in Nat
    BY DEF IInv, TypeOK
  <2>2. ASSUME NEW x \in Actions
        PROVE  /\ requests'[x] <= MaxAttempts /\ attempts'[x] <= MaxAttempts
               /\ x \notin DOMAIN batch => requests'[x] <= attempts'[x]
               /\ x \in DOMAIN batch => /\ requests'[x] <= attempts'[x] + 1
                                        /\ attempts'[x] < MaxAttempts
                                        /\ batch'[x] # "waiting"
                                        /\ batch'[x] \in {"asked", "saving"} => requests'[x] > 0
    BY <1>1, <1>2, <2>1 DEF IInv, RequestInv, MaxAttempts
  <2>3. DOMAIN batch \subseteq Actions
    BY DEF IInv, TypeOK
  <2>4. QED BY <1>1, <2>2, <2>3 DEF RequestInv
<1>7. EvidenceInv'
  <2>1. \A p \in pages \cup got : p.requested \in Actions /\ requests[p.requested] \in Nat
                                    /\ requests[p.requested] > 0
    BY DEF IInv, TypeOK, EvidenceInv, Page, Actions
  <2>2. \A p \in pages \cup got : requests'[p.requested] > 0
    BY <1>2, <2>1
  <2>3. got \subseteq stored \cup reported
    BY <1>1 DEF IInv, EvidenceInv
  <2>4. QED BY <1>1, <2>2, <2>3 DEF IInv, EvidenceInv, EvidenceIsKept, StageInv
<1>8. QED BY <1>4, <1>5, <1>6, <1>7 DEF IInv

\* One action of the batch moves on, to something that is not waiting.
LEMMA ProgressInv ==
  ASSUME IInv, pc = "batch", NEW x \in DOMAIN batch,
         NEW now \in {"saving", "settled", "rejected"}, batch[x] \in {"asked", "saving"},
         batch' = [batch EXCEPT ![x] = now],
         UNCHANGED <<task, pc, loopVars, stateVars, findings, kind, aborted, outcome, requests>>
  PROVE  /\ StageInv' /\ BudgetInv' /\ RequestInv'
         /\ got' \cup stored' \cup reported' \subseteq Page => TypeOK'
<1>1. /\ DOMAIN batch' = DOMAIN batch /\ batch'[x] = now
      /\ \A y \in DOMAIN batch : batch[y] # "waiting" /\ (y # x => batch'[y] = batch[y])
      /\ UNCHANGED <<task, pc, modelCall, iteration, protocolError, recovery, refusals,
                     attempts, lastKind, pages, findings, kind, aborted, outcome, requests>>
  <2>1. \A y \in DOMAIN batch : batch[y] # "waiting"
    BY DEF IInv, RequestInv
  <2>2. QED BY <2>1 DEF loopVars, stateVars
<1>2. StageInv' /\ BudgetInv'
  BY <1>1 DEF IInv, StageInv, BudgetInv, BudgetOutlastsRounds
<1>3. \A y \in DOMAIN batch : batch'[y] # "waiting"
  BY <1>1
<1>4. RequestInv'
  BY <1>1, <1>3 DEF IInv, RequestInv
<1>5. got' \cup stored' \cup reported' \subseteq Page => TypeOK'
  BY <1>1 DEF IInv, TypeOK, Progress
<1>6. QED BY <1>2, <1>4, <1>5

LEMMA AnswerInv ==
  ASSUME IInv, NEW x \in Actions, NEW final \in Urls \cup {x}, NEW ok \in BOOLEAN,
         Answer(x, final, ok)
  PROVE  IInv'
<1> DEFINE page == [requested |-> x, final |-> final, ok |-> ok]
<1>1. /\ pc = "batch" /\ x \in DOMAIN batch /\ batch[x] = "asked"
      /\ UNCHANGED <<task, pc, loopVars, stateVars, findings, kind, aborted, outcome, requests,
                     stored, reported>>
      /\ \/ batch' = [batch EXCEPT ![x] = "rejected"] /\ UNCHANGED got
         \/ batch' = [batch EXCEPT ![x] = "saving"] /\ UNCHANGED got
         \/ /\ batch' = [batch EXCEPT ![x] = "saving"] /\ kind = "fetch"
            /\ got' = got \cup {page}
  BY DEF Answer, evidenceVars
<1>2. requests[x] > 0
  BY <1>1 DEF IInv, RequestInv
<1>3. kind = "fetch" => page \in Page
  BY <1>1 DEF IInv, StageInv, Page
<1>4. got' \cup stored' \cup reported' \subseteq Page
  BY <1>1, <1>3 DEF IInv, TypeOK
<1>5. TypeOK' /\ StageInv' /\ BudgetInv' /\ RequestInv'
  BY <1>1, <1>4, ProgressInv
<1>6. EvidenceInv'
  <2>1. outcome.status = "running" /\ pages' = pages /\ outcome' = outcome /\ requests' = requests
    BY <1>1 DEF IInv, StageInv, stateVars
  <2>2. page.requested = x
    OBVIOUS
  <2>3. DOMAIN batch' = DOMAIN batch /\ \A y \in DOMAIN batch : y # x => batch'[y] = batch[y]
    BY <1>1
  <2>4. ASSUME NEW p \in got' \ (stored \cup reported)
        PROVE  p.requested \in DOMAIN batch /\ batch'[p.requested] = "saving"
    <3>1. CASE p \in got
      <4>1. p.requested \in DOMAIN batch /\ batch[p.requested] = "saving"
        BY <2>4, <3>1 DEF IInv, EvidenceInv
      <4>2. p.requested # x
        BY <1>1, <4>1
      <4>3. QED BY <2>3, <4>1, <4>2
    <3>2. CASE p \notin got
      BY <1>1, <2>2, <2>4, <3>2
    <3>3. QED BY <3>1, <3>2
  <2>5. \A p \in pages' \cup got' : requests'[p.requested] > 0
    BY <1>1, <1>2, <2>1, <2>2 DEF IInv, EvidenceInv
  <2>6. QED
    BY <1>1, <2>1, <2>3, <2>4, <2>5 DEF IInv, EvidenceInv, EvidenceIsKept
<1>7. QED BY <1>5, <1>6 DEF IInv

\* A write that is over has put the pages of its action where they belong.
LEMMA SavedInv ==
  ASSUME IInv, NEW x \in Actions, Saved(x)
  PROVE  IInv'
<1>1. /\ pc = "batch" /\ x \in DOMAIN batch /\ batch[x] = "saving"
      /\ batch' = [batch EXCEPT ![x] = "settled"]
      /\ UNCHANGED <<task, pc, loopVars, stateVars, findings, kind, got, aborted, outcome,
                     requests>>
      /\ stored' \cup reported' = stored \cup reported \cup PagesOf(x)
  BY DEF Saved, PersistEvidence
<1>2. got' \cup stored' \cup reported' \subseteq Page
  BY <1>1 DEF IInv, TypeOK, PagesOf
<1>3. TypeOK' /\ StageInv' /\ BudgetInv' /\ RequestInv'
  BY <1>1, <1>2, ProgressInv
<1>4. EvidenceInv'
  <2>1. outcome.status = "running" /\ pages' = pages /\ outcome' = outcome
          /\ requests' = requests /\ got' = got
    BY <1>1 DEF IInv, StageInv, stateVars
  <2>2. ASSUME NEW p \in got \ (stored' \cup reported')
        PROVE  p.requested \in DOMAIN batch' /\ batch'[p.requested] = "saving"
    <3>1. p.requested \in DOMAIN batch /\ batch[p.requested] = "saving"
      BY <1>1, <2>2 DEF IInv, EvidenceInv
    <3>2. p.requested # x
      BY <1>1, <2>2 DEF PagesOf
    <3>3. QED BY <1>1, <3>1, <3>2
  <2>3. QED
    BY <1>1, <2>1, <2>2 DEF IInv, EvidenceInv, EvidenceIsKept
<1>5. QED BY <1>3, <1>4 DEF IInv

LEMMA BatchSettlesInv ==
  ASSUME IInv, BatchSettles
  PROVE  IInv'
<1>1. /\ pc = "batch" /\ AllSettled
      /\ DOMAIN batch' = {} /\ kind' = "none" /\ got' = {}
      /\ UNCHANGED <<task, protocolError, recovery, refusals, findings, aborted, requests,
                     stored, reported>>
  BY DEF BatchSettles, EmptyBatch, evidenceVars
<1>2. recovery = 0 /\ iteration < task.maxIterations /\ modelCall <= 2 * iteration + 2
  BY <1>1 DEF IInv, BudgetInv
<1>3. \A x \in Actions : /\ requests[x] \in Nat /\ attempts[x] \in Nat
                         /\ x \notin DOMAIN batch => requests[x] <= attempts[x]
                         /\ x \in DOMAIN batch => /\ requests[x] <= attempts[x] + 1
                                                  /\ attempts[x] < MaxAttempts
  BY <1>1 DEF IInv, TypeOK, RequestInv
<1>4. CASE \E x \in DOMAIN batch : batch[x] = "rejected"
  <2>1. /\ pc' = "done" /\ outcome' = [status |-> "interrupted", reason |-> "cancelled"]
        /\ UNCHANGED <<modelCall, iteration, attempts, lastKind, pages>>
    BY <1>4 DEF BatchSettles, Return, stateVars
  <2>2. TypeOK' /\ StageInv' /\ BudgetInv'
    BY <1>1, <2>1
    DEF IInv, TypeOK, StageInv, BudgetInv, BudgetOutlastsRounds, Status, Reason
  <2>3. RequestInv'
    BY <1>1, <1>3, <2>1 DEF IInv, RequestInv
  <2>4. EvidenceInv'
    BY <1>1, <2>1 DEF IInv, EvidenceInv, EvidenceIsKept
  <2>5. QED BY <2>2, <2>3, <2>4 DEF IInv
<1>5. CASE ~\E x \in DOMAIN batch : batch[x] = "rejected"
  <2>1. /\ iteration' = iteration + 1 /\ attempts' = WithDecision /\ lastKind' = kind
        /\ pages' = pages \cup got /\ EnterTurn(iteration + 1, FALSE)
    BY <1>5 DEF BatchSettles
  <2>2. modelCall <= 2 * (iteration + 1) + 1 /\ iteration + 1 \in Nat
    BY <1>2, TaskBounds DEF IInv
  <2>3. /\ pc' \in {"model", "done"} /\ modelCall' \in Nat
        /\ outcome' \in [status : Status, reason : Reason]
        /\ pc' # "done" <=> outcome'.status = "running"
        /\ pc' # "done" => outcome'.reason = "none"
        /\ outcome'.reason \in {"max_iterations", "protocol_error"} =>
             iteration + 1 >= task.maxIterations
        /\ outcome'.status # "completed"
    BY <1>1, <2>1, <2>2, EnterTurnInv
  <2>4. pc' = "model" => modelCall' = modelCall + 1
    BY <2>1, <2>2, EnterTurnCases DEF IInv
  <2>5. /\ attempts' \in [Actions -> Nat]
        /\ \A x \in Actions : requests[x] <= attempts'[x] /\ attempts'[x] <= MaxAttempts
    <3>1. attempts' = [x \in Actions |->
                         IF x \in DOMAIN batch THEN attempts[x] + 1 ELSE attempts[x]]
      BY <2>1 DEF WithDecision
    <3>2. \A x \in Actions : attempts[x] <= MaxAttempts
      BY DEF IInv, RequestInv
    <3>3. QED BY <1>3, <3>1, <3>2 DEF MaxAttempts
  <2>6. TypeOK' /\ StageInv'
    BY <1>1, <2>1, <2>2, <2>3, <2>5 DEF IInv, TypeOK, StageInv, Kinds
  <2>7. BudgetInv'
    BY <1>1, <1>2, <2>1, <2>2, <2>3, <2>4, TaskBounds DEF IInv, BudgetInv, BudgetOutlastsRounds
  <2>8. RequestInv'
    BY <1>1, <2>5 DEF IInv, RequestInv
  <2>9. EvidenceInv'
    <3>1. got \subseteq stored \cup reported
      BY <1>1 DEF AllSettled, IInv, EvidenceInv
    <3>2. QED
      BY <1>1, <2>1, <2>3, <3>1 DEF IInv, EvidenceInv, EvidenceIsKept
  <2>10. QED BY <2>6, <2>7, <2>8, <2>9 DEF IInv
<1>6. QED BY <1>4, <1>5

LEMMA StutterInv ==
  ASSUME IInv, UNCHANGED vars
  PROVE  IInv'
<1>1. UNCHANGED <<task, pc, modelCall, iteration, protocolError, recovery, refusals, attempts,
                  lastKind, pages, findings, batch, kind, got, aborted, outcome, requests,
                  stored, reported>>
  BY DEF vars, loopVars, stateVars, batchVars, evidenceVars
<1>2. TypeOK' /\ StageInv' /\ BudgetInv' /\ RequestInv'
  BY <1>1 DEF IInv, TypeOK, StageInv, BudgetInv, BudgetOutlastsRounds, RequestInv
<1>3. EvidenceInv'
  BY <1>1
  DEF IInv, EvidenceInv, EvidenceIsKept, CompletionReached, EvidenceReached, Validated,
      Confirmed, Matched,
      Successful, EvidenceUrls, MinFetchedPages
<1>4. QED BY <1>2, <1>3 DEF IInv

-----------------------------------------------------------------------------
(* The theorems *)

\* The inductive invariant, from which the theorems below follow.
THEOREM InductiveInvariant == Spec => []IInv
<1>1. Init => IInv
  BY InitInv
<1>2. IInv /\ [Next]_vars => IInv'
  <2>1. SUFFICES ASSUME IInv, [Next]_vars PROVE IInv'
    OBVIOUS
  <2>2. CASE Abort
    BY <2>1, <2>2, AbortInv
  <2>3. CASE Start
    BY <2>1, <2>3, StartInv
  <2>4. CASE \E timeout \in BOOLEAN : ModelFails(timeout)
    BY <2>1, <2>4, ModelFailsInv
  <2>5. CASE DiscardLateResponse
    BY <2>1, <2>5, DiscardInv
  <2>6. CASE RefuseResponse
    BY <2>1, <2>6, RefuseInv
  <2>7. CASE \E fs \in [FindingIds -> Submitted] : Finish(fs)
    BY <2>1, <2>7, FinishInv
  <2>8. CASE \E k \in Kinds, acts \in SUBSET Actions : \E retry \in SUBSET acts :
               PastRoundLimit(k, acts, retry)
    BY <2>1, <2>8, PastRoundLimitInv
  <2>9. CASE \E k \in Kinds, acts \in SUBSET Actions : \E retry \in SUBSET acts :
               Execute(k, acts, retry)
    BY <2>1, <2>9, ReviewInv, BatchStartsInv DEF Kinds
  <2>10. CASE AskFetches
    BY <2>1, <2>10, AskFetchesInv
  <2>11. CASE \E x \in Actions : Answered(x)
    BY <2>1, <2>11, AnswerInv DEF Answered
  <2>12. CASE \E x \in Actions : Saved(x)
    BY <2>1, <2>12, SavedInv
  <2>13. CASE BatchSettles
    BY <2>1, <2>13, BatchSettlesInv
  <2>14. CASE UNCHANGED vars
    BY <2>1, <2>14, StutterInv
  <2>15. QED
    BY <2>1, <2>2, <2>3, <2>4, <2>5, <2>6, <2>7, <2>8, <2>9, <2>10, <2>11, <2>12, <2>13, <2>14
    DEF Next, ModelResponds, Decides
<1>3. QED BY <1>1, <1>2, PTL DEF Spec

\* Type correctness of the agent loop.
THEOREM TypeCorrect == Spec => []TypeOK
<1>1. IInv => TypeOK
  BY DEF IInv
<1>2. QED BY <1>1, InductiveInvariant, PTL

\* For any number of rounds, actions per turn and refusals: no exact query or
\* URL is requested more than three times in a run (validateRetryIntent), and
\* the budget of model calls never ends a run that has rounds left
\* (runResearchAgent, the loop condition).
THEOREM LimitsAreKept == Spec => []LimitsHold
<1>1. IInv => ExactActionLimit
  BY DEF IInv, RequestInv, ExactActionLimit
<1>2. IInv => BudgetOutlastsRounds
  BY DEF IInv, BudgetInv
<1>3. IInv => LimitsHold
  BY <1>1, <1>2 DEF LimitsHold
<1>4. QED BY <1>3, InductiveInvariant, PTL

\* In every state, for any number of rounds and of writes that overlap and fail: a
\* page the agent can build on is in the evidence store, or the failure of its
\* write was reported (executeAgentActions, settleActionBatch, persistEvidence).
THEOREM PagesAreKept == Spec => []EvidenceIsKept
<1>1. IInv => EvidenceIsKept
  BY DEF IInv, EvidenceInv
<1>2. QED BY <1>1, InductiveInvariant, PTL

\* A completed run has fetched, with content, a page for each finding it
\* counts, and what it is built on is kept or known to be lost
\* (runResearchAgent, matchedFetchedEvidenceUrls, persistEvidence).
THEOREM CompletionHasEvidence == Spec => []CompletedIsEvidenced
<1>1. IInv => CompletedIsEvidenced
  <2>1. SUFFICES ASSUME IInv, outcome.status = "completed", task.evidenceRequired,
                        task.completionMode = "target_results"
                 PROVE  \E fs \in SUBSET Confirmed(findings) :
                          /\ Cardinality(fs) >= task.targetResultCount
                          /\ \A i \in fs : \E u \in findings[i].urls, p \in pages :
                               /\ p.ok
                               /\ requests[p.requested] > 0
                               /\ Canonical[u] \in {Canonical[p.requested], Canonical[p.final]}
    BY DEF CompletedIsEvidenced, IInv, EvidenceInv
  <2>2. Cardinality(Validated(findings)) >= task.targetResultCount
    BY <2>1 DEF IInv, EvidenceInv, CompletionReached
  <2>3. Validated(findings) \in SUBSET Confirmed(findings)
    BY DEF Validated
  <2>4. ASSUME NEW i \in Validated(findings)
        PROVE  \E u \in findings[i].urls, p \in pages :
                 /\ p.ok
                 /\ requests[p.requested] > 0
                 /\ Canonical[u] \in {Canonical[p.requested], Canonical[p.final]}
    <3>1. PICK c \in Matched(findings[i].urls) : TRUE
      BY <2>1, <2>4 DEF Validated
    <3>2. PICK u \in findings[i].urls : c = Canonical[u]
      BY <3>1 DEF Matched
    <3>3. PICK p \in pages : p.ok /\ c \in {Canonical[p.requested], Canonical[p.final]}
      BY <3>1 DEF Matched, Successful
    <3>4. requests[p.requested] > 0
      BY <2>1 DEF IInv, EvidenceInv
    <3>5. QED BY <3>2, <3>3, <3>4
  <2>5. QED BY <2>2, <2>3, <2>4
<1>2. QED BY <1>1, InductiveInvariant, PTL

\* The report counts what the model confirmed where the loop counted what it
\* had validated, and the cited pages by the same minimum: so the report of a
\* run that completed is never blocked by evidence (buildGenericReport).
THEOREM ReportIsNotBlocked == Spec => []CompletedIsAnswered
<1>1. IInv => CompletedIsAnswered
  <2>1. SUFFICES ASSUME IInv, outcome.status = "completed"
                 PROVE  AnswerStatus = "completed"
    BY DEF CompletedIsAnswered, IInv
  <2>2. CompletionReached(findings)
    BY <2>1 DEF IInv, EvidenceInv
  <2>3. task.targetResultCount \in Nat /\ task.minFetchedPages \in Nat
    BY <2>1 DEF IInv, TypeOK, Task
  <2>4. ASSUME task.evidenceRequired
        PROVE  ~(Cardinality(Matched(EvidenceUrls(findings))) <
                   (IF task.minFetchedPages # 0 THEN task.minFetchedPages
                    ELSE task.targetResultCount))
    <3>1. Matched(EvidenceUrls(findings)) \subseteq {Canonical[u] : u \in EvidenceUrls(findings)}
      BY DEF Matched
    <3>2. EvidenceUrls(findings) \subseteq Urls
      BY <2>1 DEF IInv, TypeOK, Finding, EvidenceUrls
    <3>3. Matched(EvidenceUrls(findings)) \subseteq Urls
      BY <3>1, <3>2, AgentLoopAssumption
    <3>4. Cardinality(Matched(EvidenceUrls(findings))) \in Nat
      BY <3>3, AgentLoopAssumption, FS_Subset, FS_CardinalityType
    <3>5. EvidenceReached(findings)
      BY <2>2, <2>4 DEF CompletionReached
    <3> QED
      BY <2>3, <2>4, <3>4, <3>5 DEF EvidenceReached, MinFetchedPages
  <2>5. ASSUME task.completionMode = "target_results"
        PROVE  ~(Cardinality(Confirmed(findings)) < task.targetResultCount)
    <3>1. Cardinality(Validated(findings)) >= task.targetResultCount
      BY <2>2, <2>5 DEF CompletionReached
    <3>2. Validated(findings) \subseteq Confirmed(findings)
          /\ Confirmed(findings) \subseteq FindingIds
      BY DEF Validated, Confirmed
    <3>3. IsFiniteSet(Confirmed(findings))
      BY <3>2, AgentLoopAssumption, FS_Subset
    <3>4. Cardinality(Validated(findings)) <= Cardinality(Confirmed(findings))
          /\ Cardinality(Validated(findings)) \in Nat
          /\ Cardinality(Confirmed(findings)) \in Nat
      BY <3>2, <3>3, FS_Subset, FS_CardinalityType
    <3> QED
      BY <2>3, <3>1, <3>4
  <2> QED
    BY <2>1, <2>4, <2>5 DEF AnswerStatus, Blocked
<1>2. QED BY <1>1, InductiveInvariant, PTL

\* Entering a turn returns "failed" only while the signal has not aborted.
LEMMA EnterTurnHonours ==
  ASSUME IInv, pc # "done", NEW it \in Nat, NEW error \in BOOLEAN, EnterTurn(it, error),
         error => ~aborted, aborted' = aborted
  PROVE  [Contract!Next]_(Contract!contractVars)
<1>1. outcome.status = "running" /\ TypeOK
  BY DEF IInv, StageInv
<1>2. \/ outcome'.status = "failed" /\ ~aborted
      \/ outcome'.status = "interrupted"
      \/ outcome' = outcome
  BY <1>1, EnterTurnCases
<1>3. QED
  BY <1>1, <1>2 DEF Contract!Next, Contract!Return, Contract!contractVars

\* A step of the loop is a step of its contract, or none.
LEMMA ContractStep ==
  ASSUME IInv, Next
  PROVE  [Contract!Next]_(Contract!contractVars)
<1> USE DEF Contract!Next, Contract!Return, Contract!contractVars
<1>1. CASE Abort
  BY <1>1 DEF Abort, Contract!Abort, IInv, StageInv
<1>2. CASE Start
  BY <1>2, EnterTurnHonours DEF Start, IInv, TypeOK, StageInv
<1>3. CASE \E timeout \in BOOLEAN : ModelFails(timeout)
  BY <1>3 DEF ModelFails, Return, IInv, StageInv
<1>4. CASE DiscardLateResponse
  BY <1>4 DEF DiscardLateResponse, Return, IInv, StageInv
<1>5. CASE RefuseResponse
  <2>1. /\ pc = "model" /\ ~aborted /\ aborted' = aborted /\ iteration \in Nat
        /\ \/ outcome' = [status |-> "failed", reason |-> "protocol_error"]
           \/ EnterTurn(iteration, TRUE)
    BY <1>5 DEF RefuseResponse, UseResponse, Return, IInv, TypeOK
  <2>2. CASE EnterTurn(iteration, TRUE)
    BY <2>1, <2>2, EnterTurnHonours
  <2>3. CASE outcome' = [status |-> "failed", reason |-> "protocol_error"]
    BY <2>1, <2>3 DEF IInv, StageInv
  <2>4. QED BY <2>1, <2>2, <2>3
<1>6. CASE \E fs \in [FindingIds -> Submitted] : Finish(fs)
  BY <1>6 DEF Finish, UseResponse, Return, IInv, StageInv
<1>7. CASE \E k \in Kinds, acts \in SUBSET Actions : \E retry \in SUBSET acts :
             PastRoundLimit(k, acts, retry)
  <2>1. /\ pc = "model" /\ ~aborted /\ aborted' = aborted /\ iteration \in Nat
        /\ EnterTurn(iteration, TRUE)
    BY <1>7 DEF PastRoundLimit, UseResponse, IInv, TypeOK
  <2>2. QED BY <2>1, EnterTurnHonours
<1>8. CASE \E k \in Kinds, acts \in SUBSET Actions : \E retry \in SUBSET acts :
             Execute(k, acts, retry)
  <2>1. PICK k \in Kinds, acts \in SUBSET Actions, retry \in SUBSET Actions :
          Execute(k, acts, retry)
    BY <1>8
  <2>2. pc = "model" /\ aborted' = aborted /\ iteration + 1 \in Nat
    BY <2>1 DEF Execute, IInv, TypeOK
  <2>3. CASE k = "review"
    <3>1. EnterTurn(iteration + 1, FALSE)
      BY <2>1, <2>3 DEF Execute
    <3>2. QED BY <2>2, <3>1, EnterTurnHonours
  <2>4. CASE k # "review"
    BY <2>1, <2>4 DEF Execute
  <2>5. QED BY <2>3, <2>4
<1>9. CASE AskFetches \/ \E x \in Actions : Answered(x) \/ Saved(x)
  BY <1>9 DEF AskFetches, Answered, Answer, Saved
<1>10. CASE BatchSettles
  <2>1. /\ pc = "batch" /\ outcome.status = "running" /\ aborted' = aborted
        /\ iteration + 1 \in Nat
    BY <1>10 DEF BatchSettles, IInv, TypeOK, StageInv
  <2>2. CASE EnterTurn(iteration + 1, FALSE)
    BY <2>1, <2>2, EnterTurnHonours
  <2>3. CASE outcome' = [status |-> "interrupted", reason |-> "cancelled"]
    BY <2>1, <2>3
  <2>4. QED BY <1>10, <2>2, <2>3 DEF BatchSettles, Return
<1>11. QED
  BY <1>1, <1>2, <1>3, <1>4, <1>5, <1>6, <1>7, <1>8, <1>9, <1>10 DEF Next, ModelResponds, Decides

\* The loop implements its contract: it returns once, and only "interrupted"
\* after an abort (runResearchAgent).
THEOREM LoopHonoursContract == Spec => ContractSpec
<1>1. Init => Contract!Init
  BY DEF Init, Contract!Init
<1>2. IInv /\ [Next]_vars => [Contract!Next]_(Contract!contractVars)
  <2>1. UNCHANGED vars => UNCHANGED Contract!contractVars
    BY DEF vars, Contract!contractVars
  <2>2. QED BY <2>1, ContractStep
<1>3. QED
  BY <1>1, <1>2, InductiveInvariant, PTL DEF Spec, ContractSpec, Contract!Spec

=============================================================================
