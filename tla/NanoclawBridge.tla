--------------------------- MODULE NanoclawBridge ---------------------------
(***************************************************************************)
(* One model call of src/runtime/nanoclaw-bridge.ts at a time: up to three *)
(* requests to the configured model and three to the fallback, each raced  *)
(* against its timer and the run's signal by withTimeout (reliability.ts)  *)
(* until its headers are in. The body is read outside that race.           *)
(***************************************************************************)
EXTENDS Integers

CONSTANT HasFallback   \* config.fallbackModel names another model

ASSUME NanoclawBridgeAssumption == HasFallback \in BOOLEAN

VARIABLES
  aborted,   \* the run's signal
  call       \* the model call: phase, model, attempt, status, error

bridgeVars == <<aborted, call>>

MaxAttempts == 3

Phases == {"none", "request", "body", "sleep", "answered", "failed"}
\* busy: 429, 502, 503, 504 or an error text that reads like one. empty: a valid response without text.
Statuses == {"none", "ok", "busy", "refused"}
Failures == {"none", "retryable", "empty", "final", "abort"}

Call == [phase : Phases, model : {"main", "fallback"}, attempt : 1..MaxAttempts,
         status : Statuses, error : Failures]

NoCall == [phase |-> "none", model |-> "main", attempt |-> 1,
           status |-> "none", error |-> "none"]
Answered == [NoCall EXCEPT !.phase = "answered"]
Failed(error) == [NoCall EXCEPT !.phase = "failed", !.error = error]
Requesting(model, attempt) ==
  [NoCall EXCEPT !.phase = "request", !.model = model, !.attempt = attempt]
Sleeping == [call EXCEPT !.phase = "sleep", !.status = "none"]

-----------------------------------------------------------------------------

\* requestForModel begins with a look at the signal.
Request(model) ==
  call' = IF aborted THEN Failed("abort") ELSE Requesting(model, 1)

StartCall == Request("main")

\* Mutant: the fallback falls back on the main model in turn.
LeaveModelForOther(error) ==
  IF HasFallback /\ ~aborted
  THEN Request(IF call.model = "main" THEN "fallback" ELSE "main")
  ELSE call' = Failed(IF aborted THEN "abort" ELSE error)

\* What leaves requestForModel: the other model is asked once, unless aborted.
LeaveModel(error) ==
  IF call.model = "main" /\ HasFallback /\ ~aborted
  THEN Request("fallback")
  ELSE call' = Failed(IF aborted THEN "abort" ELSE error)

CanRetry == call.attempt < MaxAttempts

\* The catch clause of an attempt.
Caught(error) ==
  IF error = "retryable" /\ CanRetry /\ ~aborted
  THEN call' = Sleeping
  ELSE LeaveModel(error)

Headers(status) ==
  /\ call.phase = "request" /\ ~aborted
  /\ call' = [call EXCEPT !.phase = "body", !.status = status]
  /\ UNCHANGED aborted

\* The attempt's timer (a RuntimeTimeoutError) or a network error.
RequestFails(error) ==
  /\ call.phase = "request" /\ ~aborted
  /\ Caught(error)
  /\ UNCHANGED aborted

RequestAborts ==
  /\ call.phase = "request" /\ aborted
  /\ Caught("abort")
  /\ UNCHANGED aborted

\* text: the payload holds text. valid: choices without text, which is retried.
BodyError(text, valid) ==
  CASE call.status = "busy" -> "retryable"
    [] call.status = "refused" -> "final"
    [] text -> "none"
    [] valid /\ CanRetry -> "retryable"
    [] valid /\ ~CanRetry -> "empty"
    [] OTHER -> "final"

\* The signal is not looked at when there is text.
Body(text, valid) ==
  /\ call.phase = "body"
  /\ IF BodyError(text, valid) = "none"
     THEN call' = Answered
     ELSE Caught(BodyError(text, valid))
  /\ UNCHANGED aborted

BodyFails(error) ==
  /\ call.phase = "body"
  /\ Caught(error)
  /\ UNCHANGED aborted

\* Mutant: a plain pause, which no signal ends.
WakeRegardless ==
  /\ call.phase = "sleep"
  /\ call' = Requesting(call.model, call.attempt + 1)
  /\ UNCHANGED aborted

Wake ==
  /\ call.phase = "sleep" /\ ~aborted
  /\ call' = Requesting(call.model, call.attempt + 1)
  /\ UNCHANGED aborted

\* The pause between two attempts rejects at once when the signal aborts.
SleepAborts ==
  /\ call.phase = "sleep" /\ aborted
  /\ LeaveModel("abort")
  /\ UNCHANGED aborted

ServerAnswers == \E s \in {"ok", "busy", "refused"} : Headers(s)

BodyEnds ==
  \/ \E text, valid \in BOOLEAN : Body(text, valid)
  \/ \E e \in {"retryable", "final"} : BodyFails(e)

\* What timers, the signal and the process itself bring about.
BridgeTimers ==
  \/ \E e \in {"retryable", "final"} : RequestFails(e)
  \/ RequestAborts \/ Wake \/ SleepAborts

CallStep == ServerAnswers \/ BodyEnds \/ BridgeTimers

=============================================================================
