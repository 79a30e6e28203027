---------------------------- MODULE LlmTransport ----------------------------
(***************************************************************************)
(* One call of OpenAiCompatibleProvider.complete                           *)
(* (src/llm/openai-compatible.ts): a loop of attempts, each with a         *)
(* controller of its own that a timer and the caller's signal abort, a     *)
(* wait before the next one, and the log of transport events.              *)
(*                                                                         *)
(* The call awaits in three places: the headers (fetch), the body and the  *)
(* wait for a retry. What lies between two awaits is one step. The server  *)
(* is free: it may answer anything, late, or never.                        *)
(***************************************************************************)
EXTENDS Integers, Sequences

CONSTANTS
  MaxAttemptsOptions,  \* values of options.maxAttempts tried; None: absent
  RetryAfters,         \* delays a Retry-After header may ask for
  MaxRetryAfter,       \* options.maxRetryAfterMs, in its bounds
  RetryDelay,          \* options.retryDelayMs
  UseToolCall,         \* options.responseFormatMode is tool_call
  None

\* What a run assumes of them.
LlmTransportAssumption ==
  /\ MaxAttemptsOptions \subseteq Int \cup {None}
  /\ None \notin Int
  /\ RetryAfters \subseteq Nat
  /\ MaxRetryAfter \in Nat /\ RetryDelay \in Nat
  /\ UseToolCall \in BOOLEAN

VARIABLES
  maxAttempts,  \* the bound of the loop
  attempt,      \* its counter; 0 before the first attempt
  phase,        \* what the call awaits
  aborted,      \* input.signal.aborted
  controller,   \* who aborted this attempt's controller: None, timer, caller
  headers,      \* of this attempt's response; None before they arrive
  requests,     \* requests sent
  events,       \* onTransportEvent calls
  result        \* what complete() settled with

vars == <<maxAttempts, attempt, phase, aborted, controller, headers,
          requests, events, result>>

-----------------------------------------------------------------------------
Codes == {"LLM_TIMEOUT", "LLM_NETWORK_ERROR", "LLM_HTTP_ERROR",
          "LLM_INVALID_RESPONSE"}

Lesser(a, b) == IF a <= b THEN a ELSE b
Greater(a, b) == IF a >= b THEN a ELSE b

BoundedInteger(value, fallback, minimum, maximum) ==
  IF value = None THEN fallback ELSE Greater(minimum, Lesser(maximum, value))

RetryAfterMs(after) == IF after = None THEN None ELSE Lesser(MaxRetryAfter, after)

\* status: ok, retryable (429 or 500 and above) or refused (the others).
Headers == [status : {"ok", "retryable", "refused"}, retryAfter : RetryAfters \cup {None}]

Event(type, code, retryable, delay) ==
  [type |-> type, attempt |-> attempt, code |-> code,
   retryable |-> retryable, delay |-> delay]

Error(code, retryable, contract, retryAfter) ==
  [code |-> code, retryable |-> retryable, contract |-> contract,
   retryAfter |-> retryAfter]

Pending == [kind |-> "pending", code |-> None, attempts |-> 0]
Completion(kind) == [kind |-> kind, code |-> None, attempts |-> attempt]
Thrown(code) == [kind |-> "thrown", code |-> code, attempts |-> attempt]
Reason == [kind |-> "aborted", code |-> None, attempts |-> attempt]

Init ==
  /\ maxAttempts \in {BoundedInteger(o, 2, 1, 5) : o \in MaxAttemptsOptions}
  /\ attempt = 0
  /\ phase = "loop"
  /\ aborted \in BOOLEAN
  /\ controller = None
  /\ headers = None
  /\ requests = 0
  /\ events = <<>>
  /\ result = Pending

Awaiting == phase \in {"fetch", "body"}

-----------------------------------------------------------------------------
(* The head of the loop, and the two ways an attempt is aborted *)

Attempt ==
  /\ phase = "loop"
  /\ IF aborted
     THEN /\ result' = Reason
          /\ phase' = "settled"
          /\ UNCHANGED <<attempt, controller, headers, requests, events>>
     ELSE /\ attempt' = attempt + 1
          /\ events' = Append(events, [Event("attempt_started", None, FALSE, None)
                                       EXCEPT !.attempt = attempt + 1])
          /\ requests' = requests + 1
          /\ controller' = None
          /\ headers' = None
          /\ phase' = "fetch"
          /\ UNCHANGED result
  /\ UNCHANGED <<maxAttempts, aborted>>

\* From the request to the finally clause, the reading of the body included.
TimerArmed == Awaiting

Timeout ==
  /\ TimerArmed
  /\ controller = None
  /\ controller' = "timer"
  /\ UNCHANGED <<maxAttempts, attempt, phase, aborted, headers, requests, events, result>>

\* The caller aborts; the listener is there while an attempt is under way.
Abort ==
  /\ ~aborted
  /\ phase # "settled"
  /\ aborted' = TRUE
  /\ controller' = IF Awaiting /\ controller = None THEN "caller" ELSE controller
  /\ UNCHANGED <<maxAttempts, attempt, phase, headers, requests, events, result>>

-----------------------------------------------------------------------------
(* The end of an attempt *)

Retryable(error) == error.retryable

\* Mutant: the last attempt is never made.
BeforeLast == attempt + 1 >= maxAttempts

LastAttempt == attempt >= maxAttempts

Delay(error) == IF error.retryAfter = None THEN RetryDelay ELSE error.retryAfter

Failed(error) ==
  Event("attempt_failed", error.code, Retryable(error), error.retryAfter)

\* The caller aborted: no code, no retry, its own reason is thrown.
GivenUp ==
  /\ events' = Append(events, Event("attempt_failed", None, FALSE, None))
  /\ result' = Reason
  /\ phase' = "settled"

GiveUp(error) ==
  /\ events' = Append(events, Failed(error))
  /\ result' = IF error.contract THEN Completion("protocol_error") ELSE Thrown(error.code)
  /\ phase' = "settled"

Retry(error) ==
  /\ events' = events \o
       <<Failed(error), Event("retry_scheduled", error.code, TRUE, Delay(error))>>
  /\ phase' = "wait"
  /\ UNCHANGED result

\* Mutant: the catch clause does not ask whether the caller aborted.
BlamesProvider(error) ==
  IF ~Retryable(error) \/ LastAttempt THEN GiveUp(error) ELSE Retry(error)

Caught(error) ==
  IF aborted THEN GivenUp
  ELSE IF ~Retryable(error) \/ LastAttempt THEN GiveUp(error)
  ELSE Retry(error)

Succeeded ==
  /\ events' = Append(events, Event("attempt_succeeded", None, FALSE, None))
  /\ result' = Completion("text")
  /\ phase' = "settled"

ControllerAborted == controller # None

TransportError ==
  Error(IF ControllerAborted THEN "LLM_TIMEOUT" ELSE "LLM_NETWORK_ERROR",
        TRUE, FALSE, None)

HttpError ==
  Error("LLM_HTTP_ERROR", headers.status = "retryable", FALSE,
        RetryAfterMs(headers.retryAfter))

\* Truncated, not JSON, no message, no string content.
InvalidResponse == Error("LLM_INVALID_RESPONSE", FALSE, FALSE, None)

\* Not exactly one call of the tool asked for.
ToolContract == Error("LLM_INVALID_RESPONSE", TRUE, TRUE, None)

\* fetch resolves. An answer on its way is not stopped by an abort.
HeadersArrive(h) ==
  /\ phase = "fetch"
  /\ headers' = h
  /\ phase' = "body"
  /\ UNCHANGED <<maxAttempts, attempt, aborted, controller, requests, events, result>>

\* The body has been read: it is judged and the attempt ends.
BodyRead ==
  /\ phase = "body"
  /\ IF headers.status # "ok"
     THEN Caught(HttpError)
     ELSE \/ Succeeded
          \/ Caught(InvalidResponse)
          \/ UseToolCall /\ Caught(ToolContract)
  /\ UNCHANGED <<maxAttempts, attempt, aborted, controller, headers, requests>>

\* fetch or the reader rejects: the controller was aborted or the network failed.
Rejected ==
  /\ Awaiting
  /\ Caught(TransportError)
  /\ UNCHANGED <<maxAttempts, attempt, aborted, controller, headers, requests>>

-----------------------------------------------------------------------------
(* waitForRetry *)

RetryAborted ==
  /\ phase = "wait"
  /\ aborted
  /\ result' = Reason
  /\ phase' = "settled"
  /\ UNCHANGED <<maxAttempts, attempt, aborted, controller, headers, requests, events>>

RetryTimer ==
  /\ phase = "wait"
  /\ ~aborted
  /\ phase' = "loop"
  /\ UNCHANGED <<maxAttempts, attempt, aborted, controller, headers, requests, events, result>>

-----------------------------------------------------------------------------
RejectedByAbort == ControllerAborted /\ Rejected

Next ==
  \/ Attempt \/ Timeout \/ Abort
  \/ \E h \in Headers : HeadersArrive(h)
  \/ BodyRead \/ Rejected
  \/ RetryAborted \/ RetryTimer

Spec == Init /\ [][Next]_vars

\* Timers fire, an aborted fetch rejects, the loop goes on. Nothing is
\* expected of the server or of the caller.
Due == Attempt \/ Timeout \/ RejectedByAbort \/ RetryAborted \/ RetryTimer

FairSpec == Spec /\ WF_vars(Due)

-----------------------------------------------------------------------------
(* Properties *)

EventTypes == {"attempt_started", "attempt_succeeded", "attempt_failed", "retry_scheduled"}

EventType ==
  [type : EventTypes, attempt : 1..5, code : Codes \cup {None},
   retryable : BOOLEAN, delay : Nat \cup {None}]

Results ==
  [kind : {"pending", "text", "protocol_error", "thrown", "aborted"},
   code : Codes \cup {None}, attempts : 0..5]

\* Types; the loop stays within the bound of attempts, which is 1 to 5
\* whatever the option says (openai-compatible.ts:39-42, 172).
TypeOK ==
  /\ maxAttempts \in 1..5
  /\ attempt \in 0..maxAttempts
  /\ phase \in {"loop", "fetch", "body", "wait", "settled"}
  /\ aborted \in BOOLEAN
  /\ controller \in {None, "timer", "caller"}
  /\ headers \in Headers \cup {None}
  /\ requests \in Nat
  /\ events \in Seq(EventType)
  /\ result \in Results

Follows(e, f) ==
  CASE f.type = "attempt_started" ->
         e.type = "retry_scheduled" /\ f.attempt = e.attempt + 1
    [] f.type = "retry_scheduled" ->
         /\ e.type = "attempt_failed" /\ e.retryable
         /\ f.attempt = e.attempt /\ f.code = e.code
         /\ f.delay <= Greater(RetryDelay, MaxRetryAfter)
    [] OTHER -> e.type = "attempt_started" /\ f.attempt = e.attempt

LastEvent == events[Len(events)]

LogIsALoop ==
  /\ events # <<>> => events[1].type = "attempt_started" /\ events[1].attempt = 1
  /\ \A i \in 2..Len(events) : Follows(events[i - 1], events[i])
  /\ requests = attempt
  /\ Awaiting <=> events # <<>> /\ LastEvent.type = "attempt_started"

ResultAgreesWithLog ==
  phase = "settled" =>
    CASE result.kind = "text" -> LastEvent.type = "attempt_succeeded"
      [] result.kind = "protocol_error" ->
           /\ LastEvent.code = "LLM_INVALID_RESPONSE" /\ LastEvent.retryable
           /\ result.attempts = maxAttempts
      [] result.kind = "thrown" ->
           /\ LastEvent.type = "attempt_failed" /\ LastEvent.code = result.code
           /\ LastEvent.retryable => result.attempts = maxAttempts
      [] result.kind = "aborted" ->
           aborted /\ (events # <<>> => LastEvent.type # "attempt_succeeded")
      [] OTHER -> FALSE

\* The log is that of a loop: attempts are numbered, each ends once, the next
\* begins only because the one before failed in a way that may be retried and
\* after a bounded wait, and each request is an attempt. What the caller gets is
\* what the log ends with: a text after a success, the code of the last
\* failure, a protocol error only once every attempt was spent, the abort reason
\* only if it aborted (openai-compatible.ts:178, 258-324).
LogAgrees == TypeOK /\ LogIsALoop /\ ResultAgreesWithLog

\* Once the caller has aborted no request is sent and no failure is put down
\* to the provider, even when the attempt's own timer fired first; what is
\* still logged is the attempt under way (openai-compatible.ts:177, 275).
AbortIsTheLastWord ==
  [][aborted =>
       /\ requests' = requests
       /\ Len(events') <= Len(events) + 1
       /\ (events' # events /\ events'[Len(events')].type = "attempt_failed") =>
            events'[Len(events')].code = None /\ result'.kind = "aborted"]_vars

\* The call settles although the server may never answer and the caller may
\* never abort: attempts are bounded and each has a timer (181, 324).
Settles == <>(phase = "settled")

-----------------------------------------------------------------------------
(* The inductive invariant behind LogAgrees *)

\* With the log: it ends with this attempt, and between two attempts with the
\* promise of another, which the bound allows.
LogInv ==
  /\ LogAgrees
  /\ (events = <<>>) <=> (attempt = 0)
  /\ events # <<>> => LastEvent.attempt = attempt
  /\ phase \in {"loop", "wait"} =>
       /\ attempt < maxAttempts
       /\ events # <<>> => LastEvent.type = "retry_scheduled"
  /\ phase = "wait" => events # <<>>
  /\ phase = "body" => headers \in Headers
=============================================================================
