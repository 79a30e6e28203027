----------------------------- MODULE AutoSearch -----------------------------
(***************************************************************************)
(* One call of AutoSearchProvider.search (src/search/auto/auto.ts): the    *)
(* engines of a scope asked in parallel, each one raced against its own    *)
(* timer and the caller's cancellation, under one controller that the      *)
(* search's timer, every engine's timer and the caller abort.              *)
(*                                                                         *)
(* An engine's run outlives its race: the requests it is making, the       *)
(* retries of http.js and the next address of its provider are steps of    *)
(* their own, before and after the search has replied. A foreign engine is *)
(* an AutoEngine that heeds no signal, as those of auto.test.ts.           *)
(***************************************************************************)
EXTENDS Integers, Sequences, FiniteSets

CONSTANTS
  Registered,      \* options.engines, in order
  Scopes,          \* the sets of engines a scope can select
  MaxEngineCalls,  \* options.maxEngineCalls
  Profile,         \* of each engine: kind, steps, retries, blunt
  None

Engines == {Registered[i] : i \in 1..Len(Registered)}

\* fallback: the next address is tried until one has records (bing, baidu,
\* sogou). chain: every page is needed (360, quark, yandex, naver). single: one
\* request (dogpile). A blunt provider reports every failure as ENGINE_FAILED.
Kinds == {"fallback", "chain", "single", "foreign"}

ASSUME AutoSearchAssumption ==
  /\ Registered \in Seq(Engines)
  /\ \A i, j \in 1..Len(Registered) : Registered[i] = Registered[j] => i = j
  /\ Scopes \subseteq SUBSET Engines
  /\ MaxEngineCalls \in Int
  /\ Profile \in [Engines -> [kind : Kinds, steps : 1..4, retries : 0..2,
                              blunt : BOOLEAN]]
  /\ None \notin Engines

VARIABLES
  call,      \* idle, waiting for its engines, returned
  scoped,    \* the engines the scope selects, in order
  caller,    \* options.signal.aborted
  aborted,   \* controller.signal.aborted
  work,      \* of each engine: how far its run is
  row,       \* of each engine: what runEngineSafely resolved with, or None
  expired,   \* the timers that have fired: an engine (the one of its request)
             \* or Deadline (the search's, or the one an engine is raced with)
  reply      \* what search() resolved with, or None

vars == <<call, scoped, caller, aborted, work, row, expired, reply>>

Deadline == None

-----------------------------------------------------------------------------
(* Engines, answers and rows *)

BoundedEngineCalls ==
  LET bounded == IF MaxEngineCalls > 0 THEN MaxEngineCalls ELSE 0
  IN IF bounded < Len(Registered) THEN bounded ELSE Len(Registered)

EligibleOf(selected) ==
  SubSeq(selected, 1, IF BoundedEngineCalls < Len(selected)
                      THEN BoundedEngineCalls ELSE Len(selected))

\* The engines of a scope, in the order they are registered.
Selected(scope) ==
  LET kept[n \in 0..Len(Registered)] ==
        IF n = 0 THEN <<>>
        ELSE IF Registered[n] \in scope THEN Append(kept[n - 1], Registered[n])
        ELSE kept[n - 1]
  IN kept[Len(Registered)]

FirstOf(engines, n) == {engines[i] : i \in 1..n}

Asked == LET eligible == EligibleOf(scoped) IN FirstOf(eligible, Len(eligible))

Is(e, kind) == Profile[e].kind = kind

\* A page answers the request; flagged: it has records and the marks of a
\* captcha. The others are the errors of fetchAttempt.
Pages == {"records", "flagged", "blocked", "empty"}
Errors == {"http_502", "http_status", "network_error", "unusable", "timeout"}

Answers(e) ==
  Errors \cup (IF Is(e, "single") THEN {"records", "empty"} ELSE Pages)

Retryable(answer) == answer \in {"network_error", "http_502"}

HasRecords(answer) == answer \in {"records", "flagged"}

\* normalizeResponse on the last attempt of the provider.
OutcomeOf(e, answer) ==
  CASE answer = "records" -> "success_with_content"
    [] answer \in {"flagged", "blocked"} -> "http_error"
    [] answer = "empty" ->
         IF Is(e, "fallback") THEN "transport_error" ELSE "success_empty"
    [] answer \in Errors /\ Profile[e].blunt -> "transport_error"
    [] answer = "timeout" /\ ~Profile[e].blunt -> "timeout"
    [] answer \in {"http_502", "http_status"} /\ ~Profile[e].blunt -> "http_error"
    [] OTHER -> "transport_error"

Outcomes == {"success_with_content", "success_empty", "http_error", "timeout",
             "transport_error", "cancelled"}

Row(outcome, content, requests) ==
  [outcome |-> outcome, content |-> content, requests |-> requests]

RowType == [outcome : Outcomes, content : BOOLEAN, requests : Nat]

\* Mutant: retries are not counted.
AddressesOnly(e, answer) == work[e].step

\* requestCount: a blunt provider's failure carries no diagnostics to count.
Reported(e, answer) ==
  IF Is(e, "single") \/ (Profile[e].blunt /\ answer \in Errors)
  THEN 1 ELSE work[e].attempts

-----------------------------------------------------------------------------
(* Requests *)

Idle == [st |-> "idle", step |-> 0, tries |-> 0, attempts |-> 0, sent |-> 0]

\* Mutant: the request does not look at a signal that is aborted already.
AlwaysReaches(stopped) == TRUE

\* fetch() with an aborted signal sends nothing.
Reaches(stopped) == ~stopped

\* fetchAttempt, called while the controller is aborted or not.
Ask(w, stopped) ==
  [w EXCEPT !.st = "asking", !.attempts = @ + 1,
            !.sent = IF Reaches(stopped) THEN @ + 1 ELSE @]

FirstAsk(e) ==
  IF Is(e, "foreign") THEN [Idle EXCEPT !.st = "asking"]
  ELSE Ask([Idle EXCEPT !.step = 1], FALSE)

Init ==
  /\ call = "idle"
  /\ scoped = <<>>
  /\ caller \in BOOLEAN
  /\ aborted = FALSE
  /\ work = [e \in Engines |-> Idle]
  /\ row = [e \in Engines |-> None]
  /\ expired = {}
  /\ reply = None

\* A reply: its outcome, the engines it has results of, why it stopped.
Reply(outcome, candidates, stopped) ==
  [outcome |-> outcome, candidates |-> candidates, stopped |-> stopped]

ReplyType ==
  [outcome : Outcomes, candidates : SUBSET Engines,
   stopped : {"cancelled", "deadline", "engine_budget", "all_engines"}]

\* None stands for no row yet, and for no reply.
ASSUME NoneAssumption == None \notin RowType /\ None \notin ReplyType

SearchCancelled ==
  /\ call = "idle"
  /\ caller
  /\ call' = "returned"
  /\ reply' = Reply("cancelled", {}, "cancelled")
  /\ UNCHANGED <<scoped, caller, aborted, work, row, expired>>

\* The engines start one after the other in one synchronous step. All of them
\* start, or the deadline passes before the engine after the n-th: it times
\* out and aborts the controller, and those behind it are cancelled unstarted.
StartEngines(eligible, n, thrown) ==
  LET late == n < Len(eligible) IN
  /\ aborted' = late
  /\ expired' = IF late THEN {Deadline} ELSE {}
  /\ work' = [e \in Engines |->
       IF e \in thrown THEN [Idle EXCEPT !.st = "over"]
       ELSE IF e \in FirstOf(eligible, n) THEN FirstAsk(e) ELSE Idle]
  /\ row' = [e \in Engines |->
       CASE e \in thrown -> Row("transport_error", FALSE, 1)
         [] late /\ e = eligible[n + 1] -> Row("timeout", FALSE, 0)
         [] late /\ e \in FirstOf(eligible, Len(eligible)) \ FirstOf(eligible, n + 1) ->
              Row("cancelled", FALSE, 0)
         [] OTHER -> None]

Search ==
  /\ call = "idle"
  /\ ~caller
  /\ call' = "waiting"
  /\ \E scope \in Scopes :
       LET eligible == EligibleOf(Selected(scope)) IN
       /\ scoped' = Selected(scope)
       /\ \E n \in 0..Len(eligible) :
          \E thrown \in SUBSET {e \in FirstOf(eligible, n) : Is(e, "foreign")} :
            StartEngines(eligible, n, thrown)
  /\ UNCHANGED <<caller, reply>>

-----------------------------------------------------------------------------
(* The run of an engine *)

\* The race of runEngineSafely takes what settles first.
Settle(e, outcome, content, requests) ==
  IF row[e] = None THEN [row EXCEPT ![e] = Row(outcome, content, requests)] ELSE row

WantsRetry(e, answer) ==
  Retryable(answer) /\ work[e].tries < Profile[e].retries

\* A fallback goes on after a failure, a chain after a page.
MovesOn(e, answer) ==
  /\ ~WantsRetry(e, answer)
  /\ work[e].step < Profile[e].steps
  /\ IF Is(e, "chain") THEN answer \in Pages ELSE ~HasRecords(answer)

\* The request of an engine ends. Once the controller is aborted it can only
\* be rejected, which fetchAttempt calls a timeout, whoever aborted it.
Answered(e, answer) ==
  /\ work[e].st = "asking"
  /\ ~Is(e, "foreign")
  /\ answer \in IF aborted THEN {"timeout"} ELSE Answers(e)
  /\ expired' = IF answer = "timeout" /\ ~aborted THEN expired \cup {e} ELSE expired
  /\ UNCHANGED <<call, scoped, caller, aborted, reply>>

Pause(e, answer) ==
  /\ Answered(e, answer)
  /\ WantsRetry(e, answer)
  /\ work' = [work EXCEPT ![e].st = "pause", ![e].tries = @ + 1]
  /\ UNCHANGED row

NextStep(w) == [w EXCEPT !.step = @ + 1, !.tries = 0]

NextAddress(e, answer) ==
  /\ Answered(e, answer)
  /\ MovesOn(e, answer)
  /\ work' = [work EXCEPT ![e] = Ask(NextStep(@), aborted)]
  /\ UNCHANGED row

Finish(e, answer) ==
  /\ Answered(e, answer)
  /\ ~WantsRetry(e, answer)
  /\ ~MovesOn(e, answer)
  /\ work' = [work EXCEPT ![e].st = "over"]
  /\ row' = Settle(e, OutcomeOf(e, answer), HasRecords(answer), Reported(e, answer))

\* The pause before a retry is not cut short by an abort.
PauseEnds(e) ==
  /\ work[e].st = "pause"
  /\ work' = [work EXCEPT ![e] = Ask(@, aborted)]
  /\ UNCHANGED <<call, scoped, caller, aborted, row, expired, reply>>

\* A foreign engine resolves with a row of its own, or rejects.
ForeignSettles(e) ==
  /\ work[e].st = "asking"
  /\ Is(e, "foreign")
  /\ work' = [work EXCEPT ![e].st = "over"]
  /\ \/ \E outcome \in Outcomes \ {"cancelled"} :
          row' = Settle(e, outcome, outcome = "success_with_content", 1)
     \/ row' = Settle(e, IF aborted THEN "cancelled" ELSE "transport_error", FALSE, 1)
  /\ UNCHANGED <<call, scoped, caller, aborted, expired, reply>>

-----------------------------------------------------------------------------
(* The timers, the caller and the reply *)

\* Mutant: an engine's timer is cleared when the controller is aborted.
TimerUntilAbort(e) == ~aborted

\* The engines still being raced, which the caller's cancellation rejects.
Racing == {e \in Asked : row[e] = None}

\* The timer runs until the race is decided.
TimerRuns(e) == row[e] = None

CallerAborts ==
  /\ ~caller
  /\ call # "returned"
  /\ caller' = TRUE
  /\ IF call = "waiting"
     THEN /\ aborted' = TRUE
          /\ row' = [e \in Engines |-> IF e \in Racing
                                       THEN Row("cancelled", FALSE, 1) ELSE row[e]]
     ELSE UNCHANGED <<aborted, row>>
  /\ UNCHANGED <<call, scoped, work, expired, reply>>

SearchTimer ==
  /\ call = "waiting"
  /\ ~aborted
  /\ aborted' = TRUE
  /\ expired' = expired \cup {Deadline}
  /\ UNCHANGED <<call, scoped, caller, work, row, reply>>

EngineTimer(e) ==
  /\ call = "waiting"
  /\ e \in Racing
  /\ TimerRuns(e)
  /\ aborted' = TRUE
  /\ expired' = expired \cup {Deadline}
  /\ row' = [row EXCEPT ![e] = Row("timeout", FALSE, 0)]
  /\ UNCHANGED <<call, scoped, caller, work, reply>>

\* aggregateEmptyOutcome: the first of these that some row has.
EmptyOutcome ==
  LET has(outcome) == \E e \in Asked : row[e].outcome = outcome
  IN CASE has("timeout") -> "timeout"
       [] ~has("timeout") /\ has("http_error") -> "http_error"
       [] ~has("timeout") /\ ~has("http_error") /\ has("transport_error") ->
            "transport_error"
       [] OTHER -> "success_empty"

\* Mutant: the deadline is looked at first.
DeadlineFirst(kept) ==
  IF aborted THEN "timeout"
  ELSE IF caller THEN "cancelled"
  ELSE IF kept # {} THEN "success_with_content" ELSE EmptyOutcome

ReplyOutcome(kept) ==
  IF caller THEN "cancelled"
  ELSE IF aborted THEN "timeout"
  ELSE IF kept # {} THEN "success_with_content" ELSE EmptyOutcome

StoppedReason ==
  IF aborted THEN IF caller THEN "cancelled" ELSE "deadline"
  ELSE IF BoundedEngineCalls < Len(scoped) THEN "engine_budget" ELSE "all_engines"

\* Every race is decided. The ranking keeps some of the candidates, or none.
Return ==
  /\ call = "waiting"
  /\ Racing = {}
  /\ call' = "returned"
  /\ \E kept \in SUBSET {e \in Asked : row[e].content} :
       reply' = Reply(ReplyOutcome(kept), kept, StoppedReason)
  /\ UNCHANGED <<scoped, caller, aborted, work, row, expired>>

-----------------------------------------------------------------------------
EngineStep(e) ==
  \/ \E answer \in Pages \cup Errors :
       \/ Pause(e, answer)
       \/ NextAddress(e, answer)
       \/ Finish(e, answer)
  \/ PauseEnds(e)

Next ==
  \/ SearchCancelled
  \/ Search
  \/ CallerAborts
  \/ SearchTimer
  \/ Return
  \/ \E e \in Engines :
       \/ EngineStep(e)
       \/ ForeignSettles(e)
       \/ EngineTimer(e)

Spec == Init /\ [][Next]_vars

\* Timers fire, and a request has a timer of its own (http.js:30); a foreign
\* engine owes nothing, and nobody has to cancel.
Due == Return \/ \E e \in Engines : EngineStep(e) \/ EngineTimer(e)

FairSpec == Spec /\ WF_vars(Due)

-----------------------------------------------------------------------------
(* Properties *)

\* The types; and what each phase of the call says of the rest: rows only for
\* the engines asked, a controller aborted for a reason, a reply at the end.
TypeOK ==
  /\ call \in {"idle", "waiting", "returned"}
  /\ caller \in BOOLEAN /\ aborted \in BOOLEAN
  /\ scoped \in Seq(Engines)
  /\ work \in [Engines -> [st : {"idle", "asking", "pause", "over"}, step : 0..4,
                           tries : 0..2, attempts : 0..12, sent : 0..12]]
  /\ row \in [Engines -> RowType \cup {None}]
  /\ \A e \in Engines : row[e] # None => e \in Asked
  /\ expired \subseteq Engines \cup {Deadline}
  /\ aborted => caller \/ Deadline \in expired
  /\ (call = "returned") <=> (reply # None)

\* No request reaches a provider once the search is cancelled or late, not
\* even by a run whose retry pause or next address comes after the search has
\* replied (auto.ts:205 leaves the runs to themselves).
NoRequestAfterAbort ==
  [][aborted => \A e \in Engines : work'[e].sent = work[e].sent]_vars

\* A row says timeout only if one of the engine's timers has fired:
\* fetchAttempt calls every abort a timeout (http.js:104), and what keeps the
\* caller's cancellation from being reported so is that it wins the race.
NoFalseTimeout ==
  \A e \in Engines : row[e] # None /\ row[e].outcome = "timeout" /\ ~Is(e, "foreign")
    => expired \cap {e, Deadline} # {}

\* The requests a row reports are those that were made, retries and further
\* addresses included; an aborted run may report one that sent nothing. Dogpile
\* and the failures of the blunt providers are not counted (360.js:28).
RequestsAreCounted ==
  \A e \in Engines :
    /\ row[e] # None /\ work[e].st = "over"
    /\ row[e].outcome # "cancelled" /\ Deadline \notin expired
    /\ Is(e, "fallback") \/ Is(e, "chain")
    /\ Profile[e].blunt => row[e].outcome # "transport_error"
    => row[e].requests = work[e].sent

\* Rows say what happened: their time-outs and their requests.
RowsAreTrue == NoFalseTimeout /\ RequestsAreCounted

\* With the types and the rows it carries: the reply says cancelled exactly if the caller cancelled
\* before it, timeout only if a timer fired or an engine said so, and empty only
\* if no engine failed, whatever the order in which they ended.
ReplyIsHonest ==
  /\ TypeOK /\ RowsAreTrue
  /\ reply # None =>
       /\ (reply.outcome = "cancelled") <=> caller
       /\ reply.outcome = "timeout" =>
            expired # {} \/ \E e \in Asked : Is(e, "foreign") /\ row[e].outcome = "timeout"
       /\ reply.outcome = "success_empty" =>
            \A e \in Asked : row[e].outcome \in {"success_empty", "success_with_content"}
       /\ (reply.outcome = "success_with_content") =>
            reply.candidates # {} /\ expired \cap {Deadline} = {}

\* A search returns, also if an engine never answers, and the runs of the
\* engines that heed their signal end, also if the search no longer waits.
SearchSettles ==
  /\ call = "waiting" ~> call = "returned"
  /\ \A e \in Engines :
       ~Is(e, "foreign") /\ work[e].st = "asking" ~> work[e].st = "over"

-----------------------------------------------------------------------------
(* The inductive invariant behind NoRequestAfterAbort *)

\* The controller is aborted only once the engines are asked.
RequestsInv ==
  /\ work \in [Engines -> [st : {"idle", "asking", "pause", "over"}, step : Nat,
                           tries : Nat, attempts : Nat, sent : Nat]]
  /\ aborted \in BOOLEAN
  /\ call = "idle" => ~aborted

(* The one behind ReplyIsHonest *)

\* How far a run may be.
MayBe(e, w) ==
  /\ w.st = "idle" => w = Idle
  /\ Is(e, "foreign") =>
       w.st # "pause" /\ w.step = 0 /\ w.tries = 0 /\ w.attempts = 0 /\ w.sent = 0
  /\ w.st # "idle" /\ ~Is(e, "foreign") =>
       /\ w.step \in 1..Profile[e].steps /\ w.tries <= Profile[e].retries
       /\ w.attempts <= 3 * (w.step - 1) + w.tries + IF w.st = "pause" THEN 0 ELSE 1
       /\ w.sent <= w.attempts

\* Only what was asked for runs; until the abort every attempt has been sent.
RunInv(e) ==
  /\ MayBe(e, work[e])
  /\ work[e].st # "idle" => e \in Asked
  /\ ~aborted => work[e].sent = work[e].attempts

\* A race that neither an abort nor a deadline decided was decided by the run.
RaceInv(e) ==
  row[e] # None =>
    /\ row[e].outcome = "cancelled" => aborted
    /\ \/ Is(e, "foreign") \/ row[e].outcome = "cancelled" \/ Deadline \in expired
       \/ work[e].st = "over"

\* A cancellation decides every race at once, and so does a reply.
PhaseInv ==
  /\ Deadline \in expired => aborted
  /\ call = "idle" =>
       /\ scoped = <<>> /\ expired = {} /\ ~aborted
       /\ \A e \in Engines : work[e] = Idle /\ row[e] = None
  /\ call = "waiting" /\ caller => Racing = {}
  /\ call = "returned" => Racing = {}

SearchInv == ReplyIsHonest /\ PhaseInv /\ \A e \in Engines : RunInv(e) /\ RaceInv(e)
=============================================================================
