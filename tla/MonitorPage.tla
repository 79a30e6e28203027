---------------------------- MODULE MonitorPage ----------------------------
(***************************************************************************)
(* One page of /monitor/:runId (the script of                              *)
(* src/adapters/http/monitor-page.ts) that follows a run of the service    *)
(* over the routes of src/adapters/http/server.ts. The service is what     *)
(* RunLifecycle says of it, crashes and restarts included.                 *)
(*                                                                         *)
(* A poll sends two requests, which are answered apart from each other,    *)
(* and may send a third for the answer. A poll whose page has gone on to   *)
(* another run, or to the same one again, is still under way: its          *)
(* generation tells.                                                       *)
(*                                                                         *)
(* Left out: the list of runs, tokens, payloads, the text of the answer,   *)
(* and all layout.                                                         *)
(***************************************************************************)
EXTENDS RunLifecycle, Functions, FiniteSetsExt

CONSTANTS
  PageSize,     \* the events route answers with so many at most: 500
  MaxRendered,  \* MAX_RENDERED_EVENTS: 500
  MaxOpens,     \* bound: runs opened, or left, in the page
  MaxLog,       \* bound: events of a run
  Logged,       \* bound: their types
  None

\* What the bounds must be.
MonitorPageAssumption ==
  {PageSize, MaxRendered, MaxOpens, MaxLog} \subseteq Nat \ {0}

VARIABLES
  runId,       \* the run of the page, None when it shows the list
  generation,
  page,        \* where poll(generation) has got to
  cursor,      \* afterSequence
  shown,       \* retainedEvents: the type of each by sequence number
  lastRun,     \* the projection rendered last
  polls,       \* the requests of the poll of each generation
  replaced     \* history: the log has lost events since the run was opened

pageVars == <<runId, generation, page, cursor, shown, lastRun, polls, replaced>>
vars == <<lifecycleVars, pageVars>>

-----------------------------------------------------------------------------
(* Data *)

Projection == [status : Active \cup Terminal, pending : BOOLEAN]

NoPoll == [runId |-> None, after |-> 0, run |-> None, events |-> None]

Asked(r, after) == [NoPoll EXCEPT !.runId = r, !.after = after]

Asking(g) == polls[g].runId # None

NoEvents == [n \in {} |-> "none"]

\* Mutant: a poll is not asked what it was for.
AnyGeneration(g) == runId # None

Expected(g) == g = generation

\* Mutant: a failed run is not over.
OverUnlessFailed(run) ==
  run.status \in Terminal \ {"failed"} /\ ~run.pending

\* Mutant: with its report a run is over.
OverWithReport(run) == ~run.pending

Over(run) == run.status \in Terminal /\ ~run.pending

-----------------------------------------------------------------------------
(* The service: its step, and what it answers *)

\* Whatever the service does; the page learns of it from answers only.
ServiceStep ==
  /\ LifecycleNext
  /\ \A r \in RunIds : Len(log'[r]) <= MaxLog /\ Range(log'[r]) \subseteq Logged
  /\ replaced' = (replaced \/ (runId # None /\ ~Prefix(log[runId], log'[runId])))
  /\ UNCHANGED <<runId, generation, page, cursor, shown, lastRun, polls>>

Found(g) == Asking(g) /\ view[polls[g].runId] # "absent"

\* GET /v1/research/:runId
RunAnswered(g) ==
  /\ Found(g)
  /\ polls[g].run = None
  /\ polls' = [polls EXCEPT ![g].run =
       [status |-> view[polls[g].runId], pending |-> ReportPending(log[polls[g].runId])]]
  /\ UNCHANGED <<lifecycleVars, runId, generation, page, cursor, shown, lastRun, replaced>>

\* The oldest events after the cursor, so many as a page holds.
Batch(events, after) ==
  [n \in {m \in DOMAIN events : after < m /\ m <= after + PageSize} |-> events[n]]

\* GET /v1/research/:runId/events?afterSequence=
EventsAnswered(g) ==
  /\ Found(g)
  /\ polls[g].events = None
  /\ polls' = [polls EXCEPT ![g].events = Batch(log[polls[g].runId], polls[g].after)]
  /\ UNCHANGED <<lifecycleVars, runId, generation, page, cursor, shown, lastRun, replaced>>

-----------------------------------------------------------------------------
(* The page *)

\* connect(): the list, a run, or the same run again. What was under way stays
\* so, the timer is cleared.
Connect(r) ==
  /\ generation < MaxOpens
  /\ generation' = generation + 1
  /\ runId' = r
  /\ cursor' = 0 /\ shown' = NoEvents /\ lastRun' = None /\ replaced' = FALSE
  /\ IF r = None
     THEN page' = "list" /\ UNCHANGED polls
     ELSE page' = "asking" /\ polls' = [polls EXCEPT ![generation'] = Asked(r, 0)]
  /\ UNCHANGED lifecycleVars

\* poll(generation), from the timer or from the retry button
Poll ==
  /\ page' = "asking"
  /\ polls' = [polls EXCEPT ![generation] = Asked(runId, cursor)]
  /\ UNCHANGED <<lifecycleVars, runId, generation, cursor, shown, lastRun, replaced>>

TimerFires == page = "waiting" /\ Poll
Retry == page = "failed" /\ Poll

\* mergeEvents(): an incoming event replaces the one of its number, the newest
\* are kept.
Newest(events) ==
  Restrict(events, {n \in DOMAIN events :
    Cardinality({m \in DOMAIN events : m > n}) < MaxRendered})

Merged(events) ==
  Newest([n \in DOMAIN events \cup DOMAIN shown |->
            IF n \in DOMAIN events THEN events[n] ELSE shown[n]])

\* Both answers are there, and the third if one was asked for: the page shows
\* them and polls again until the run is over with its report.
Applied(g) ==
  /\ polls[g].run # None /\ polls[g].events # None
  /\ polls' = [polls EXCEPT ![g] = NoPoll]
  /\ IF Expected(g)
     THEN /\ lastRun' = polls[g].run
          /\ shown' = Merged(polls[g].events)
          /\ cursor' = Max(DOMAIN polls[g].events \cup {cursor})
          /\ page' = IF Over(polls[g].run) THEN "finished" ELSE "waiting"
     ELSE UNCHANGED <<lastRun, shown, cursor, page>>
  /\ UNCHANGED <<lifecycleVars, runId, generation, replaced>>

\* A request of the poll is lost or refused, by a 404 for one: the catch clause.
PollFails(g) ==
  /\ Asking(g)
  /\ polls' = [polls EXCEPT ![g] = NoPoll]
  /\ page' = IF Expected(g) THEN "failed" ELSE page
  /\ UNCHANGED <<lifecycleVars, runId, generation, cursor, shown, lastRun, replaced>>

NotFound(g) == ~Found(g) /\ PollFails(g)

-----------------------------------------------------------------------------
Init ==
  /\ LifecycleInit
  /\ runId = None /\ generation = 0 /\ page = "list"
  /\ cursor = 0 /\ shown = NoEvents /\ lastRun = None
  /\ polls = [g \in 1..MaxOpens |-> NoPoll]
  /\ replaced = FALSE

\* What the page waits for: an answer to each request, and its timer.
Due ==
  \/ TimerFires
  \/ \E g \in 1..MaxOpens :
       RunAnswered(g) \/ EventsAnswered(g) \/ Applied(g) \/ NotFound(g)

Next ==
  \/ ServiceStep
  \/ \E r \in RunIds \cup {None} : Connect(r)
  \/ Retry
  \/ \E g \in 1..MaxOpens : PollFails(g)
  \/ Due

Spec == Init /\ [][Next]_vars

\* Requests are answered, refused or lost, and timers fire; nobody has to open
\* a run or to retry, and the service owes the page nothing.
FairSpec == Spec /\ WF_vars(Due)

-----------------------------------------------------------------------------
(* Properties *)

TypeOK ==
  /\ runId \in RunIds \cup {None} /\ generation \in 0..MaxOpens
  /\ page \in {"list", "asking", "waiting", "failed", "finished"}
  /\ (page = "list") <=> (runId = None)
  /\ cursor \in 0..MaxLog
  /\ lastRun \in Projection \cup {None}
  /\ \A g \in 1..MaxOpens : polls[g].run \in Projection \cup {None}

Open == runId # None

\* The events shown are the newest up to the cursor, without a gap; and they
\* are those of the run, unless a restart has taken events back
\* (monitor-page.ts:117, 122: answers that come late or for another opening).
EventsAreTrue ==
  /\ DOMAIN shown = {n \in 1..cursor : n > cursor - MaxRendered}
  /\ Open /\ ~replaced => \A n \in DOMAIN shown :
       n <= Len(log[runId]) /\ shown[n] = log[runId][n]

\* A page that has stopped shows how its run ended, and nothing is left to
\* come: no event follows, the report is there or given up
\* (monitor-page.ts:122, keepPolling).
FinishedIsFinal ==
  page = "finished" /\ ~replaced =>
    /\ lastRun.status = view[runId]
    /\ ~ReportPending(log[runId])
    /\ log[runId][Len(log[runId])] = TerminalEvent(lastRun.status)

\* With the types: what the page shows is true of its run, the more so when it
\* shows it for good.
PageIsTrue == TypeOK /\ EventsAreTrue /\ FinishedIsFinal

Stopped == page \in {"list", "failed", "finished"}

RunIsOver == Open /\ view[runId] \in Terminal /\ ~ReportPending(log[runId])

\* A page catches up with its run again and again while it polls, and it stops
\* polling if the run is over with its report (README.md, "refreshes while
\* active").
MonitorFollows ==
  /\ []<>(Stopped \/ replaced \/ cursor = Len(log[runId]))
  /\ []<>(Stopped \/ ~RunIsOver)

\* The test "monitor retains only the newest 500 event nodes": what a page that
\* has stopped shows is the end of the log (monitor-page.ts:122, server.ts:172).
NewestAreShown ==
  page = "finished" /\ ~replaced => Len(log[runId]) \in DOMAIN shown

-----------------------------------------------------------------------------
(* The inductive invariant behind PageIsTrue *)

EventNames ==
  {"run.queued", "run.started", "run.cancellation_requested"} \cup AgentEvents
    \cup ReportEvents \cup {TerminalEvent(outcome) : outcome \in Terminal}

EndsWith(events, outcome) ==
  events # <<>> /\ events[Len(events)] = TerminalEvent(outcome)

\* What the page may count on: a run that is over, or stored as such, has a log
\* that says so, and its id is not handed out again.
ServiceInv ==
  /\ log \in [RunIds -> Seq(EventNames)]
  /\ view \in [RunIds -> Active \cup Terminal \cup {"absent"}]
  /\ saved \in [RunIds -> [log : Seq(EventNames), outcome : Terminal \cup {"open"}]]
  /\ \A r \in RunIds :
       /\ Len(log[r]) <= MaxLog
       /\ view[r] # "absent" \/ log[r] # <<>> \/ saved[r].log # <<>> => r \in issued
       /\ view[r] \in Terminal => EndsWith(log[r], view[r])
       /\ saved[r].outcome # "open" => EndsWith(saved[r].log, saved[r].outcome)

\* An answer that says the run is over is true for as long as its log is kept.
StillSo(run) ==
  run.status \in Terminal => /\ view[runId] = run.status
                             /\ run.pending <=> ReportPending(log[runId])

\* The poll of this opening: it asks for what follows the cursor.
PollInv ==
  /\ generation = 0 => page = "list"
  /\ page = "asking" <=> generation # 0 /\ Asking(generation)
  /\ \A g \in 1..MaxOpens :
       /\ g > generation => ~Asking(g)
       /\ polls[g].run # None => Asking(g)
  /\ page = "asking" =>
       LET p == polls[generation] IN
       /\ p.runId = runId /\ p.after = cursor
       /\ p.run # None /\ ~replaced => StillSo(p.run)
       /\ p.events # None =>
            /\ \E last \in cursor..MaxLog : DOMAIN p.events = (cursor + 1)..last
            /\ ~replaced => \A n \in DOMAIN p.events :
                 n <= Len(log[runId]) /\ p.events[n] = log[runId][n]

EventPages == UNION {[S -> EventNames] : S \in SUBSET (1..MaxLog)}

PollType == [runId : RunIds \cup {None}, after : 0..MaxLog,
             run : Projection \cup {None}, events : EventPages \cup {None}]

MonitorInv ==
  /\ ServiceInv /\ TypeOK /\ EventsAreTrue /\ PollInv
  /\ polls \in [1..MaxOpens -> PollType]
  /\ page = "finished" => Over(lastRun) /\ (~replaced => StillSo(lastRun))
=============================================================================
