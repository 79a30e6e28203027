---------------------------- MODULE BrowserPool ----------------------------
(***************************************************************************)
(* ContextPermitPool and SharedBrowserManager of                           *)
(* src/fetch-fusion/browser-fetch.ts: renders that share one lazily        *)
(* launched browser, each in a context of its own, at most Limit at a      *)
(* time; close() may come at any await and the manager is used again       *)
(* afterwards.                                                             *)
(*                                                                         *)
(* A step runs from one await to the next. Playwright is external: a       *)
(* launch or newContext may fail, a browser may crash (isConnected() is    *)
(* false at once, its disconnected event comes later), everything it was   *)
(* asked to close it closes in the end. The page work between newPage()    *)
(* and title() is one phase; its text, the URL checks and the limits on    *)
(* its length are left out.                                                *)
(***************************************************************************)
EXTENDS Naturals, Sequences, FiniteSets

CONSTANTS
  Renders,    \* calls of render()
  Browsers,   \* names for launches, each used once: when all are used, launches fail
  Limit,      \* maxConcurrentContexts
  MaxQueue,   \* maxQueuedContexts
  MaxCloses,  \* bound: calls of close() that start closing
  None

BrowserPoolAssumption ==
  /\ Limit \in Nat \ {0}
  /\ MaxQueue \in Nat \ {0}
  /\ MaxCloses \in Nat
  /\ IsFiniteSet(Renders)
  /\ None \notin Renders \cup Browsers

VARIABLES
  phase,           \* the await each render is at
  on,              \* the browser a render waits for or uses
  aborted,         \* the render's signal
  permits,         \* ContextPermitPool.active
  queue,           \* ContextPermitPool.queue
  alive,           \* browser processes
  launch,          \* the promise of each launch: unused, pending, resolved, rejected
  launchGen,       \* launchGeneration of each launch
  unseen,          \* crashed browsers whose disconnected event is still to come
  browser,         \* this.browser
  browserPromise,  \* this.browserPromise
  generation,      \* this.generation
  closing          \* this.closePromise: its step and what close() captured

renderVars == <<phase, on, aborted>>
permitVars == <<permits, queue>>
launchVars == <<launch, launchGen, browser, browserPromise, generation>>
vars == <<renderVars, permitVars, launchVars, alive, unseen, closing>>

-----------------------------------------------------------------------------
Phase ==
  {"new",      \* not called yet
   "queued",   \* permits.acquire()
   "granted",  \* holds a permit
   "waiting",  \* getBrowser(), for a launch
   "got",      \* has a browser
   "opening",  \* browser.newContext()
   "page",     \* the page work in its context
   "leaving",  \* context.close() of the finally block
   "done"}

Holding == {r \in Renders : phase[r] \notin {"new", "queued", "done"}}

NotClosing == [step |-> "no", current |-> None, launching |-> None]
Closing == closing.step # "no"

Init ==
  /\ phase = [r \in Renders |-> "new"]
  /\ on = [r \in Renders |-> None]
  /\ aborted = [r \in Renders |-> FALSE]
  /\ permits = 0 /\ queue = <<>>
  /\ alive = {} /\ unseen = {}
  /\ launch = [b \in Browsers |-> "unused"]
  /\ launchGen = [b \in Browsers |-> 0]
  /\ browser = None /\ browserPromise = None /\ generation = 0
  /\ closing = NotClosing

-----------------------------------------------------------------------------
(* Permits *)

\* render() up to its first await.
Render(r) ==
  /\ phase[r] = "new"
  /\ IF Closing \/ aborted[r]
     THEN phase' = [phase EXCEPT ![r] = "done"] /\ UNCHANGED permitVars
     ELSE IF permits < Limit
     THEN /\ phase' = [phase EXCEPT ![r] = "granted"]
          /\ permits' = permits + 1
          /\ UNCHANGED queue
     ELSE IF Len(queue) >= MaxQueue
     THEN phase' = [phase EXCEPT ![r] = "done"] /\ UNCHANGED permitVars
     ELSE /\ phase' = [phase EXCEPT ![r] = "queued"]
          /\ queue' = Append(queue, r)
          /\ UNCHANGED permits
  /\ UNCHANGED <<on, aborted, launchVars, alive, unseen, closing>>

\* Mutant: a permit is given back without looking at the queue.
KeepWaiting == permits' = permits - 1 /\ UNCHANGED queue

\* release(): the permit goes to the first waiter. An aborted waiter has left
\* the queue, so dispatch() never meets one.
Release ==
  IF queue = <<>>
  THEN permits' = permits - 1 /\ UNCHANGED queue
  ELSE queue' = Tail(queue) /\ UNCHANGED permits

\* render r is over; the waiter its permit went to goes on.
Granted(r) ==
  [x \in Renders |-> IF x = r THEN "done"
                     ELSE IF queue' # queue /\ x = Head(queue) THEN "granted"
                     ELSE phase[x]]

\* The finally block of a render that has no context.
Leave(r) ==
  /\ Release
  /\ phase' = Granted(r)

\* The queue after the one place of r is spliced out.
Without(r) ==
  LET i == CHOOSE k \in 1..Len(queue) : queue[k] = r
  IN SubSeq(queue, 1, i - 1) \o SubSeq(queue, i + 1, Len(queue))

Abort(r) ==
  /\ phase[r] # "done" /\ ~aborted[r]
  /\ aborted' = [aborted EXCEPT ![r] = TRUE]
  /\ IF phase[r] = "queued"
     THEN /\ queue' = Without(r)
          /\ phase' = [phase EXCEPT ![r] = "done"]
     ELSE UNCHANGED <<queue, phase>>   \* in a the page work will fail
  /\ UNCHANGED <<on, permits, launchVars, alive, unseen, closing>>

-----------------------------------------------------------------------------
(* getBrowser() *)

Unused == {b \in Browsers : launch[b] = "unused"}

\* Mutant: getBrowser() does not look at closePromise.
AnyRender(r) == ~aborted[r]

MayGetBrowser(r) == ~aborted[r] /\ ~Closing

GetBrowser(r) ==
  /\ phase[r] = "granted"
  /\ IF ~MayGetBrowser(r) THEN Leave(r) /\ UNCHANGED <<on, launchVars>>
     ELSE IF browser \in alive
     THEN /\ phase' = [phase EXCEPT ![r] = "got"]
          /\ on' = [on EXCEPT ![r] = browser]
          /\ UNCHANGED <<permitVars, launchVars>>
     ELSE IF browserPromise # None
     THEN /\ phase' = [phase EXCEPT ![r] = "waiting"]
          /\ on' = [on EXCEPT ![r] = browserPromise]
          /\ UNCHANGED <<permitVars, launchVars>>
     ELSE IF Unused = {} THEN Leave(r) /\ UNCHANGED <<on, launchVars>>
     ELSE \E b \in Unused :
          /\ phase' = [phase EXCEPT ![r] = "waiting"]
          /\ on' = [on EXCEPT ![r] = b]
          /\ browserPromise' = b
          /\ launch' = [launch EXCEPT ![b] = "pending"]
          /\ launchGen' = [launchGen EXCEPT ![b] = generation]
          /\ UNCHANGED <<permitVars, browser, generation>>
  /\ UNCHANGED <<aborted, alive, unseen, closing>>

\* the finally of the launch
PromiseCleared(b) == IF browserPromise = b THEN None ELSE browserPromise

\* The browser is up. If close() has come since, it is closed again before
\* the launch rejects.
Launched(b) ==
  /\ launch[b] = "pending" /\ b \notin alive
  /\ alive' = alive \cup {b}
  /\ IF launchGen[b] = generation
     THEN /\ browser' = b
          /\ launch' = [launch EXCEPT ![b] = "resolved"]
          /\ browserPromise' = PromiseCleared(b)
     ELSE UNCHANGED <<browser, launch, browserPromise>>
  /\ UNCHANGED <<renderVars, permitVars, launchGen, generation, unseen, closing>>

LaunchInvalidated(b) ==
  /\ launch[b] = "pending" /\ b \in alive
  /\ alive' = alive \ {b}
  /\ launch' = [launch EXCEPT ![b] = "rejected"]
  /\ browserPromise' = PromiseCleared(b)
  /\ UNCHANGED <<renderVars, permitVars, launchGen, browser, generation, unseen, closing>>

LaunchFails(b) ==
  /\ launch[b] = "pending" /\ b \notin alive
  /\ launch' = [launch EXCEPT ![b] = "rejected"]
  /\ browserPromise' = PromiseCleared(b)
  /\ UNCHANGED <<renderVars, permitVars, launchGen, browser, generation, alive,
                 unseen, closing>>

LaunchAwaited(r) ==
  /\ phase[r] = "waiting"
  /\ launch[on[r]] # "pending"
  /\ IF launch[on[r]] = "resolved"
     THEN phase' = [phase EXCEPT ![r] = "got"] /\ UNCHANGED permitVars
     ELSE Leave(r)
  /\ UNCHANGED <<on, aborted, launchVars, alive, unseen, closing>>

Crash(b) ==
  /\ b \in alive /\ launch[b] = "resolved"
  /\ alive' = alive \ {b}
  /\ unseen' = unseen \cup {b}
  /\ UNCHANGED <<renderVars, permitVars, launchVars, closing>>

WithoutBrowser(b) == IF browser = b THEN None ELSE browser

Disconnected(b) ==
  /\ b \in unseen
  /\ unseen' = unseen \ {b}
  /\ browser' = WithoutBrowser(b)
  /\ UNCHANGED <<renderVars, permitVars, launch, launchGen, browserPromise,
                 generation, alive, closing>>

-----------------------------------------------------------------------------
(* render() in its context *)

OpenContext(r) ==
  /\ phase[r] = "got"
  /\ IF aborted[r] THEN Leave(r)
     ELSE phase' = [phase EXCEPT ![r] = "opening"] /\ UNCHANGED permitVars
  /\ UNCHANGED <<on, aborted, launchVars, alive, unseen, closing>>

\* newContext() resolves, if the browser is still there, or rejects.
ContextOpened(r, opens) ==
  /\ phase[r] = "opening"
  /\ IF opens /\ on[r] \in alive
     THEN /\ phase' = [phase EXCEPT ![r] = IF aborted[r] THEN "leaving" ELSE "page"]
          /\ UNCHANGED permitVars
     ELSE Leave(r)
  /\ UNCHANGED <<on, aborted, launchVars, alive, unseen, closing>>

\* The page work returns or throws: the finally block begins.
PageEnds(r) ==
  /\ phase[r] = "page"
  /\ phase' = [phase EXCEPT ![r] = "leaving"]
  /\ UNCHANGED <<on, aborted, permitVars, launchVars, alive, unseen, closing>>

ContextClosed(r) ==
  /\ phase[r] = "leaving"
  /\ Leave(r)
  /\ UNCHANGED <<on, aborted, launchVars, alive, unseen, closing>>

-----------------------------------------------------------------------------
(* close() *)

\* Mutant: close() does not remember a launch that is under way.
NothingLaunching == None

LaunchUnderWay == browserPromise

\* up to the first await; a call while another closes returns its promise
Close ==
  /\ ~Closing
  /\ generation < MaxCloses
  /\ phase' = [r \in Renders |-> IF phase[r] = "queued" THEN "done" ELSE phase[r]]
  /\ queue' = <<>>
  /\ generation' = generation + 1
  /\ browser' = None
  /\ browserPromise' = None
  /\ closing' = [step |-> "contexts", current |-> browser, launching |-> LaunchUnderWay]
  /\ UNCHANGED <<on, aborted, permits, launch, launchGen, alive, unseen>>

\* The contexts in use are closed first; the page work in them will fail.
CloseContexts ==
  /\ closing.step = "contexts"
  /\ closing' = [closing EXCEPT !.step = "launch"]
  /\ UNCHANGED <<renderVars, permitVars, launchVars, alive, unseen>>

LaunchSettled == closing.launching # None => launch[closing.launching] # "pending"

CloseAwaitsLaunch ==
  /\ closing.step = "launch"
  /\ LaunchSettled
  /\ closing' = [closing EXCEPT !.step = "browsers"]
  /\ UNCHANGED <<renderVars, permitVars, launchVars, alive, unseen>>

\* The browsers are closed, which their disconnected events report later, and
\* the manager may be used again.
CloseResolves ==
  /\ closing.step = "browsers"
  /\ LET targets == {closing.current, closing.launching} \cap alive
     IN alive' = alive \ targets /\ unseen' = unseen \cup targets
  /\ closing' = NotClosing
  /\ UNCHANGED <<renderVars, permitVars, launchVars>>

-----------------------------------------------------------------------------
CloseStep == CloseContexts \/ CloseAwaitsLaunch \/ CloseResolves

RenderStep(r) ==
  \/ GetBrowser(r) \/ LaunchAwaited(r)
  \/ OpenContext(r) \/ \E opens \in BOOLEAN : ContextOpened(r, opens)
  \/ PageEnds(r) \/ ContextClosed(r)

LaunchEnds(b) == Launched(b) \/ LaunchInvalidated(b) \/ LaunchFails(b)

Next ==
  \/ \E r \in Renders : Render(r) \/ Abort(r) \/ RenderStep(r)
  \/ \E b \in Browsers : LaunchEnds(b) \/ Crash(b) \/ Disconnected(b)
  \/ Close \/ CloseStep

Spec == Init /\ [][Next]_vars

\* Playwright answers what it is asked and page work has its time-outs.
FairSpec ==
  /\ Spec
  /\ WF_vars(CloseStep)
  /\ \A r \in Renders : WF_vars(RenderStep(r))
  /\ \A b \in Browsers : WF_vars(LaunchEnds(b))

-----------------------------------------------------------------------------
(* Properties *)

\* The variables have the types the source gives them; a render that has or
\* waits for a browser names it.
TypeOK ==
  /\ phase \in [Renders -> Phase]
  /\ on \in [Renders -> Browsers \cup {None}]
  /\ aborted \in [Renders -> BOOLEAN]
  /\ permits \in Nat /\ queue \in Seq(Renders)
  /\ alive \subseteq Browsers /\ unseen \subseteq Browsers
  /\ launch \in [Browsers -> {"unused", "pending", "resolved", "rejected"}]
  /\ launchGen \in [Browsers -> Nat]
  /\ browser \in Browsers \cup {None} /\ browserPromise \in Browsers \cup {None}
  /\ generation \in Nat
  /\ closing \in [step : {"no", "contexts", "launch", "browsers"},
                  current : Browsers \cup {None}, launching : Browsers \cup {None}]
  /\ \A r \in Renders :
       phase[r] \in {"waiting", "got", "opening", "page", "leaving"} => on[r] # None

\* Permits are neither lost nor made up: the counter is the number of renders
\* that hold one, within the limit, and nobody waits while one is free
\* (browser-fetch.ts:109-132). The queue holds the renders that wait.
PermitsConserved ==
  /\ permits = Cardinality(Holding)
  /\ permits <= Limit
  /\ queue # <<>> => permits = Limit
  /\ Len(queue) <= MaxQueue
  /\ {queue[i] : i \in 1..Len(queue)} = {r \in Renders : phase[r] = "queued"}

Up == alive \cup {b \in Browsers : launch[b] = "pending"}

OneBrowser == Cardinality(Up) <= 1

NoOrphan ==
  \A b \in alive : b \in {browser, browserPromise, closing.current, closing.launching}

\* However launches, crashes and close() interleave there are never two
\* browsers, and none is forgotten: it is the manager's, is being launched for
\* it, or is among those close() will close (browser-fetch.ts:217-247). The
\* permits of the renders are conserved.
BrowserIsShared == TypeOK /\ PermitsConserved /\ OneBrowser /\ NoOrphan

\* When close() resolves no browser is left, not even one whose launch was
\* under way when close() was called (browser-fetch.ts:205-210).
NoBrowserLeft ==
  [][(Closing /\ ~Closing') => alive' = {}]_vars

-----------------------------------------------------------------------------
(* The inductive invariant behind both *)

PermitsInv ==
  /\ phase \in [Renders -> Phase]
  /\ queue \in Seq(Renders)
  /\ \A i, k \in 1..Len(queue) : queue[i] = queue[k] => i = k
  /\ PermitsConserved

RendersInv ==
  /\ on \in [Renders -> Browsers \cup {None}]
  /\ aborted \in [Renders -> BOOLEAN]
  /\ \A r \in Renders :
       phase[r] \in {"waiting", "got", "opening", "page", "leaving"} => on[r] # None

\* What a reference to a launch tells of it.
RefersTo ==
  /\ browser # None => launch[browser] = "resolved"
  /\ browserPromise # None => launch[browserPromise] = "pending"
  /\ closing.current # None => launch[closing.current] = "resolved"
  /\ closing.launching # None => launch[closing.launching] # "unused"

\* A launch that is under way is of this generation and the manager's, or of an
\* earlier one and close() waits for it. While close() is under way the manager
\* has no browser, so what is up is what close() has captured.
LaunchInv ==
  /\ launch \in [Browsers -> {"unused", "pending", "resolved", "rejected"}]
  /\ launchGen \in [Browsers -> Nat]
  /\ \A b \in Browsers : launch[b] = "pending" =>
       \/ b = browserPromise /\ launchGen[b] = generation
       \/ b = closing.launching /\ launchGen[b] < generation
            /\ closing.step \in {"contexts", "launch"}
  /\ \A b \in alive : launch[b] \in {"pending", "resolved"}
  /\ \A b \in unseen : launch[b] = "resolved" /\ b \notin alive
  /\ RefersTo

OneUp == \A a, b \in Up : a = b

ClosingInv ==
  /\ closing \in [step : {"no", "contexts", "launch", "browsers"},
                  current : Browsers \cup {None}, launching : Browsers \cup {None}]
  /\ ~Closing => closing = NotClosing
  /\ Closing => browser = None /\ browserPromise = None

ManagerInv ==
  /\ alive \subseteq Browsers /\ unseen \subseteq Browsers
  /\ browser \in Browsers \cup {None} /\ browserPromise \in Browsers \cup {None}
  /\ generation \in Nat
  /\ LaunchInv
  /\ ClosingInv
  /\ OneUp /\ NoOrphan

SharedInv == PermitsInv /\ RendersInv /\ ManagerInv
=============================================================================
