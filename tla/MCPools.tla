------------------------------- MODULE MCPools -------------------------------
(***************************************************************************)
(* The two pools under the fetches: the extraction workers and the shared  *)
(* browser. A fetch is in one of them at a time and they share nothing, so *)
(* a behaviour is that of one pool and the other stays where it begins.    *)
(*                                                                         *)
(* Four jobs for two workers and a queue of one; three renders of which    *)
(* one may hold the permit, with two launches and a close(). The renders   *)
(* go by the names of jobs, so that one formula says of a name that what   *)
(* was called ends.                                                        *)
(***************************************************************************)
EXTENDS ExtractionPool

CONSTANTS Renders, Browsers, Limit, MaxWaiting, MaxCloses

VARIABLES
  used,   \* the pool that is used
  phase, on, aborted, permits, waiting, alive, launch, launchGen, unseen,
  browser, browserPromise, generation, closing

Browser == INSTANCE BrowserPool WITH queue <- waiting, MaxQueue <- MaxWaiting

ASSUME PoolsAssumption == Browser!BrowserPoolAssumption /\ Renders \subseteq Jobs

browserVars ==
  <<phase, on, aborted, permits, waiting, alive, launch, launchGen, unseen,
    browser, browserPromise, generation, closing>>

poolsVars == <<used, vars, browserVars>>

PoolsInit == used \in {"workers", "browser"} /\ Init /\ Browser!Init

Extracting(A) == used = "workers" /\ A /\ UNCHANGED <<used, browserVars>>
Rendering(A) == used = "browser" /\ A /\ UNCHANGED <<used, vars>>

\* Each pool is as fair as its module says.
PoolsSpec ==
  /\ PoolsInit /\ [][Extracting(Next) \/ Rendering(Browser!Next)]_poolsVars
  /\ WF_poolsVars(Extracting(DispatchStep) \/ Rendering(Browser!CloseStep))
  /\ WF_poolsVars(Extracting(CloseResolves))
  /\ \A w \in Workers :
       /\ WF_poolsVars(Extracting(Answers(w)))
       /\ WF_poolsVars(Extracting(Terminated(w)))
  /\ \A r \in Renders : WF_poolsVars(Rendering(Browser!RenderStep(r)))
  /\ \A b \in Browsers : WF_poolsVars(Rendering(Browser!LaunchEnds(b)))

-----------------------------------------------------------------------------
(* Properties of the browser pool; those of the workers have their names. *)

\* No permit is lost or made up (browser-fetch.ts:109-132), there is one browser
\* at a time, and none is forgotten (browser-fetch.ts:217-247).
BrowserIsShared == Browser!BrowserIsShared

\* close() resolves with no browser left (browser-fetch.ts:205-210).
NoBrowserLeft == Browser!NoBrowserLeft

Called(c) == job[c] # "new" \/ (c \in Renders /\ phase[c] # "new")
Ended(c) == job[c] = "settled" \/ (c \in Renders /\ phase[c] = "done")

\* Every job and every render that was called settles, with no timer or signal
\* to end it: no permit, launch, worker or wake-up is waited for in vain. Every
\* close() of the browser resolves.
EveryUseEnds ==
  /\ \A c \in Jobs : Called(c) ~> Ended(c)
  /\ Browser!Closing ~> ~Browser!Closing
=============================================================================
