----------------------------- MODULE MCProviders -----------------------------
(***************************************************************************)
(* The calls an agent makes of its providers. The generic agent            *)
(* (src/app/create-generic-dependencies.ts) asks the model, it searches    *)
(* or it fetches; the policy task (src/app/run-policy-task.ts) searches in *)
(* layers. They are made one at a time, so a behaviour is that of one call *)
(* and the others stay where they begin. One more waits for what may fail: *)
(* the page of /monitor that follows a run, over RunLifecycle, which the   *)
(* run manager implements (run_manager_two).                               *)
(*                                                                         *)
(* The generic search is MCAutoSearch itself: bing and dogpile with their  *)
(* retry, 360 with its two pages and an engine that heeds nothing. The     *)
(* others are instances. A page may have moved, or name one that is        *)
(* blocked; a result is a policy, a homepage or has no URL. An answer with *)
(* events holds two, and so does the feed; a log has four, which takes two *)
(* answers: the run begins, is reported and fails, or a restart fails it.  *)
(***************************************************************************)
EXTENDS MCAutoSearch

CONSTANTS
  MaxAttemptsOptions, RetryAfters, MaxRetryAfter, RetryDelay, UseToolCall,
  Urls, Start, Blocked, MaxRedirects,
  Keys, WeakKeys, NoUrl, MaxRecords, Setups,
  RunIds, MaxRuns, PageSize, MaxRendered, MaxOpens, MaxLog, Logged

VARIABLES
  used,   \* the call that is made
  maxAttempts, attempt, phase, llmAborted, controller, headers, requests,
  events, result,
  stage, fetchAborted, target, hops, page, rendered, answer,
  setup, layer, turn, tries, signal, collected, filtered, fallback, given,
  rejected, response,
  issued, view, log, saved,
  runId, generation, polling, cursor, shown, lastRun, polls, replaced

Llm == INSTANCE LlmTransport WITH aborted <- llmAborted

Fetch == INSTANCE FetchPipeline WITH aborted <- fetchAborted

\* The official entrances once and without a hook, as createDefaultSearchTool
\* makes it; with a retry and a hook; and with neither hook nor HTML engines.
SetupOf(entrances, attempts, hook, engines) ==
  [entrances |-> entrances, attempts |-> attempts, hook |-> hook, engines |-> engines]

SetupChoices ==
  {SetupOf(3, 1, FALSE, TRUE), SetupOf(1, 2, TRUE, TRUE), SetupOf(2, 3, FALSE, FALSE)}

Fusion == INSTANCE SearchFusion WITH stage <- layer

Monitor == INSTANCE MonitorPage WITH page <- polling

ASSUME ProvidersAssumption ==
  /\ Llm!LlmTransportAssumption /\ Fetch!FetchPipelineAssumption
  /\ Fusion!SearchFusionAssumption /\ Monitor!MonitorPageAssumption

ProvidersInit ==
  /\ used \in {"complete", "search", "fetch", "layers", "page"}
  /\ Llm!Init /\ (used # "complete" => ~llmAborted /\ maxAttempts = 2)
  /\ Init /\ (used # "search" => ~caller)
  /\ Fetch!Init
  /\ Fusion!Init /\ (used # "layers" => setup.hook)
  /\ Monitor!Init

llmVars == <<maxAttempts, attempt, phase, llmAborted, controller, headers,
             requests, events, result>>
fetchVars == <<stage, fetchAborted, target, hops, page, rendered, answer>>
fusionVars == <<setup, layer, turn, tries, signal, collected, filtered, fallback,
                given, rejected, response>>
monitorVars ==
  <<issued, view, log, saved,
    runId, generation, polling, cursor, shown, lastRun, polls, replaced>>

Complete(A) ==
  used = "complete" /\ A /\ UNCHANGED <<used, vars, fetchVars, fusionVars, monitorVars>>
Searching(A) ==
  used = "search" /\ A /\ UNCHANGED <<used, llmVars, fetchVars, fusionVars, monitorVars>>
Fetching(A) ==
  used = "fetch" /\ A /\ UNCHANGED <<used, vars, llmVars, fusionVars, monitorVars>>
Layered(A) ==
  used = "layers" /\ A /\ UNCHANGED <<used, vars, llmVars, fetchVars, monitorVars>>
Watching(A) ==
  used = "page" /\ A /\ UNCHANGED <<used, vars, llmVars, fetchVars, fusionVars>>

ProvidersNext ==
  \/ Complete(Llm!Next) \/ Searching(Next) \/ Fetching(Fetch!Next)
  \/ Layered(Fusion!Next) \/ Watching(Monitor!Next)

providersVars == <<used, vars, llmVars, fetchVars, fusionVars, monitorVars>>

\* The provider that is called is as fair as its module says.
ProvidersSpec ==
  /\ ProvidersInit /\ [][ProvidersNext]_providersVars
  /\ WF_providersVars(\/ Complete(Llm!Due) \/ Searching(Due)
                      \/ Fetching(Fetch!Due) \/ Layered(Fusion!Due)
                      \/ Watching(Monitor!Due))

-----------------------------------------------------------------------------
(* Properties *)

\* A search says what happened. The generic one: every row and the outcome are
\* those of the engines that were asked (auto.ts). The layered one: all that
\* was found, once, with its finders and what was left out
\* (cloudflare-search-local.ts:331-484).
SearchesAreHonest == ReplyIsHonest /\ Fusion!ResponseIsHonest

\* The log of an LLM call is that of a loop, and the result agrees with it
\* (openai-compatible.ts:178, 258-324).
LogAgrees == Llm!LogAgrees

\* A page that is handed over has the text of the URL it says, that URL is
\* allowed, and what went wrong on the way is among its warnings
\* (local-fetch-primary.ts:519-625, browser-fetch.ts:365-480).
PageIsHonest == Fetch!PageIsHonest

\* A page read over the network is not lost because the browser fails
\* (browser-fetch.ts, the catch clause of fetchWithBrowserFallback).
StaticPageSurvives == Fetch!StaticPageSurvives

\* What is aborted has ended, whichever provider it is: no request reaches an
\* engine any more (auto.ts:205), the model is not asked again and nobody is
\* blamed (openai-compatible.ts:177, 275), nothing is rendered and the fetch is
\* not answered as a failure (create-generic-dependencies.ts), no entrance is
\* asked again (cloudflare-search-local.ts:384-394).
AbortIsTheEnd ==
  /\ NoRequestAfterAbort /\ Llm!AbortIsTheLastWord
  /\ Fetch!AbortIsTheEnd /\ Fusion!AbortIsTheEnd

\* Whichever provider is called settles, though a server may never answer.
EveryCallSettles ==
  /\ used = "complete" => Llm!Settles
  /\ SearchSettles
  /\ Fetch!EveryFetchEnds
  /\ used = "layers" => Fusion!Ends

\* What the page of a run shows is the run's, without a gap, and once it has
\* stopped it shows how the run ended (monitor-page.ts:117, 122).
MonitorIsTrue == Monitor!PageIsTrue

\* A page keeps up with its run and stops when it is over (monitor-page.ts:122).
MonitorFollows == Monitor!MonitorFollows
=============================================================================
