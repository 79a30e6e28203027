# TLA+ models of Nano-researcher

Nano-researcher is a TypeScript service that runs research tasks: a language
model decides, round by round, what to search and fetch; the program executes
that, keeps the pages as evidence, checks that the model's conclusions rest on
them, and serves the runs over HTTP and MCP. Around it stand a container agent
that exchanges messages with a host through two SQLite files, and a policy task
that keeps an evidence workspace on disk.

This directory holds models of the parts where order, failure and concurrency
decide whether the program is right, TLC configurations for them, and proofs of
their main safety properties. `PROJECT.json` lists every run, the source lines
behind every definition, the hazards the properties are for, the divergences
found, and the theorems. Source paths below are relative to `src/src/`.

## 1. Inventory

| Component | State it keeps | Operations | What is hard about it |
|---|---|---|---|
| Run manager (`app/run-manager.ts`, `app/research-deadline.ts`, `adapters/http/start.ts`) | map of runs, settling set, per-run persistence chain, `run.json` | start, cancel, execute, settle, persist, hydrate | cancellation at every await, fire-and-forget writes, failing writes, crash and restart, the cap |
| Agent loop (`agent/agent-loop.ts`, `action-executor.ts`, `decision-protocol.ts`) | decisions, pages, counters of calls, rounds and recoveries | model call, refusal, batch of searches or fetches, finish | late model answers, aborts in the middle of a batch, three limits that interact |
| HTML extraction pool (`fetch-fusion/local-fetch-primary.ts`) | slots, queue, jobs | extract, answer, worker error and exit, retire, close | lost wake-ups, stale answers, workers being terminated |
| Browser manager (`fetch-fusion/browser-fetch.ts`) | permits, queue, browser, launch promise, generation | render, launch, crash, close | close racing a launch, old events, leaked permits |
| LLM transport (`llm/openai-compatible.ts`) | one call's attempt | attempt, time out, wait, retry, abort | timeout against abort against late success |
| Auto search (`search/auto/auto.ts`, `engine-runner.ts`) | one search's engines | run engines, deadline, merge | one controller for two reasons to stop |
| Layered search (`search-fusion/cloudflare-search-local.ts`) | one search's results and figures | entrances with retries, hook, HTML engines, merge | failures and aborts between the layers, figures that must add up |
| Fetch pipeline (`fetch-fusion/`, `app/create-generic-dependencies.ts`) | one fetch's page | hook, redirects, extraction, browser, classification | five stages that may each fail, an abort seen in eight places |
| Decision parsing (`runtime/ask-real-claude.ts`, `decision-protocol.ts`) | none | find JSON, strict parser, legacy normalisation, admission | three parsers, chosen by the presence of a key; nine arrays of actions |
| Evidence log (`evidence/file-store.ts`) | chain of appends | append, flush | one failure poisons the chain |
| HTTP service, MCP (`adapters/`) | none of their own | requests on the run manager | start-up before hydration |
| Monitor page (`adapters/http/monitor-page.ts`) | the run shown, its events, cursor, generation | open, poll, merge, stop | late answers of an earlier opening, paging while the log grows, restarts of the service |
| Container poll loop (`nanoclaw-core/poll-loop.ts`, `session-state.ts`) | acks, continuation, the query under way | poll, claim, push, finish | two polls at once, a crash after a claim |
| Claude provider (`nanoclaw-core/claude-provider.ts`) | one query's input stream, abort flag | push, end, events, rotate a transcript | an SDK outside the repository decides what comes when |
| Delivery (`runtime/delivery.ts`, `session-db.ts`, `session-manager.ts`) | in-flight set, attempts, `delivered` table | drain a session, deliver, mark, give up | two timers on one queue, a crash before the mark |
| Evidence workspace (`workspace/`) | `index.json`, one file per document, relations among duplicates | save, read, group | read-modify-write around awaits, several processes, a crash between two files |
| Live audit (`app/run-live-audit.ts`, `app/live-audit-runtime.ts`) | the primary error, the run's signal, `run-summary.json` | connect, preflight, audit, run timer, close | the audit goes on after its timer has won |
| Policy task and local session loop (`app/run-policy-task.ts`, `runtime/local-session-loop.ts`) | the audit's state, an iteration's copies of it | turns, searches and fetches, termination, summary | failure of one step of several, a signal looked at between awaits |
| Bridge (`runtime/nanoclaw-bridge.ts`, `ask-real-claude.ts`, `reliability.ts`) | one call's attempt, model and signal | ask, time out, retry, fall back | timeout against settle, retries after an abort |
| Parsers and ranking, routing, domain resolver, judgment engine, policy scanner, writers | none that outlives a call | functions on text | nothing concurrent |

How they interact: the HTTP service and the MCP adapter call the run manager;
the run manager calls `runResearchAgent` with an abort signal and persists its
events; the loop calls the LLM transport, the search service and the fetch
service; the fetch service uses the extraction pool and the browser manager,
which every run of the process shares. The container poll loop and the delivery
share nothing but the two database files of a session. A live audit is a process
of its own: it runs the policy loop, which asks the model through the bridge,
calls the search tools and saves each page to the workspace, a directory that
any number of such processes share.

Correctness of each, in a sentence: a run ends once, as its client was told,
and a restart shows the same; a completed run has the evidence it had to have
and the limits hold over all its rounds; no job, permit, worker or browser is
lost or leaked; a message reaches the agent, and its answer the user, whatever
crashes; the workspace never names a document it does not have, and an audit
called complete rests on documents it has.

## 2. Modules

Each component has one module; `MC…` modules only hold the constants of the
model-checking instances; `…Proofs` modules hold theorems and their proofs.
The source lines of every definition are in `PROJECT.json` under `map`.

### RunManager, RunLifecycle

`RunManager` is `app/run-manager.ts` with the deadline of
`app/research-deadline.ts`. `runs` is the map, `exec` the one execution a run
has (which await it stands at, the abort signal, the outcome decided so far),
`queue` the chain of writes in `persistence`, `disk` what `run.json` holds,
`service` whether the process is down, hydrating or serving. Between two awaits
JavaScript runs without interruption, so each action is what happens from one
await to the next: `Start` with its pruning, `Cancel`, `AgentReturns`,
`Flushed`, `Reported`, the two kinds of write, and `SettleWritten`. `Crash`
drops everything but `disk`; `Restart` and the `Hydrate…` actions are
`hydrate()`, one run at a time. Payloads are left out; events keep their type,
because the order of the log is what clients page through.

`RunLifecycle` is what a client may rely on: a run is accepted, its
cancellation is requested, it ends once, after its report, with an event that
says how, and a restart shows what was saved and ends what had not ended. `view`
and `log` are what the routes show, `saved` what a restart will find: a part of
the log, or all of it with the outcome. The property `LifecycleSpec` says that
`RunManager` implements it, logs included, a run counting as ended once its
outcome is shown.

### MonitorPage

The script of `/monitor/:runId` over `RunLifecycle`, so that what the page meets
is what the run manager was shown to do, restarts included. A poll is two
requests, answered apart by a service that may have gone on between them, and a
third that only delays the two being applied. `polls` holds the polls under way, one
for each `generation`: after the page has gone on to another run, or to the same
one again, the answers to the earlier opening still come. `shown` are the events
in the feed, `cursor` the last one fetched, `lastRun` the status, `replaced` (history) that
a restart has taken events back.

### AgentLoop, AgentContract

`AgentLoop` is `runResearchAgent` with the action executor and the rules of
completion. A turn is one decision of the model; `Execute` begins its batch,
and the batch settles only when every action of it has (`Promise.allSettled`).
`Abort` may happen at any moment and each continuation looks at the signal where
the code does. Pages, citations and findings are members of small sets;
`Canonical` is what `canonicalizeUrl` makes of a URL, so that two spellings of
one page are told apart, and a page may end at another URL than the one asked
for. The pages of a batch are written to the evidence store before the state takes
them, and each write may fail for itself; a failure is reported as `evidence.write_error`
and the page kept. `stored` and `reported` (histories) are the pages written and those
whose failure was reported. The store is optional in the code; the run manager gives
every run one, and so does the model. `FileEvidenceStore`, where one failed write makes
all later ones fail, is a case of it. The report's `answerStatus` is computed as `generic-report.ts` does, apart
from the loop's own rule. `AgentContract` is what the run manager needs of the
loop: one outcome, never taken back, not `completed` once the abort was seen.

### ExtractionPool

`LocalHtmlExtractionPool`: `queue`, the slots with their job and whether they
are retiring, the workers the factory made, the answers on their way, and what
each call of `extract` returned. Timer and abort listener are one action each
for a queued and for an active job; a worker may answer, fail or exit at any
time, `postMessage` and the factory may throw, and `terminate()` resolves later.
`posted` are the messages a worker has still to answer, so an answer may be read
after its job was given up. `dispatch()` is its iterations, between which no event is
handled (`dispatching`).

### BrowserPool

`SharedBrowserManager` with its permits: the queue of waiters, `this.browser`,
`this.browserPromise`, `this.generation`, the launches in flight, and for each render
which await it stands at. `Crash` of a browser and its `disconnected` event are
two actions; `close()` is its awaits in order.

### LlmTransport

`OpenAiCompatibleProvider.complete`: the attempt with its controller, its timer
and the caller's abort; a failure is classified, logged and retried, or thrown.
The server may answer with any status, any body or not at all. The log is part
of the state, because tests and the README speak of it. `BoundedInteger` is the
code's own treatment of its options, `NaN` and negative numbers included.

### SearchFusion

`searchWithCloudflareLocal`, the search of the policy task: `stage` is the await
(an entrance, the pause before its next attempt, the hook, an HTML engine),
`collected` the records with the layer each came from; a result has its attempts at
the places of those records. A record is the key it is
merged by; whether it looks like a mere homepage goes with the key. `given` and
`rejected` are kept for the properties. Scores, grades and the order of results
are left out.

### FetchPipeline

One fetch of the generic provider: the hook `globalThis.WebFetch`, the redirects
with the check of every hop, the static extraction, the decision for the
browser, its rendering and the extraction of what it rendered, and the
classification of the page. Of a text the kinds are kept that the two tests on it
tell apart (`Weak`, `NeedsBrowser`, which are not the same), and the URL it comes
from. Extraction and browser are calls that answer or fail, as the two
pools are shown to.

### DecisionParsing, Answers

`Answers` has the form of a model's answer: what its decision and status may say, the
fields the parsers look at and the containers of actions, of which the output contract
has two. What stands in a container is a parameter: any items whose fields are absent
or of their type. `DecisionParsing` is
`parseModelDecision`: the strict parser, the legacy normalisation with the arrays it
gathers actions from and what it takes an item for, the choice between them by the presence of a
key, and the admission of what came out by the session loop. It is a function of
the answer, cut into the two steps `askRealClaudeDecision` and the loop make of it.

### AutoSearch

`AutoSearchProvider.search` over its engines, with what lies beneath an engine:
the addresses of a provider, the attempts and pauses of `http.js`, the pages of
`session.js`, and the classification of the last answer. `work` is how far an
engine's run is, `row` what its race was decided with, `expired` which timers
have fired. A race that is decided does not end the run, so requests, pauses and
further addresses go on as steps of their own after the reply. `Profile` gives
each engine the discipline of its provider; a foreign engine is any `AutoEngine`
that ignores its signal, as in `auto.test.ts`.

### SessionDelivery

`runtime/delivery.ts` with the tables of `session-db.ts` and the attachments of
`session-manager.ts`. A chain is one `setTimeout` loop. A chain gives way while
the adapter or a handler runs, and while it sleeps. `batch` are the places in
`messages_out` of the rows it has still to deliver, taken from the lowest up. `mark` is the `delivered`
table and survives a crash; `attempts`, `inflight` and `adapter` do not. Each
database call and each call of the adapter may throw; `MaxTroubles` bounds these
faults, the crashes and the stops together.

### PollLoop

`runPollLoop` and `processQuery` of the container, with the acknowledgements and
the continuation in the session's database, the concurrent follow-up poll, and
the stream of events of the agent. Rows and batches are sets, because their order
shows only in the prompts. `given` counts how often a row was put to the
agent; `forgotten` are the conversations from before a `/clear`. `legacy` and
`disk` are the two keys a continuation may lie under: the start reads and drops the
first and writes the second, with a moment between them for a crash. A compaction by
the SDK (`Compacts`) reaches the loop as a `result` event like any other. A follow-up poll
may throw before or after its push (`FollowFails`), and what it claimed stays claimed until
the host kills the container. The host
wakes a container when a row is due and kills one whose claims are old.

### EvidenceStore, NanoclawBridge, LiveAudit

`EvidenceStore` is `saveEvidenceRecord` as any number of processes call it at the
same time: `files` and `index` are the disk, `saving` how far each saver's save is.
`ReadIndex` reads the index and computes the new one, as the code does before its
first write; `WriteFile` and `WriteIndex` are the two renames of `atomic-json.ts`,
and `FailSave` may come before either. The identity of a page and its rank are
constants (`DocOf`, `SourceRank`); `Alike` holds the pairs that `chooseMatchRule`
matches, which need not be transitive. `finished` and `overlapped` are kept only
for the properties.

`NanoclawBridge` is `callNanoclawModel` with `withTimeout`: three attempts for each
of two models, of which the headers are raced against the timer and the signal
and the body is not.

`LiveAudit` extends both with `main`, the preflight, the run's timer, the policy
loop and one iteration of `runOneSessionIteration`. `op` is the await the audit
stands at. `state` is `fullAuditState` and `work` the copies an iteration changes,
so that an iteration that throws leaves nothing. `main` and the audit are told
apart because the timer lets `main` go on without it. A model's decision, a tool's
result and a page are chosen freely; `Kill` ends the process anywhere.

### Compositions

`MCProviders` puts the calls an agent makes side by side: the model (`LlmTransport`),
the generic search (`AutoSearch`), the layered search (`SearchFusion`), the fetch
(`FetchPipeline`), and the page (`MonitorPage`). `MCPools` does so with the two pools
under a fetch, `MCDecisions` with the two places that take a model's decision (`AgentLoop`,
`DecisionParsing`). They share no variable, so a behaviour is that of one part and
the others stay where they begin; what is gained are properties of all of them at
once, as that nothing goes on after an abort (`AbortIsTheEnd`) and that every call
settles (`EveryCallSettles`, `EveryUseEnds`).

Otherwise the components meet through what they promise each other rather than
through one product of all state spaces: the run manager uses the agent loop as
`AgentContract` describes it, the loop uses search and fetch as calls that
answer or fail, which `EveryCallSettles` shows them to do, and they use the pools
likewise (`EveryUseEnds`); the page sees `RunLifecycle`. Delivery and poll
loop share two tables with one writer each.

## 3. Runs

Every property and what would violate it is described in its module.

| Run | Instance | Shows |
|---|---|---|
| `run_manager_one` | 1 run, 1 agent event, 2 crashes | cancellation, outcome, log, report and disk agree through every interleaving of execution, writes and restarts; the run settles |
| `run_manager_two` | 2 runs, cap 1, 1 crash | pruning never hides work; the service implements `RunLifecycle`, its cap included |
| `agent_loop_retry` | 5 rounds, 1 query, 1 URL, 3 kinds of task | limits on repeated actions and model calls, `AgentContract`, every run returns |
| `decisions` | agent: 3 spellings of 2 pages, 2 findings, 5 tasks, of two rounds or of one round of up to two requests; policy task: answers with up to 2 containers of actions | every page of a run was written or its loss reported, a completed run has its evidence, and the report agrees; nothing is run that the model did not ask for, and an answer in the contract's form comes out unchanged |
| `pools` | 4 jobs, 3 worker names, size 2, queue 1; 3 renders, 2 browsers, limit 1, queue 2, 1 close | no job, wake-up, answer or worker is lost; permits conserved, one browser, none leaked; all calls settle |
| `providers` | model: up to 3 attempts; search: 4 providers, budget 2, 4 scopes; layers: up to 3 entrances and 3 attempts, 2 records an answer; fetch: 3 URLs, 2 redirects; page: 1 run opened twice, 4 events, 2 to an answer | what each reports is what happened, nothing goes on after an abort, every call settles; the page is true and follows its run |
| `delivery` | 2 polls, 2 messages of a session, 3 faults, crashes or stops | one drain per session, duplicates bounded by the troubles, nothing given up early, every row decided |
| `poll_loop` | chat, task, `/clear`, silent row; 2 crashes or throws | one holder of a claim, a cleared conversation stays forgotten, completion is final, every row is completed |
| `live_audit` | 2 turns, 3 pages of 3 documents of which the middle one matches both others, another process that saves once | workspace, summary and abort through every interleaving, failure and kill; main and the audit end |
| `poll_loop_pushed`, `decisions_unknown`, `monitor_newest` | small ones of the same modules | the divergences below |

Some properties are conjunctions of parts that are named and described next to
them: `LogIsSound`, `LimitsHold`, `CompletedIsEvidenced`, `CapacityIsUsed`, `BrowserIsShared`, `LogAgrees`,
`SearchesAreHonest`, `MonitorIsTrue`, `NothingGivenUpEarly`, `SummaryIsHonest`, and in the
compositions `AbortIsTheEnd`, `EveryCallSettles` and `EveryUseEnds`. The type invariant
of a module is a part of one of them (`LogIsSound` of `RunManager`,
`CompletedIsAnswered` of `AgentLoop`, `CapacityIsUsed`, `BrowserIsShared`, `LogAgrees`,
`SearchesAreHonest`, `PageIsHonest`, `MonitorIsTrue`, `OneDrainPerSession`, `OneHolder`,
`SummaryIsHonest`; `WorkspaceIsSound` has that of the store).

The bounds are the smallest at which the interesting cases meet. For the run
manager, a second run matters only for pruning and the cap (the other
properties speak of one run at a time), and a second crash finds the process
inside `hydrate()`. For the extraction pool, one job more than slots and queue
together makes rejection, queueing and hand-over happen at once, and one worker
name more than the size lets a replacement live beside a retiring worker. For
the browser, one permit suffices for two renders to meet at one launch, because
a render that is aborted leaves while its launch goes on; the second browser is
the one after a crash. Two contexts open at once are beyond this instance. For
the transport, three attempts have a first, a middle and a last one. For the
search, two engines at a time are enough for one of them to abort the controller
of the other, and the four are one of each discipline. For the layers, an entrance
after the one that fails is where a search must not go on, a third attempt has a pause before and
after it, and two records with one homepage are enough to be merged, dropped and told from a strong one. For the
fetch, the second redirect is one more than the first hop's check, and the three URLs are an
allowed target, where it moved, and a blocked one. For the page, one run suffices,
because opening it again leaves the same polls behind as going on to another; four
events are the shortest log of a run that ended, and two to an answer make it page. For
the parser, two containers meet as twins and in every pair. For the delivery, two messages of one session make order matter, the other session shows
that a poll cut short does not lock it, and three faults exhaust the attempts of
a message. For the poll loop, the rows are a chat, a task,
a `/clear` and a silent row. Any other slash command, which ends an open query and
waits for the next batch, is not in the instance: that kind (`"command"`) is covered by
the theorems only, for every row. More conversations (`MaxIds`) are allowed than are ever opened. For
the audit, a second turn is the one an earlier failure must still weigh on, and
three documents in a chain with two clock readings are the smallest workspace in
which a rewrite of relations leaves an old chain behind; two savers suffice for an
index to be overwritten.
Decisions of an unknown kind, which may search and fetch in
one turn (`OtherKinds`), are not in its instance; the theorems about the audit hold with
any of them.
Bounds on crashes, faults and closes sit in the guards of the actions of the
environment and never stop the program's own steps. `CHECK_DEADLOCK FALSE` is
set where a run, a call or a queue really ends and nothing more has to happen.

### Divergences

Three runs check what a comment, a test or a document of the repository says and
the code does not do; `PROJECT.json` quotes them under `findings`.

- `poll_loop_pushed`: a pushed follow-up is completed before it is answered, so a
  kill loses it although the comment says that messages are reset.
- `decisions_unknown`: an answer of the policy task without a decision is taken for
  a stop, because the presence of `fetchActions` sends it past the strict parser.
- `monitor_newest`: a page that opens a finished run of more events than one answer
  holds shows the oldest of them and stops.

Others, without a run of their own:

- `docs/superpowers/specs/2026-07-25-model-owned-execution-design.md:50`: "A malformed
  action yields an action-scoped protocol error while valid sibling actions may
  execute", but `runtime/decision-protocol.ts:173` refuses the whole decision, and so
  does the generic agent's parser.
- `run-manager.ts:71`: a run failed by a restart keeps `reportStatus: pending`, and
  the monitor page polls it for ever (`MonitorFollows` speaks of the runs whose
  report is decided).
- `poll-loop.ts:436`: "a result [...] means the turn is done", but the provider makes
  a result of a compaction too (`claude-provider.ts:450`); it completes the batch
  the agent is still at and asks for its text to be wrapped (`Compacts`).
- `search-fusion/cloudflare-search-local.ts:434`: without a WebSearch hook the HTML engines
  are asked even if the entrances gave good results; `fallback_used` is true then.
- `search-fusion/cloudflare-search-local.ts:456`: an abort while an HTML engine is asked is
  swallowed, the next one is asked, and the search returns (`AbortIsTheEnd` speaks of
  the layers before).
- `runtime/session-manager.ts:385`: `writeOutboundDirect` opens the outbound database
  with `openOutboundDb`, which is read-only (`session-db.ts:29`), so its INSERT fails
  although the comment above it says that the delivery loop picks the row up.
- `run-manager.ts:83`: pruned runs are loaded again by a restart, so the map
  exceeds the in-memory cap the README speaks of (the cap on *active* runs, in
  `RunLifecycle`, holds).
- `agent-loop.ts:480`: past the round limit the recovery counter restarts with
  every well-formed decision (:416), so the branch for the exhausted limit is dead
  and the run ends as a protocol error (README: recovery "is bounded at two
  attempts").
- `search/auto/providers/360.js:28` (and `searchNaver`, `searchDogpile`): every
  failure becomes `ENGINE_FAILED`, so a time-out or an HTTP error is reported as
  `transport_error` with one request (README: diagnostics "must preserve" outcome
  and `requestCount`); `Profile.blunt` models it.
- `search/auto/providers/result.js:87`: an answer is blocked when its final URL
  contains `verify` or `captcha`, the query included, so a row may say
  `http_error` and have results (`flagged` in `AutoSearch`).
- `evidence/citations.ts:33`: one redirected page, cited under the URL requested
  and the one it ended at, counts as two sources.
- `agent-loop.ts:424`: a run completes with confirmed findings nothing supports,
  once enough others are supported (README: "each confirmed finding must bind").
- `llm/openai-compatible.ts:193`: the Retry-After of a response whose body breaks
  off is not read.
- `runtime/delivery.ts:247, 343`: a message without routing, or read before an
  adapter is set, is marked delivered; `NothingGivenUpEarly` does not cover it.
- `nanoclaw-core/poll-loop.ts:348`: rows with trigger 0 are pushed on their own
  while a query is open.
- `nanoclaw-core/poll-loop.ts:279`: a slash command pending behind another row
  lands in the middle of a prompt.
- `nanoclaw-core/poll-loop.ts:434`: after a stream that fails after init, the loop
  goes on without the conversation it has just persisted.
- `runtime/local-session-loop.ts:13`: the time-out of one tool request is taken for
  a cancellation and ends the whole audit, while any other failure of a tool is
  recorded and the audit goes on (`ToolGivesUp`).
- `app/live-audit-runtime.ts:550`: an audit that main has reported as timed out may
  still write its summary, an incomplete one (`SummaryIsHonest`).
- `runtime/nanoclaw-bridge.ts:633`: a response body is read outside the time-out and
  cannot be aborted. The preflight's probe is not given up on an abort either.
- `workspace/evidence-store.ts:167`: matching is not transitive and only the group of
  the saved document is rewritten, so canonical chains and stale lists of duplicates
  remain; they end (`NoCycle`).
- `workspace/evidence-store.ts:226`: of two saves that overlap, one's index entry may
  be lost, its document file staying (`SavedIsIndexed` speaks of the others).

### Fairness

Weak fairness is given to what the runtime or the code itself guarantees and to
nothing a client, a server or a user decides. In a composition each part is as fair
as its own module says; since one part moves in a behaviour, that of the others says
nothing.

- Run manager: timers fire (`DeadlineFires`), writes end in success or failure,
  the agent returns once its signal is aborted (which `agent_loop_retry` checks
  of the loop), and hydration goes on. Not: that an agent returns by itself, that
  anybody cancels, that a process restarts.
- Agent loop: the model and the providers answer or fail, because each has a
  time-out of its own. Not: what they answer.
- Page: a request is answered, refused or lost, and the timer fires. Not: that
  the service goes on, that a run ends, that anybody opens or retries.
- Layered search and fetch: entrances, hooks, servers, pool and browser answer or
  fail, because the platform limits a silent connection and the pools have timers.
  Not: that anybody aborts.
- Extraction pool: an answer posted is delivered, `terminate()` resolves, and a
  worker with a job answers. The timer is not needed for a job to settle.
- Browser manager: Playwright's own calls end (each has a time-out), and
  continuations run.
- Transport: timers fire and an aborted request rejects. The server need never
  answer.
- Search: every request has a timer of its own, and races and continuations go on.
  Not: that a foreign engine ever settles, or that anybody cancels.
- Delivery: timers fire, handler and adapter return or throw, and the host starts
  the polls again after it has restarted. Faults are finitely many.
- Poll loop: the loop and its scripts go on, the agent answers what is pushed (a
  compaction answers nothing), an ended stream ends, the host wakes a container for due rows and kills one with
  old claims. A follow-up poll that throws has none: these are bounded with the crashes.
- Live audit: timers and the steps of the process itself, a save included, go on.
  The reading of a body and the probe end because the platform limits a silent
  connection. Not: that the model or a tool answers, that the run has a timer, that
  other processes go on, that anybody kills anything.

## 4. Proofs

TLC checks an instance; the theorems hold for every set of runs, sessions, rows,
jobs, URLs and tasks, finite or not except where a module is said below to need finite sets, and for every bound. The
only assumptions are the named `ASSUME`s of the modules: bounds are natural numbers,
limits are positive where the code's are, names are not taken for `None`. Each
inductive invariant is a section of the module it is about and was checked by TLC
before it was proved. A proof goes action by action: one lemma for each, under it one
step for each part that the action can disturb.

`RunManagerProofs`. The invariants speak of what a client saw and of what is on
disk, and neither is inductive: what is written is decided by snapshots queued
long before. `IInv` (in `RunManager`) says of each run what its queued writes
may be at each await of its execution: `ExecutionInv` (where the execution
stands against the live run), `HydrateInv` (the same for a run being restored),
`Honoured` (a requested cancellation is in the live run and in every snapshot
still to be written), `Durable` (what is shown as settled is on disk, and
nothing queued would overwrite it) and `Fresh` (the writes of a run that is not
in the map are none). From it: `TypeCorrect`, `CancellationWins`,
`SettledRunsAreDurable`, `OutcomesOnDiskAreFinal`, `ExecutionsStayReachable`.

For the logs and the reports `LIInv` says of each run that disk, queued
snapshots and memory continue one another (`ChainInv`), that each of them is a run
as it may be stored (`SoundInv`), what the execution has decided and done so far
(`DecidedInv`) and what hydration has still to do (`FailedInv`); the set of runs in the
map is finite at each moment, which the cap on active runs needs. From it:
`LogsAreSound`, `ReportsAgree`, and the refinement `ImplementsLifecycle`. There every
action has a lemma that maps it to a step of `RunLifecycle` or to none (`CancelMaps`,
`SettleWrittenMaps`, ...): a run ends for the client not when its execution ends but
when the last snapshot is on disk or its write has failed, and a restart is one step
for all runs whose files it reads over several.

`AgentLoopProofs`. `IInv` joins the types, the stage of the loop to its batch and
result (`StageInv`), the arithmetic of rounds, recoveries and model calls
(`BudgetInv`), the attempts of each exact action (`RequestInv`) and each page of the
state to a write that succeeded or a failure that was reported (`EvidenceInv`): while a
batch is under way its pages are not yet of the state, and none is taken over before all
writes are settled. Queries, URLs and finding ids are finite here
(`AgentLoopAssumption`), since requests and citations are counted. From it:
`TypeCorrect`, `LimitsAreKept`, `PagesAreKept`,
`CompletionHasEvidence`, `ReportIsNotBlocked` (the loop's rule of completion and the
report's own rule are two pieces of code, and the first implies the second), and
`LoopHonoursContract`, a refinement: the loop implements `AgentContract`.

`PoolsProofs`. For the extraction pool `PoolInv` joins a job's state, its one
place and its promise (`JobsInv`), a live worker to the one message it owes an answer to
(`WorkersInv`), and the queue to the workers (`WaitInv`). The last is the delicate one:
while `dispatch()` runs the queue may be one over its limit, because `extract()` skips
the limit when it sees capacity; what bounds it is that the job just added can then
leave at once. From it: `CapacityAlwaysUsed`, `NoAnswerIsStale`. For the browser
`SharedInv` has the permits (`PermitsInv`), what the references of the manager and of
`close()` tell of a launch, and the reason why an old launch cannot give the manager a
browser: one under way is of this generation and the manager's own, or of an earlier one
and `close()` waits for it (`LaunchInv`); while `close()` is under way the manager has
none (`ClosingInv`). From it: `BrowserAlwaysShared`, `NoBrowserEverLeft`. The lemmas on
queues (`SpliceRemoves`, `RemovedQueue`, `AppendedQueue`) serve both. The names of
workers and the renders are finite here (`ExtractionPoolAssumption`,
`BrowserPoolAssumption`), since workers and permits are counted.

`SessionDeliveryProofs`. `IInv` says who holds which rows (`RowsInv`: a row is read
once, two chains never drain one session, and the in-flight set names the sessions that
are drained), that a message shown once too often for the troubles there were is marked
or still in its call (`EffectInv`), and that attempts count faults (`SpendInv`). The
bound on duplicates is inductive only with the second: between the adapter's return and
the mark the message is shown and not yet marked. From it: `OneDrain`, `ShownOnce`,
`KeptUntilShown`.

`PollLoopProofs`. `IInv` says who holds a claim and that it is one (`ClaimsInv`: the
batch and the follow-up polls are disjoint, those of queries that are over included),
that what may still be given to the agent was not given in this life (`GivenInv`), and
that the key of earlier versions is empty once a container is up (`ForgottenInv`), without
which a `/clear` could be undone by the next start. From it: `OneHolderAlways`,
`ClearedForEver`, and `CompletedForEver`, an action property.

`LiveAuditProofs`. Its first half is about the evidence store (assumption: documents and clock readings are natural
numbers, `Alike` is symmetric; neither finite nor transitive). An index on disk is
sound only because every index about to be written is, and no document is missed
only because a lone save differs from the index by its own entry. `StoreInv` (in
`EvidenceStore`) adds these two parts, `SaveIsSound` and `SaveIsNext`. The heart of
it: every group has a canonical document (`CanonicalIsMember`, by three nested
least elements), so rewriting its relations opens no circle (`RelatedIsSound`). One
lemma per step of a save follows. The second half shows that each action of the
whole audit is such a step, its end, or none: `WorkspaceStaysSound`,
`SavesAreIndexed`. `AbortStartsNothingEver` goes through every action once more
under the small invariant `MainInv`. `SummariesAreHonest` needs `HonestInv`: pages are
kept from the moment their save is over (`KeptInv`, which rests on `StoreInv`), a
decision with actions is never terminal, so that an abort during its last action cannot
complete the audit, and a failed call is counted as long as the loop goes on
(`LoopInv`), and main and the audit end together or with an error that says how
(`EndInv`).

`ProvidersProofs` is about the calls of `MCProviders`, each with an invariant of its
own, since one moves and the others stand.

- Fetch: `PipelineInv` says at each await that the target has passed the check, whose
  text is held, and that a static page is kept while the browser is asked. From it: `PagesAreHonest`, `StaticPagesSurvive`.
- Transport: `LogInv` says that the log ends with this attempt, and between two
  attempts with the promise of another, which the bound allows. From it: `LogAlwaysAgrees`.
- Generic search: `SearchInv` says of each engine how far its run may be (`RunInv`:
  what it sent is what it attempted, until an abort) and what decided its race
  (`RaceInv`: the run itself, unless an abort or a deadline did), and of the call
  that a cancellation and a reply leave no race open (`PhaseInv`). Without the last a
  run that goes on after the reply could change a row the reply was made of.
- Layered search: `CollectedInv` says that every record taken is collected or counted,
  and that nothing comes from an HTML engine before the engines are asked, which behind
  a hook is only if all the others are homepages. A response made of such records
  holds each of them once (`ResponseOfRecords`). With `SearchInv`: `SearchesAlwaysHonest`.
- Both searches filter a sequence (`Selected`, `Usable`), as recursive functions; what a
  filter keeps is proved by a least counterexample (`FilterExists`, `FilterKeeps`).
- Page: `ServiceInv` is what a page may count on of `RunLifecycle` (a run that is
  over, or stored as such, has a log that says so, and its id is not handed out again),
  `PollInv` what the poll of this opening holds: events that continue the cursor, and if
  its status says that the run is over, that is still so unless a restart came between
  (`StillSo`). From both: `PageIsAlwaysTrue`.
- All: `RequestsInv` and `LayersInv` (a layer begins with its first try, an abort leaves
  no pause behind) join the two above for `AbortAlwaysEnds`, an action property of the
  four calls.

`DecisionsProofs`. `ParserInv` says that what is decided is the whole of what one of the
parsers made of the answer, and that what is admitted was found consistent. The rest is
about pure functions. The helpers on sequences are recursive functions of this
module's own (`FieldOf`, `Distinct`); that such a function exists is proved once
(`RecursionExists`), and what it yields by a set of numbers that has 0 and with each
number the next (`UpTo`): each element is a field of a wanted item (`FieldOfIsField`), and if all
items are wanted it is the field of each, in order (`FieldOfAll`). From the first, all three
parsers yield only what was asked for (`CompositeHonest`, `LegacyHonest`,
`StrictHonest`): `NothingIsInvented`, whose third part, one kind of action, is the
admission's. From the second, an answer that keeps the contract is no composite, its
fetches stay what they are when their type is overwritten, and so the legacy
normalisation agrees with the strict parser (`CanonicalNormalized`):
`CanonicalStaysUnchanged`. Attempting the first proof showed that the property had been
stated too strongly and the instance had hidden it: a query in `searchActions` is
searched even if its action says `fetch`, since neither the strict parser nor the
legacy rule for an answer with a decision looks at what it says. The property now allows
it and the instance has such an action (`Mislabelled`). `AnswersAssumption` asks that `None`
is no string, text or URL, and that fields have their type.

What only TLC checks: every liveness property (`ENABLED` and fairness are outside the
prover's reach). Every other property of a passing run is a theorem.

## 5. What is left out, and the plan

Text is left out everywhere: prompts, HTML parsing, ranking, report layout,
redaction. Wiring (the command lines, the MCP wrappers) has no state. Ranking and
routing of searches, the judgment engine, the policy scanner and the domain resolver
are functions of their input. The container's SDK, the channel adapters and
Playwright are environment. Of a component listed as partly modelled, the part left
out is named in `PROJECT.json`.

To come, in this order:

1. The run evidence log (`file-store.ts`) beneath the run manager's flush.
2. The session directories and the retention of `session-manager.ts`.
3. `runPolicyTask`, which writes its artifacts after one iteration, and the
   assessments of evidence.
