---------------------------- MODULE SearchFusion ----------------------------
(***************************************************************************)
(* One call of searchWithCloudflareLocal                                   *)
(* (src/search-fusion/cloudflare-search-local.ts), the search of the       *)
(* policy task when no tool server gives one: the official entrances one   *)
(* after the other, each with its attempts, then the host's WebSearch      *)
(* hook, then two HTML engines, and what is made of all they found.        *)
(*                                                                         *)
(* A step runs from one await to the next. Entrances, hook and engines     *)
(* answer anything or fail. A record is the key it is merged by, its       *)
(* canonical URL and its title, or has no URL; whether its texts make it a *)
(* weak homepage goes with the key. Grades, scores and snippets are left   *)
(* out, and so is the order of the results.                                *)
(***************************************************************************)
EXTENDS Integers, Sequences, FiniteSets, SequencesExt

CONSTANTS
  Keys,          \* canonicalUrl::canonicalTitle of a result
  WeakKeys,      \* those that isWeakHomepageLikeResult
  NoUrl,         \* a record whose url is missing or blank
  MaxRecords,    \* bound: the records of one answer
  Setups,        \* what the call is made with, see Setup
  None

\* providerSearches, the clamped providerRetryAttempts, whether
\* globalThis.WebSearch is a function, and options.fetchImpl.
Setup == [entrances : Nat, attempts : 1..3, hook : BOOLEAN, engines : BOOLEAN]

\* What a run assumes of the constants.
SearchFusionAssumption ==
  /\ WeakKeys \subseteq Keys /\ NoUrl \notin Keys
  /\ MaxRecords \in Nat
  /\ Setups \subseteq Setup

VARIABLES
  setup,
  stage,       \* the await: entrance, pause, hook, engine; or done
  turn,        \* which entrance, or which engine
  tries,       \* attempt
  signal,      \* options.signal?.aborted
  collected,   \* collectedResults: keys and the layers they came from
  filtered,    \* filteredCount
  fallback,    \* fallbackUsed
  given,       \* history: records received, from all layers
  rejected,    \* history: an entrance rejected after the abort
  response     \* what the call returned, or Threw

counts == <<collected, filtered, fallback, given>>
vars == <<setup, stage, turn, tries, signal, counts, rejected, response>>

HtmlEngines == 2

-----------------------------------------------------------------------------
(* Records *)

Answers == SeqOf(Keys \cup {NoUrl}, MaxRecords)

Layers == {"provider", "websearch", "html-fallback"}

\* normalizeSearchDiscovery() and appendAttemptMetadata()
Usable(records) ==
  LET kept[n \in 0..Len(records)] ==
        IF n = 0 THEN <<>>
        ELSE IF records[n] # NoUrl THEN Append(kept[n - 1], records[n])
        ELSE kept[n - 1]
  IN kept[Len(records)]

Attempted(layer, keys) == [i \in DOMAIN keys |-> [key |-> keys[i], layer |-> layer]]

Found(records) == {records[i].key : i \in DOMAIN records}

\* The records that are merged under a key.
PlacesOf(records, k) == {i \in DOMAIN records : records[i].key = k}

\* Mutant: of the records under one key only the first is kept.
FirstOnly(records, k) ==
  LET first == CHOOSE i \in PlacesOf(records, k) : \A j \in PlacesOf(records, k) : i <= j
  IN [i \in {first} |-> records[i].layer]

\* The merged attempts, each at the place of the record it comes from.
AttemptsOf(records, k) == [i \in PlacesOf(records, k) |-> records[i].layer]

\* dedupeSearchResults(): one record for each key, with the attempts of all.
Deduped(records) ==
  {[key |-> k, attempts |-> AttemptsOf(records, k)] : k \in Found(records)}

\* buildCloudflareAlignedSearchResponse() over attachAggregateMetadata()
Response(records, dropped, fellBack) ==
  [results |-> Deduped(records),
   total_raw_found |-> Len(records),
   deduped_count |-> Len(records) - Cardinality(Deduped(records)),
   filtered_count |-> dropped,
   fallback_used |-> fellBack,
   status |-> IF records = <<>> THEN "empty" ELSE "found"]

Threw == [Response(<<>>, 0, FALSE) EXCEPT !.status = "threw"]

-----------------------------------------------------------------------------
Init ==
  /\ setup \in Setups
  /\ stage = "new"
  /\ turn = 0 /\ tries = 0
  /\ signal = FALSE
  /\ collected = <<>> /\ filtered = 0 /\ fallback = FALSE /\ given = 0
  /\ rejected = FALSE
  /\ response = None

Leave(with) ==
  /\ stage' = "done" /\ turn' = 0 /\ tries' = 0
  /\ response' = with

At(layer, n) ==
  /\ stage' = layer /\ turn' = n /\ tries' = 1
  /\ UNCHANGED response

\* The layer after the entrances and the one after the hook.
Engine(n) ==
  IF setup.engines /\ n <= HtmlEngines THEN At("engine", n)
  ELSE Leave(Response(collected', filtered', fallback'))

Entrance(n) ==
  IF n <= setup.entrances THEN At("entrance", n)
  ELSE IF setup.hook THEN At("hook", 1)
  ELSE Engine(1)

Keeps == UNCHANGED <<setup, signal, rejected>>

Begin ==
  /\ stage = "new"
  /\ UNCHANGED counts
  /\ Entrance(1)
  /\ Keeps

\* What an entrance or the hook gave is kept, what has no URL is counted.
Takes(layer, records) ==
  /\ collected' = collected \o Attempted(layer, Usable(records))
  /\ filtered' = filtered + Len(records) - Len(Usable(records))
  /\ given' = given + Len(records)
  /\ UNCHANGED fallback

EntranceAnswers(records) ==
  /\ stage = "entrance"
  /\ Takes("provider", records)
  /\ Entrance(turn + 1)
  /\ Keeps

\* It rejects; retryable: isRetryableRuntimeError.
EntranceFails(retryable) ==
  /\ stage = "entrance"
  /\ UNCHANGED counts
  /\ IF signal THEN Leave(Threw)
     ELSE IF tries >= setup.attempts \/ ~retryable THEN Entrance(turn + 1)
     ELSE stage' = "pause" /\ UNCHANGED <<turn, tries, response>>
  /\ rejected' = signal
  /\ UNCHANGED <<setup, signal>>

\* The timer of the pause fires.
Retry ==
  /\ stage = "pause"
  /\ stage' = "entrance" /\ tries' = tries + 1
  /\ UNCHANGED <<turn, counts, response>>
  /\ Keeps

\* Mutant: the pause has no listener of its own.
PauseGoesOn == FALSE

\* The abort rejects the pause before its timer.
PauseIsOver == stage = "pause"

Abort ==
  /\ ~signal /\ stage # "done"
  /\ signal' = TRUE
  /\ IF PauseIsOver THEN Leave(Threw) ELSE UNCHANGED <<stage, turn, tries, response>>
  /\ UNCHANGED <<setup, counts, rejected>>

\* The hook is not given the signal.
HookAnswers(records) ==
  /\ stage = "hook"
  /\ Takes("websearch", records)
  /\ IF Found(collected') \ WeakKeys # {}
     THEN Leave(Response(collected', filtered', fallback'))
     ELSE Engine(1)
  /\ Keeps

HookFails ==
  /\ stage = "hook"
  /\ Leave(Threw)
  /\ UNCHANGED counts
  /\ Keeps

\* A page of results is parsed; the second engine is asked unless the first one
\* found a new page.
EngineAnswers(records) ==
  LET keys == Usable(records) IN
  /\ stage = "engine"
  /\ collected' = collected \o Attempted("html-fallback", keys)
  /\ fallback' = (fallback \/ keys # <<>>)
  /\ given' = given + Len(keys)
  /\ UNCHANGED filtered
  /\ IF Cardinality(Found(collected')) > Cardinality(Found(collected))
     THEN Leave(Response(collected', filtered', fallback'))
     ELSE Engine(turn + 1)
  /\ Keeps

\* Any failure, an abort included, is the next engine's turn.
EngineFails ==
  /\ stage = "engine"
  /\ UNCHANGED counts
  /\ Engine(turn + 1)
  /\ Keeps

Due ==
  \/ Begin \/ Retry \/ HookFails \/ EngineFails
  \/ \E retryable \in BOOLEAN : EntranceFails(retryable)
  \/ \E records \in Answers :
       EntranceAnswers(records) \/ HookAnswers(records) \/ EngineAnswers(records)

Next == Abort \/ Due

\* Entrances, hook and engines answer or fail, since the platform limits a silent
\* connection, and timers fire. Nobody need abort.
Spec == Init /\ [][Next]_vars /\ WF_vars(Due)

-----------------------------------------------------------------------------
(* Properties *)

Returned == stage = "done" /\ response # Threw

TypeOK ==
  /\ setup \in Setups
  /\ stage \in {"new", "entrance", "pause", "hook", "engine", "done"}
  /\ stage \in {"entrance", "pause"} => turn \in 1..setup.entrances /\ tries \in 1..setup.attempts
  /\ stage = "engine" => turn \in 1..HtmlEngines
  /\ collected \in Seq([key : Keys, layer : Layers])
  /\ IF stage = "done" THEN response.status \in {"empty", "found", "threw"} ELSE response = None

Finders(r) == {r.attempts[i] : i \in DOMAIN r.attempts}

\* Whatever failed, was asked again or was cut short: every page that any layer
\* found is in the response, and every record that was found is an attempt of one
\* result; what was received is found, merged or filtered and nothing else; the
\* fallback is reported when and only when an engine found something, and it is not
\* used while the hook or an entrance before it has given more than homepages
\* (cloudflare-search-local.ts:395-484).
ResponseIsHonest ==
  /\ TypeOK
  /\ Returned =>
       /\ {r.key : r \in response.results} = Found(collected)
       /\ given = response.total_raw_found + response.filtered_count
       /\ UNION {DOMAIN r.attempts : r \in response.results} = 1..response.total_raw_found
       /\ \A r, s \in response.results : DOMAIN r.attempts \cap DOMAIN s.attempts # {} => r = s
       /\ Cardinality(response.results) + response.deduped_count = response.total_raw_found
       /\ response.deduped_count >= 0
       /\ response.fallback_used <=> \E r \in response.results : "html-fallback" \in Finders(r)
       /\ setup.hook /\ response.fallback_used =>
            \A r \in response.results : r.key \notin WeakKeys => Finders(r) = {"html-fallback"}
       /\ (response.status = "empty") <=> (response.results = {})

\* Once the signal is aborted nothing is tried again, and a call that rejects
\* under it ends the search: no later layer is asked
\* (cloudflare-search-local.test.ts, "does not continue to HTML fallback").
AbortIsTheEnd ==
  [][/\ signal => tries' <= IF turn' = turn THEN tries ELSE 1
     /\ rejected' => response' = Threw]_vars

Ends == <>(stage = "done")

-----------------------------------------------------------------------------
(* The inductive invariant behind AbortIsTheEnd *)

\* Every layer begins with its first try, an abort leaves no pause behind, and
\* a rejection under it was the end.
LayersInv ==
  /\ stage \in {"new", "entrance", "pause", "hook", "engine", "done"}
  /\ turn \in Nat /\ tries \in Nat
  /\ stage \in {"entrance", "pause", "hook", "engine"} => tries >= 1
  /\ stage = "new" => turn = 0 /\ tries = 0
  /\ stage = "pause" => ~signal
  /\ rejected => stage = "done" /\ response = Threw

(* The one behind ResponseIsHonest *)

\* Every record that was taken is collected or counted. Nothing comes from an
\* engine before the engines are asked, which behind a hook is only if all the
\* others are homepages; and what is returned is made of what is collected.
CollectedInv ==
  /\ TypeOK /\ (stage = "pause" => tries < setup.attempts)
  /\ filtered \in Nat /\ given = Len(collected) + filtered
  /\ fallback \in BOOLEAN
  /\ fallback <=> \E i \in DOMAIN collected : collected[i].layer = "html-fallback"
  /\ stage \in {"new", "entrance", "pause", "hook"} => ~fallback
  /\ setup.hook /\ (fallback \/ stage = "engine") =>
       \A i \in DOMAIN collected :
         collected[i].layer = "html-fallback" \/ collected[i].key \in WeakKeys
  /\ stage = "done" => response \in {Threw, Response(collected, filtered, fallback)}
=============================================================================
