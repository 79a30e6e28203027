------------------------------ MODULE PollLoop ------------------------------
(***************************************************************************)
(* src/nanoclaw-core/poll-loop.ts: the loop that runs in an agent's        *)
(* container. It claims the rows the host wrote to messages_in, gives them *)
(* to the agent as the first input of a query, and while the query is open *)
(* a second poll claims what arrives and pushes it into the same query.    *)
(*                                                                         *)
(* JavaScript is single-threaded: the two polls interleave only where one  *)
(* of them awaits. The container may be killed anywhere, between two       *)
(* database writes too, so each write that can be the last one is a step.  *)
(*                                                                         *)
(* The claims (processing_ack) and the continuation are in outbound.db and *)
(* survive; all else dies with the container. The database helpers are     *)
(* not in this repository and are modelled from their use.                 *)
(***************************************************************************)
EXTENDS Naturals, Sequences, FiniteSets

CONSTANTS
  Messages,
  KindOf,       \* chat, clear, command (another slash command) or task
  Silent,       \* rows with trigger = 0
  OnWake,       \* rows for the first poll of a container only
  MaxIds,       \* bound: conversations the provider may open
  MaxCrashes,   \* bound: crashes and throws; kills by the host are not bounded
  MaxLives      \* the count of lives stops here

ASSUME PollLoopAssumption ==
  /\ KindOf \in [Messages -> {"chat", "clear", "command", "task"}]
  /\ Silent \subseteq Messages /\ OnWake \subseteq Messages
  /\ MaxIds \in Nat /\ MaxCrashes \in Nat /\ MaxLives \in Nat \ {0}

VARIABLES
  rows,        \* messages_in; their order only shows in the prompts
  ack,         \* processing_ack
  legacy,      \* the one under the key of earlier versions, sdk_session_id
  disk,        \* the persisted continuation; 0: none
  memory,      \* runPollLoop's continuation
  isFirstPoll,
  pc,          \* where the outer loop is
  batch,       \* the rows it claimed and has still to answer
  query,       \* the query under way, see NoQuery
  follow,      \* follow-up polls under way, see FollowUp
  lastId,      \* conversations opened so far
  forgotten,   \* conversations from before a /clear
  given,       \* how often a message was put to the agent
  lives,       \* container lives ended so far
  crashes      \* and follow-up polls that threw

durable == <<rows, ack, legacy, disk>>
loop == <<memory, isFirstPoll, pc, batch>>
history == <<lastId, forgotten, given, lives, crashes>>
vars == <<durable, loop, query, follow, history>>

-----------------------------------------------------------------------------
\* resume: the continuation it was started with; conversation: the one its
\* init event named; inputs: sets of messages the agent has not answered;
\* ended: endedForCommand; nudged: unwrappedNudged.
NoQuery == [resume |-> 0, conversation |-> 0, inputs |-> <<>>, ended |-> FALSE,
            nudged |-> FALSE]

\* done: the query it belongs to has finished; stage: awaiting the scripts, or
\* between query.push and markCompleted.
FollowUp(ids, done, stage) == [ids |-> ids, done |-> done, stage |-> stage]

\* Containers of earlier versions, or with another provider in between, may have
\* left conversations under either key.
Init ==
  /\ rows = {}
  /\ ack = [m \in Messages |-> "none"]
  /\ legacy \in {0, 1} /\ disk \in {0, 2 * legacy} /\ memory = 0
  /\ isFirstPoll = TRUE
  /\ pc = "down"
  /\ batch = {}
  /\ query = NoQuery
  /\ follow = {}
  /\ lastId = 2 * legacy /\ forgotten = {}
  /\ given = [m \in Messages |-> 0]
  /\ lives = 0 /\ crashes = 0

Unclaimed(first) ==
  {m \in rows : ack[m] = "none" /\ (first \/ m \notin OnWake)}

\* Mutant: a follow-up poll claims nothing until its scripts have run.
NothingYet(ms) == ack

Claimed(ms) == [m \in Messages |-> IF m \in ms THEN "processing" ELSE ack[m]]
Completed(ms) == [m \in Messages |-> IF m \in ms THEN "completed" ELSE ack[m]]
Released == [m \in Messages |-> IF ack[m] = "processing" THEN "none" ELSE ack[m]]

IsClear(m) == KindOf[m] = "clear"
IsRunnerCommand(m) == KindOf[m] \in {"clear", "command"}

AtLeastOnce(n) == IF n > MaxLives THEN n ELSE n + 1
Given(ms) == [m \in Messages |-> IF m \in ms THEN AtLeastOnce(given[m]) ELSE given[m]]

\* One of the two polls awaits, and the other may run.
AtAwait == pc \in {"poll", "scripts", "query"} /\ \A f \in follow : f.stage = "scripts"

-----------------------------------------------------------------------------
(* The host *)

Arrives(m) ==
  /\ m \notin rows
  /\ rows' = rows \cup {m}
  /\ UNCHANGED <<ack, legacy, disk, loop, query, follow, history>>

\* Mutant: a claimed row is not counted, although its container may be dead.
WakesIfUnclaimed == \E m \in rows \ Silent : ack[m] = "none"

\* countDueMessages: a row that is not completed and wakes the agent.
WakesTheAgent == \E m \in rows \ Silent : ack[m] # "completed"

Dies ==
  /\ pc' = "down"
  /\ memory' = 0
  /\ isFirstPoll' = TRUE
  /\ batch' = {}
  /\ query' = NoQuery
  /\ follow' = {}
  /\ lives' = IF lives < MaxLives THEN lives + 1 ELSE lives
  /\ UNCHANGED <<legacy, rows, disk, lastId, forgotten, given>>

Crash ==
  /\ pc # "down"
  /\ crashes < MaxCrashes
  /\ crashes' = crashes + 1
  /\ Dies
  /\ UNCHANGED ack

\* Claims nobody in the container is working on.
Orphans ==
  {m \in Messages : ack[m] = "processing"}
    \ (batch \cup UNION {f.ids : f \in follow})

\* The sweep finds a claim that is too old, kills the container and deletes
\* its claims.
HostKills ==
  /\ AtAwait
  /\ Orphans # {}
  /\ Dies
  /\ ack' = Released
  /\ UNCHANGED crashes

-----------------------------------------------------------------------------
(* runPollLoop *)

\* Mutant: every row of processing_ack is cleared.
AllCleared == [m \in Messages |-> "none"]

ClaimsAtStart == Released

\* Mutant: the legacy row stays.
LegacyStays == legacy

LegacyAfterRead == 0

\* migrateLegacyContinuation(): the legacy row is read and dropped.
DropLegacy ==
  /\ pc = "down"
  /\ WakesTheAgent
  /\ legacy # 0
  /\ memory' = legacy
  /\ legacy' = LegacyAfterRead
  /\ pc' = "starting"
  /\ UNCHANGED <<rows, ack, disk, isFirstPoll, batch, query, follow, history>>

\* The provider's own continuation, or the legacy one that was read.
Adopted == IF disk # 0 THEN disk ELSE memory

\* Start-up with that continuation or, when its transcript has outgrown the limits, without.
Start(rotate) ==
  /\ pc = "starting" \/ (pc = "down" /\ WakesTheAgent /\ legacy = 0)
  /\ memory' = IF rotate THEN 0 ELSE Adopted
  /\ disk' = memory'
  /\ ack' = ClaimsAtStart
  /\ pc' = "poll"
  /\ UNCHANGED <<legacy, rows, isFirstPoll, batch, query, follow, history>>

Poll ==
  /\ pc = "poll" /\ AtAwait
  /\ isFirstPoll' = FALSE
  /\ LET pending == Unclaimed(isFirstPoll) IN
       IF pending \subseteq Silent
       THEN UNCHANGED <<ack, pc, batch>>
       ELSE /\ ack' = Claimed(pending)
            /\ batch' = pending
            /\ pc' = "claimed"
  /\ UNCHANGED <<legacy, rows, disk, memory, query, follow, history>>

\* Mutant: /clear resets the variable only.
StaysOnDisk == disk

DiskAfterClear == 0

\* /clear: the continuation is dropped, in memory and on disk.
ClearSession ==
  /\ pc = "claimed"
  /\ IF \E m \in batch : IsClear(m)
     THEN /\ memory' = 0
          /\ disk' = DiskAfterClear
          /\ forgotten' = 1..lastId
          /\ pc' = "cleared"
     ELSE /\ pc' = "scripts"
          /\ UNCHANGED <<memory, disk, forgotten>>
  /\ UNCHANGED <<legacy, rows, ack, isFirstPoll, batch, query, follow, lastId, given, lives, crashes>>

CompleteCommands ==
  /\ pc = "cleared"
  /\ ack' = Completed({m \in batch : IsClear(m)})
  /\ batch' = {m \in batch : ~IsClear(m)}
  /\ pc' = IF batch' = {} THEN "poll" ELSE "scripts"
  /\ UNCHANGED <<legacy, rows, disk, memory, isFirstPoll, query, follow, history>>

Tasks(ms) == {m \in ms : KindOf[m] = "task"}

\* The pre-task scripts have run; what is left becomes a query's first input.
StartQuery(skipped) ==
  /\ pc = "scripts" /\ AtAwait
  /\ skipped \subseteq Tasks(batch)
  /\ ack' = Completed(skipped)
  /\ batch' = batch \ skipped
  /\ IF batch' = {}
     THEN pc' = "poll" /\ UNCHANGED <<query, given>>
     ELSE /\ query' = [NoQuery EXCEPT !.resume = memory, !.inputs = <<batch'>>]
          /\ given' = Given(batch')
          /\ pc' = "query"
  /\ UNCHANGED <<legacy, rows, disk, memory, isFirstPoll, follow, lastId, forgotten, lives, crashes>>

-----------------------------------------------------------------------------
(* processQuery: the provider's events *)

InQuery == pc = "query" /\ AtAwait

\* init: a conversation of its own or the resumed one; persisted at once.
AgentInit(conversation) ==
  /\ InQuery
  /\ query.conversation = 0
  /\ \/ conversation = query.resume /\ query.resume # 0 /\ UNCHANGED lastId
     \/ conversation = lastId + 1 /\ lastId < MaxIds /\ lastId' = conversation
  /\ query' = [query EXCEPT !.conversation = conversation]
  /\ disk' = conversation
  /\ UNCHANGED <<legacy, rows, ack, loop, follow, forgotten, given, lives, crashes>>

\* result: the first n inputs are answered, none of them if it only tells of a
\* compaction (Compacts). An answer that addresses nobody is sent back once.
AgentResult(n, unwrapped) ==
  /\ InQuery
  /\ query.conversation # 0
  /\ n \in 0..Len(query.inputs)
  /\ ack' = Completed(batch)
  /\ LET nudge == unwrapped /\ ~query.nudged
         rest == SubSeq(query.inputs, n + 1, Len(query.inputs))
     IN query' = [query EXCEPT !.inputs = IF nudge THEN Append(rest, {}) ELSE rest,
                               !.nudged = @ \/ nudge]
  /\ UNCHANGED <<legacy, rows, disk, loop, follow, history>>

\* The SDK has compacted the conversation: the provider makes of it a result with
\* a text of its own, which addresses nobody.
Compacts == AgentResult(0, TRUE)

\* finally: done = true.
Stale == {FollowUp(f.ids, TRUE, f.stage) : f \in follow}

\* The stream ends, in order or because it was closed unexpectedly.
StreamEnds ==
  /\ InQuery
  /\ follow' = Stale
  /\ memory' = IF query.conversation = 0 THEN memory ELSE query.conversation
  /\ disk' = IF query.conversation = 0 THEN disk ELSE query.conversation
  /\ query' = NoQuery
  /\ pc' = "finish"
  /\ UNCHANGED <<legacy, rows, ack, isFirstPoll, batch, history>>

\* The stream throws; the provider may say that the continuation is invalid.
StreamFails(invalid) ==
  /\ InQuery
  /\ follow' = Stale
  /\ LET forget == invalid /\ memory # 0 IN
       /\ memory' = IF forget THEN 0 ELSE memory
       /\ disk' = IF forget THEN 0 ELSE disk
  /\ query' = NoQuery
  /\ pc' = "finish"
  /\ UNCHANGED <<legacy, rows, ack, isFirstPoll, batch, history>>

Finish ==
  /\ pc = "finish"
  /\ ack' = Completed(batch)
  /\ batch' = {}
  /\ pc' = "poll"
  /\ UNCHANGED <<legacy, rows, disk, memory, isFirstPoll, query, follow, history>>

-----------------------------------------------------------------------------
(* processQuery: the follow-up poll *)

PollInFlight == \E f \in follow : ~f.done

NeedsFreshQuery(ms) == \E m \in ms : IsRunnerCommand(m)

AckOnFollowUp(ms) == Claimed(ms)

\* A tick of the interval: a slash command ends the query, anything else that
\* is pending is claimed.
FollowPoll ==
  /\ InQuery
  /\ ~query.ended
  /\ ~PollInFlight
  /\ LET pending == Unclaimed(FALSE) IN
       /\ pending # {}
       /\ IF NeedsFreshQuery(pending)
          THEN /\ query' = [query EXCEPT !.ended = TRUE]
               /\ UNCHANGED <<ack, follow>>
          ELSE /\ ack' = AckOnFollowUp(pending)
               /\ follow' = follow \cup {FollowUp(pending, FALSE, "scripts")}
               /\ UNCHANGED query
  /\ UNCHANGED <<legacy, rows, disk, loop, history>>

\* The scripts have run. If the query is over the claims are left to the host.
FollowScripts(f, skipped) ==
  /\ AtAwait
  /\ f \in follow
  /\ skipped \subseteq Tasks(f.ids)
  /\ ack' = Completed(skipped)
  /\ LET keep == f.ids \ skipped IN
       IF keep = {} \/ f.done
       THEN /\ follow' = follow \ {f}
            /\ UNCHANGED <<query, given>>
       ELSE /\ follow' = (follow \ {f}) \cup {FollowUp(keep, FALSE, "pushed")}
            /\ query' = [query EXCEPT !.inputs = Append(@, keep), !.nudged = FALSE]
            /\ given' = Given(keep)
  /\ UNCHANGED <<legacy, rows, disk, loop, lastId, forgotten, lives, crashes>>

FollowComplete(f) ==
  /\ f \in follow
  /\ f.stage = "pushed"
  /\ ack' = Completed(f.ids)
  /\ follow' = follow \ {f}
  /\ UNCHANGED <<legacy, rows, disk, loop, query, history>>

\* The catch of the poll: whatever throws, before or after the push, ends it, and
\* the rows it has not completed are left to the host.
FollowFails(f, skipped) ==
  /\ f \in follow
  /\ crashes < MaxCrashes
  /\ \/ f.stage = "scripts" /\ AtAwait /\ skipped \subseteq Tasks(f.ids)
     \/ f.stage = "pushed" /\ skipped = {}
  /\ ack' = Completed(skipped)
  /\ follow' = follow \ {f}
  /\ crashes' = crashes + 1
  /\ UNCHANGED <<legacy, rows, disk, loop, query, lastId, forgotten, given, lives>>

-----------------------------------------------------------------------------
StartStep == DropLegacy \/ \E rotate \in BOOLEAN : Start(rotate)

OuterStep ==
  \/ Poll \/ ClearSession \/ CompleteCommands
  \/ \E skipped \in SUBSET Messages : StartQuery(skipped)
  \/ Finish

FollowStep ==
  \E f \in follow :
    \/ \E skipped \in SUBSET f.ids : FollowScripts(f, skipped)
    \/ FollowComplete(f)

AgentStep ==
  \/ \E c \in 1..MaxIds : AgentInit(c)
  \/ \E n \in 1..Len(query.inputs), unwrapped \in BOOLEAN : AgentResult(n, unwrapped)

Next ==
  \/ \E m \in Messages : Arrives(m)
  \/ Crash \/ HostKills
  \/ StartStep
  \/ OuterStep \/ FollowPoll \/ FollowStep
  \/ \E f \in follow : \E skipped \in SUBSET f.ids : FollowFails(f, skipped)
  \/ AgentStep \/ Compacts
  \/ StreamEnds \/ \E invalid \in BOOLEAN : StreamFails(invalid)

Spec == Init /\ [][Next]_vars

\* The loop runs on, scripts return, the agent answers what it was given, an
\* ended stream ends, and the host wakes containers and sweeps old claims.
FairSpec ==
  /\ Spec
  /\ WF_vars(OuterStep) /\ WF_vars(FollowStep) /\ WF_vars(FollowPoll)
  /\ WF_vars(AgentStep)
  /\ WF_vars(query.ended /\ query.inputs = <<>> /\ StreamEnds)
  /\ WF_vars(HostKills) /\ WF_vars(StartStep)

-----------------------------------------------------------------------------
(* Properties *)

\* Types; there is a query exactly while one runs, at most one follow-up poll
\* works for it, and only that one can be pushing.
TypeOK ==
  /\ rows \subseteq Messages
  /\ ack \in [Messages -> {"none", "processing", "completed"}]
  /\ {legacy, disk, memory} \subseteq 0..lastId
  /\ pc \in {"down", "starting", "poll", "claimed", "cleared", "scripts", "query", "finish"}
  /\ batch \subseteq Messages
  /\ query \in [resume : 0..lastId, conversation : 0..lastId, inputs : Seq(SUBSET Messages),
                ended : BOOLEAN, nudged : BOOLEAN]
  /\ follow \subseteq
       [ids : SUBSET Messages, done : BOOLEAN, stage : {"scripts", "pushed"}]
  /\ lastId \in Nat /\ forgotten \subseteq 1..lastId
  /\ given \in [Messages -> Nat] /\ lives \in 0..MaxLives /\ crashes \in Nat
  /\ pc # "query" => query = NoQuery
  /\ \A f, g \in follow : ~f.done /\ ~g.done => f = g
  /\ \A f \in follow : /\ ~f.done => pc = "query"
                       /\ f.stage = "pushed" => ~f.done

\* A claim has one holder: the batch and the follow-up polls, those of queries
\* that are over included, never hold the same row, so nothing is put to the
\* agent twice in one life of the container (poll-loop.ts:138, 352).
OneHolder ==
  /\ TypeOK
  /\ Cardinality({f \in follow : ~f.done}) <= 1
  /\ \A f \in follow :
       /\ f.ids \cap batch = {}
       /\ \A g \in follow \ {f} : f.ids \cap g.ids = {}
  /\ lives < MaxLives => \A m \in Messages : given[m] <= lives + 1

\* A completed row is never given to the agent again, whichever container,
\* claim or sweep comes after.
CompletedIsDone ==
  [][\A m \in Messages : ack[m] = "completed" =>
       ack'[m] = "completed" /\ given'[m] = given[m]]_vars

\* Once the session was cleared no conversation from before is resumed,
\* remembered or persisted, under either key, whatever the query under way or a
\* crash between the writes left behind (poll-loop.ts:149-163, 436,
\* session-state.ts:52-66).
ClearedIsForgotten ==
  {legacy, disk, memory, query.resume, query.conversation} \cap forgotten = {}

\* Every row that wakes the agent is completed in the end, with follow-ups
\* whose query ended under them released by the host (poll-loop.ts:372-375).
\* Rows for a container's first poll wait for the next container.
EveryRowCompleted ==
  \A m \in Messages \ (Silent \cup OnWake) :
    m \in rows ~> (ack[m] = "completed")

\* What poll-loop.ts:314-315 says of a query that is stuck: "the host will kill
\* the container and messages get reset to pending". Pushed follow-ups are
\* completed when they are pushed (382) and are not reset. (Rows of the batch are
\* completed by a result event, which is another matter.)
UnansweredNotCompleted ==
  pc = "query" =>
    \A i \in 1..Len(query.inputs) :
      \A m \in query.inputs[i] \ batch : ack[m] # "completed"

-----------------------------------------------------------------------------
(* The inductive invariant *)

\* A batch whose query has still to begin.
Ahead == pc \in {"claimed", "cleared", "scripts"}

\* What a follow-up poll holds is claimed, and so is a batch until it is answered;
\* nobody holds anything while there is no container.
ClaimsInv ==
  /\ \A f \in follow : /\ \A m \in f.ids : ack[m] = "processing" /\ m \notin batch
                       /\ \A g \in follow : f # g => f.ids \cap g.ids = {}
  /\ \A m \in batch : ack[m] # "none" /\ (Ahead => ack[m] = "processing")
  /\ pc \in {"down", "starting", "poll"} => batch = {}
  /\ pc \in {"down", "starting"} => follow = {}

\* What may still be given to the agent has not been given in this life.
GivenInv ==
  lives < MaxLives => \A m \in Messages :
    /\ given[m] <= lives + 1
    /\ \/ ack[m] = "none" \/ pc \in {"down", "starting"} \/ (Ahead /\ m \in batch)
       \/ \E f \in follow : f.stage = "scripts" /\ m \in f.ids
       => given[m] <= lives

\* The key of earlier versions is empty once a container is up.
ForgottenInv == ClearedIsForgotten /\ (legacy # 0 => pc = "down")

IInv == TypeOK /\ ClaimsInv /\ GivenInv /\ ForgottenInv

=============================================================================
