--------------------------- MODULE PollLoopProofs ---------------------------
(***************************************************************************)
(* The poll loop keeps IInv, whatever the rows, their kinds and the order  *)
(* in which they come, and whoever kills the container: one lemma for each *)
(* group of actions. From it the safety properties of PollLoop follow.     *)
(***************************************************************************)
EXTENDS PollLoop, FiniteSetTheorems, SequenceTheorems, TLAPS

USE PollLoopAssumption

\* CompletedIsDone of one step.
DoneStep ==
  \A m \in Messages : ack[m] = "completed" =>
    ack'[m] = "completed" /\ given'[m] = given[m]

Acks == [Messages -> {"none", "processing", "completed"}]

-----------------------------------------------------------------------------
(* What the operators on claims do *)

LEMMA ClaimsTyped ==
  ASSUME ack \in Acks, NEW ms \in SUBSET Messages
  PROVE  /\ Claimed(ms) \in Acks /\ Completed(ms) \in Acks /\ Released \in Acks
         /\ \A m \in ms : Claimed(ms)[m] = "processing" /\ Completed(ms)[m] = "completed"
         /\ \A m \in Messages \ ms : Claimed(ms)[m] = ack[m] /\ Completed(ms)[m] = ack[m]
         /\ \A m \in Messages : Released[m] = IF ack[m] = "processing" THEN "none" ELSE ack[m]
BY DEF Acks, Claimed, Completed, Released

LEMMA GivenTyped ==
  ASSUME given \in [Messages -> Nat], NEW ms \in SUBSET Messages
  PROVE  /\ Given(ms) \in [Messages -> Nat]
         /\ \A m \in ms : Given(ms)[m] <= given[m] + 1
         /\ \A m \in Messages \ ms : Given(ms)[m] = given[m]
BY DEF Given, AtLeastOnce

\* Only rows nobody has claimed are read.
LEMMA UnclaimedRows ==
  ASSUME TypeOK, NEW first
  PROVE  Unclaimed(first) \in SUBSET Messages /\ \A m \in Unclaimed(first) : ack[m] = "none"
BY DEF Unclaimed, TypeOK

-----------------------------------------------------------------------------
(* The host *)

LEMMA InitHasInv == Init => IInv
<1> SUFFICES ASSUME Init PROVE IInv
  OBVIOUS
<1>1. TypeOK
  <2>1. query \in [resume : 0..lastId, conversation : 0..lastId, inputs : Seq(SUBSET Messages),
                   ended : BOOLEAN, nudged : BOOLEAN]
    BY DEF Init, NoQuery
  <2>2. {legacy, disk, memory} \subseteq 0..lastId /\ lastId \in Nat
    BY DEF Init
  <2> QED
    BY <2>1, <2>2 DEF Init, TypeOK
<1>2. ClaimsInv
  BY DEF Init, ClaimsInv, Ahead
<1>3. GivenInv
  BY DEF Init, GivenInv
<1>4. ForgottenInv
  BY DEF Init, ForgottenInv, ClearedIsForgotten
<1> QED
  BY <1>1, <1>2, <1>3, <1>4 DEF IInv

LEMMA ArrivesKeepsInv ==
  ASSUME IInv, NEW m \in Messages, Arrives(m)
  PROVE  IInv' /\ DoneStep
<1>1. /\ rows' \subseteq Messages
      /\ UNCHANGED <<ack, legacy, disk, memory, isFirstPoll, pc, batch, query, follow, lastId,
                     forgotten, given, lives, crashes>>
  BY DEF IInv, TypeOK, Arrives, loop, history
<1>2. TypeOK'
  BY <1>1 DEF IInv, TypeOK
<1>3. ClaimsInv' /\ GivenInv' /\ ForgottenInv'
  BY <1>1 DEF IInv, ClaimsInv, GivenInv, ForgottenInv, ClearedIsForgotten, Ahead
<1> QED
  BY <1>1, <1>2, <1>3 DEF IInv, DoneStep

\* The container ends: nobody holds anything, and a life is over.
LEMMA DiesKeepsInv ==
  ASSUME IInv, Dies, ack' = ack \/ ack' = Released, crashes' \in Nat
  PROVE  IInv' /\ DoneStep
<1>0. TypeOK /\ ClaimsInv /\ GivenInv /\ ForgottenInv
  BY DEF IInv
<1>1. /\ pc' = "down" /\ memory' = 0 /\ batch' = {} /\ query' = NoQuery /\ follow' = {}
      /\ lives' = IF lives < MaxLives THEN lives + 1 ELSE lives
      /\ legacy' = legacy /\ rows' = rows /\ disk' = disk /\ lastId' = lastId
      /\ forgotten' = forgotten /\ given' = given
  BY DEF Dies
<1>2. ack' \in Acks /\ \A m \in Messages : ack[m] = "completed" => ack'[m] = "completed"
  <2>1. ack \in Acks
    BY <1>0 DEF TypeOK, Acks
  <2> QED
    BY <2>1, ClaimsTyped
<1>3. TypeOK'
  <2>1. query' \in [resume : 0..lastId', conversation : 0..lastId', inputs : Seq(SUBSET Messages),
                    ended : BOOLEAN, nudged : BOOLEAN]
    BY <1>0, <1>1 DEF TypeOK, NoQuery
  <2>2. lives' \in 0..MaxLives
    BY <1>0, <1>1 DEF TypeOK
  <2> QED
    BY <1>0, <1>1, <1>2, <2>1, <2>2 DEF TypeOK, Acks
<1>4. ClaimsInv'
  BY <1>1 DEF ClaimsInv
<1>5. GivenInv'
  BY <1>0, <1>1 DEF GivenInv, TypeOK
<1>6. ForgottenInv'
  BY <1>0, <1>1 DEF ForgottenInv, ClearedIsForgotten, TypeOK, NoQuery
<1> QED
  BY <1>1, <1>2, <1>3, <1>4, <1>5, <1>6 DEF IInv, DoneStep

LEMMA KillsKeepInv ==
  ASSUME IInv, Crash \/ HostKills
  PROVE  IInv' /\ DoneStep
<1>0. crashes \in Nat
  BY DEF IInv, TypeOK
<1>1. CASE Crash
  <2>1. Dies /\ ack' = ack /\ crashes' \in Nat
    BY <1>0, <1>1 DEF Crash
  <2> QED
    BY <2>1, DiesKeepsInv
<1>2. CASE HostKills
  <2>1. Dies /\ ack' = Released /\ crashes' \in Nat
    BY <1>0, <1>2 DEF HostKills
  <2> QED
    BY <2>1, DiesKeepsInv
<1> QED
  BY <1>1, <1>2

-----------------------------------------------------------------------------
(* The loop around the queries *)

\* The container starts: claims are released while nothing has been given in this
\* life, and what is resumed is what was persisted, under either key.
LEMMA StartKeepsInv ==
  ASSUME IInv, StartStep
  PROVE  IInv' /\ DoneStep
<1>0. TypeOK /\ ClaimsInv /\ GivenInv /\ ForgottenInv
  BY DEF IInv
<1>1. /\ rows' = rows /\ batch' = batch /\ query' = query /\ follow' = follow
      /\ lastId' = lastId /\ forgotten' = forgotten /\ given' = given /\ lives' = lives
      /\ crashes' = crashes /\ pc \in {"down", "starting"} /\ query = NoQuery
  BY <1>0 DEF StartStep, DropLegacy, Start, history, TypeOK
<1>2. 0 \notin forgotten
  BY <1>0 DEF TypeOK
<1>3. CASE DropLegacy
  <2>1. /\ memory' = legacy /\ legacy' = 0 /\ pc' = "starting" /\ ack' = ack /\ disk' = disk
    BY <1>3 DEF DropLegacy, LegacyAfterRead
  <2>2. TypeOK'
    BY <1>0, <1>1, <2>1 DEF TypeOK
  <2>3. ClaimsInv' /\ GivenInv'
    BY <1>0, <1>1, <2>1 DEF ClaimsInv, GivenInv, Ahead
  <2>4. ForgottenInv'
    BY <1>0, <1>1, <1>2, <2>1 DEF ForgottenInv, ClearedIsForgotten
  <2> QED
    BY <1>1, <2>1, <2>2, <2>3, <2>4 DEF IInv, DoneStep
<1>4. ASSUME NEW rotate \in BOOLEAN, Start(rotate)
      PROVE  IInv' /\ DoneStep
  <2>1. /\ memory' \in {0, disk, memory} /\ disk' = memory' /\ ack' = Released /\ pc' = "poll"
        /\ legacy' = legacy /\ legacy = 0
    BY <1>0, <1>4 DEF Start, Adopted, ClaimsAtStart, ForgottenInv
  <2>2. /\ ack' \in Acks /\ \A m \in Messages : ack[m] = "completed" => ack'[m] = "completed"
    <3>1. ack \in Acks
      BY <1>0 DEF TypeOK, Acks
    <3> QED
      BY <2>1, <3>1, ClaimsTyped
  <2>3. TypeOK'
    BY <1>0, <1>1, <2>1, <2>2 DEF TypeOK, Acks
  <2>4. ClaimsInv'
    BY <1>0, <1>1, <2>1 DEF ClaimsInv
  <2>5. GivenInv'
    BY <1>0, <1>1, <2>1 DEF GivenInv, ClaimsInv, Ahead
  <2>6. ForgottenInv'
    BY <1>0, <1>1, <1>2, <2>1 DEF ForgottenInv, ClearedIsForgotten
  <2> QED
    BY <1>1, <2>2, <2>3, <2>4, <2>5, <2>6 DEF IInv, DoneStep
<1> QED
  BY <1>3, <1>4 DEF StartStep

\* Rows that are claimed were claimed by nobody, and so were not given in this life.
LEMMA PollKeepsInv ==
  ASSUME IInv, Poll
  PROVE  IInv' /\ DoneStep
<1>0. TypeOK /\ ClaimsInv /\ GivenInv /\ ForgottenInv
  BY DEF IInv
<1>1. /\ UNCHANGED <<legacy, rows, disk, memory, query, follow, lastId, forgotten, given,
                     lives, crashes>>
      /\ pc = "poll" /\ query = NoQuery /\ batch = {}
  BY <1>0 DEF Poll, history, TypeOK, ClaimsInv
<1>2. CASE UNCHANGED <<ack, pc, batch>>
  <2>1. TypeOK' /\ ClaimsInv' /\ GivenInv' /\ ForgottenInv'
    BY <1>0, <1>1, <1>2 DEF TypeOK, ClaimsInv, GivenInv, ForgottenInv, ClearedIsForgotten,
       Ahead
  <2> QED
    BY <1>1, <1>2, <2>1 DEF IInv, DoneStep
<1>3. CASE /\ ack' = Claimed(Unclaimed(isFirstPoll))
           /\ batch' = Unclaimed(isFirstPoll) /\ pc' = "claimed"
  <2>1. /\ ack' = Claimed(Unclaimed(isFirstPoll))
        /\ batch' = Unclaimed(isFirstPoll) /\ pc' = "claimed"
    BY <1>3
  <2>2. batch' \in SUBSET Messages /\ \A m \in batch' : ack[m] = "none"
    BY <1>0, <2>1, UnclaimedRows
  <2>3. /\ ack' \in Acks /\ \A m \in batch' : ack'[m] = "processing"
        /\ \A m \in Messages \ batch' : ack'[m] = ack[m]
    <3>1. ack \in Acks
      BY <1>0 DEF TypeOK, Acks
    <3> QED
      BY <2>1, <2>2, <3>1, ClaimsTyped
  <2>4. TypeOK'
    BY <1>0, <1>1, <2>1, <2>2, <2>3 DEF TypeOK, Acks
  <2>5. ClaimsInv'
    <3>1. \A f \in follow : \A m \in f.ids : m \in Messages /\ m \notin batch'
      BY <1>0, <2>2 DEF ClaimsInv, TypeOK
    <3> QED
      BY <1>0, <1>1, <2>1, <2>2, <2>3, <3>1 DEF ClaimsInv, Ahead
  <2>6. GivenInv'
    BY <1>0, <1>1, <2>1, <2>2, <2>3 DEF GivenInv, Ahead
  <2>7. ForgottenInv'
    BY <1>0, <1>1, <2>1 DEF ForgottenInv, ClearedIsForgotten
  <2>8. DoneStep
    BY <1>1, <2>2, <2>3 DEF DoneStep
  <2> QED
    BY <2>4, <2>5, <2>6, <2>7, <2>8 DEF IInv
<1> QED
  BY <1>2, <1>3 DEF Poll

\* /clear forgets every conversation there was: nothing is left of them.
LEMMA ClearKeepsInv ==
  ASSUME IInv, ClearSession
  PROVE  IInv' /\ DoneStep
<1>0. TypeOK /\ ClaimsInv /\ GivenInv /\ ForgottenInv
  BY DEF IInv
<1>1. /\ UNCHANGED <<legacy, rows, ack, batch, query, follow, lastId, given, lives, crashes>>
      /\ pc = "claimed" /\ pc' \in {"cleared", "scripts"} /\ query = NoQuery /\ legacy = 0
  BY <1>0 DEF ClearSession, TypeOK, ForgottenInv
<1>2. \/ UNCHANGED <<memory, disk, forgotten>>
      \/ memory' = 0 /\ disk' = 0 /\ forgotten' = 1..lastId
  BY DEF ClearSession, DiskAfterClear
<1>3. TypeOK'
  <2>1. {legacy', disk', memory'} \subseteq 0..lastId' /\ forgotten' \subseteq 1..lastId'
    <3>1. lastId \in Nat /\ lastId' = lastId /\ legacy' = legacy /\ 0 \in 0..lastId
      BY <1>0, <1>1 DEF TypeOK
    <3>2. CASE UNCHANGED <<memory, disk, forgotten>>
      BY <1>0, <3>1, <3>2 DEF TypeOK
    <3>3. CASE memory' = 0 /\ disk' = 0 /\ forgotten' = 1..lastId
      <4>1. legacy' \in 0..lastId'
        BY <1>0, <3>1 DEF TypeOK
      <4> QED
        BY <3>1, <3>3, <4>1
    <3> QED
      BY <1>2, <3>2, <3>3
  <2>2. /\ follow' = follow /\ pc' # "query" /\ pc # "query" /\ query' = query
    BY <1>1
  <2> QED
    BY <1>0, <1>1, <2>1, <2>2 DEF TypeOK
<1>4. ClaimsInv'
  BY <1>0, <1>1 DEF ClaimsInv, Ahead
<1>5. GivenInv'
  BY <1>0, <1>1 DEF GivenInv, Ahead
<1>6. ForgottenInv'
  <2>1. 0 \notin 1..lastId
    BY <1>0 DEF TypeOK
  <2> QED
    BY <1>0, <1>1, <1>2, <2>1 DEF ForgottenInv, ClearedIsForgotten, NoQuery, TypeOK
<1> QED
  BY <1>1, <1>3, <1>4, <1>5, <1>6 DEF IInv, DoneStep

\* Rows of the batch are completed and leave it.
LEMMA ShrinkKeepsInv ==
  ASSUME IInv, Ahead, NEW gone \in SUBSET batch,
         ack' = Completed(gone), batch' = batch \ gone,
         \/ (batch' = {} /\ pc' = "poll") \/ pc' = "scripts",
         UNCHANGED <<legacy, rows, disk, memory, query, follow, lastId, forgotten, given,
                     lives, crashes>>
  PROVE  IInv' /\ DoneStep
<1>0. TypeOK /\ ClaimsInv /\ GivenInv /\ ForgottenInv
  BY DEF IInv
<1>1. /\ ack' \in Acks /\ \A m \in gone : ack'[m] = "completed"
      /\ \A m \in Messages \ gone : ack'[m] = ack[m]
      /\ batch \in SUBSET Messages
  <2>1. ack \in Acks /\ gone \in SUBSET Messages
    BY <1>0 DEF TypeOK, Acks
  <2> QED
    BY <1>0, <2>1, ClaimsTyped DEF TypeOK
<1>2. TypeOK'
  BY <1>0, <1>1 DEF TypeOK, Acks, Ahead
<1>3. ClaimsInv'
  <2>1. \A f \in follow : \A m \in f.ids : m \in Messages /\ m \notin gone
    BY <1>0 DEF ClaimsInv, TypeOK
  <2> QED
    BY <1>0, <1>1, <2>1 DEF ClaimsInv, Ahead
<1>4. GivenInv'
  BY <1>0, <1>1 DEF GivenInv, Ahead
<1>5. ForgottenInv'
  BY <1>0 DEF ForgottenInv, ClearedIsForgotten, Ahead
<1> QED
  BY <1>1, <1>2, <1>3, <1>4, <1>5 DEF IInv, DoneStep

LEMMA CommandsKeepInv ==
  ASSUME IInv, CompleteCommands
  PROVE  IInv' /\ DoneStep
<1> DEFINE gone == {m \in batch : IsClear(m)}
<1>1. batch' = batch \ gone /\ ack' = Completed(gone) /\ Ahead
  BY DEF CompleteCommands, Ahead
<1>2. \/ batch' = {} /\ pc' = "poll"
      \/ pc' = "scripts"
  BY DEF CompleteCommands
<1> HIDE DEF gone
<1>3. gone \in SUBSET batch
  BY DEF gone
<1> QED
  BY <1>1, <1>2, <1>3, ShrinkKeepsInv DEF CompleteCommands, history

\* A query begins: each row of the batch is given for the first time in this life.
LEMMA QueryKeepsInv ==
  ASSUME IInv, NEW skipped \in SUBSET Messages, StartQuery(skipped)
  PROVE  IInv' /\ DoneStep
<1>0. TypeOK /\ ClaimsInv /\ GivenInv /\ ForgottenInv
  BY DEF IInv
<1>1. /\ UNCHANGED <<legacy, rows, disk, memory, follow, lastId, forgotten, lives, crashes>>
      /\ pc = "scripts" /\ query = NoQuery
      /\ skipped \in SUBSET batch /\ ack' = Completed(skipped) /\ batch' = batch \ skipped
  BY <1>0 DEF StartQuery, Tasks, TypeOK
<1>2. CASE batch' = {}
  <2>1. pc' = "poll" /\ query' = query /\ given' = given
    BY <1>2 DEF StartQuery
  <2> QED
    BY <1>1, <1>2, <2>1, ShrinkKeepsInv DEF Ahead
<1>3. CASE batch' # {}
  <2>1. /\ query' = [NoQuery EXCEPT !.resume = memory, !.inputs = <<batch'>>]
        /\ given' = Given(batch') /\ pc' = "query"
    BY <1>3 DEF StartQuery
  <2>2. /\ ack' \in Acks /\ \A m \in skipped : ack'[m] = "completed"
        /\ \A m \in Messages \ skipped : ack'[m] = ack[m]
        /\ batch' \in SUBSET Messages
    <3>1. ack \in Acks /\ batch \in SUBSET Messages
      BY <1>0 DEF TypeOK, Acks
    <3> QED
      BY <1>1, <3>1, ClaimsTyped
  <2>3. /\ given' \in [Messages -> Nat]
        /\ \A m \in batch' : given'[m] <= given[m] + 1
        /\ \A m \in Messages \ batch' : given'[m] = given[m]
    BY <1>0, <2>1, <2>2, GivenTyped DEF TypeOK
  <2>4. /\ query' \in [resume : 0..lastId', conversation : 0..lastId',
                       inputs : Seq(SUBSET Messages), ended : BOOLEAN, nudged : BOOLEAN]
        /\ query'.resume = memory /\ query'.conversation = 0
    <3>1. <<batch'>> \in Seq(SUBSET Messages)
      BY <2>2
    <3> QED
      BY <1>0, <1>1, <2>1, <3>1 DEF TypeOK, NoQuery
  <2>5. TypeOK'
    BY <1>0, <1>1, <2>1, <2>2, <2>3, <2>4 DEF TypeOK, Acks
  <2>6. \A m \in batch : ack[m] = "processing"
    BY <1>0, <1>1 DEF ClaimsInv, Ahead
  <2>7. ClaimsInv'
    <3>1. \A f \in follow : \A m \in f.ids : m \in Messages /\ m \notin skipped
      BY <1>0, <1>1 DEF ClaimsInv, TypeOK
    <3> QED
      BY <1>0, <1>1, <2>1, <2>2, <2>6, <3>1 DEF ClaimsInv, Ahead
  <2>8. GivenInv'
    <3> SUFFICES ASSUME lives < MaxLives, NEW m \in Messages
                 PROVE  /\ given'[m] <= lives + 1
                        /\ \/ ack'[m] = "none"
                           \/ \E f \in follow : f.stage = "scripts" /\ m \in f.ids
                           => given'[m] <= lives
      BY <1>1, <2>1 DEF GivenInv, Ahead
    <3>1. given[m] \in Nat /\ given'[m] \in Nat /\ lives \in Nat
      BY <1>0, <2>3 DEF TypeOK
    <3>2. CASE m \in batch'
      <4>1. given[m] <= lives /\ ack'[m] # "none"
        BY <1>0, <1>1, <2>2, <2>6, <3>2 DEF GivenInv, Ahead
      <4>2. ~ \E f \in follow : m \in f.ids
        BY <1>0, <1>1, <3>2 DEF ClaimsInv
      <4> QED
        BY <2>3, <3>1, <3>2, <4>1, <4>2
    <3>3. CASE m \notin batch'
      <4>1. given'[m] = given[m] /\ (ack'[m] = "none" => ack[m] = "none")
        BY <2>2, <2>3, <3>3
      <4> QED
        BY <1>0, <4>1 DEF GivenInv
    <3> QED
      BY <3>2, <3>3
  <2>9. ForgottenInv'
    BY <1>0, <1>1, <2>1, <2>4 DEF ForgottenInv, ClearedIsForgotten, TypeOK
  <2>10. DoneStep
    BY <1>1, <2>2, <2>3, <2>6 DEF DoneStep
  <2> QED
    BY <2>5, <2>7, <2>8, <2>9, <2>10 DEF IInv
<1> QED
  BY <1>2, <1>3

\* The batch is done with, whether its query was answered or not.
LEMMA FinishKeepsInv ==
  ASSUME IInv, Finish
  PROVE  IInv' /\ DoneStep
<1>0. TypeOK /\ ClaimsInv /\ GivenInv /\ ForgottenInv
  BY DEF IInv
<1>1. /\ UNCHANGED <<legacy, rows, disk, memory, query, follow, lastId, forgotten, given,
                     lives, crashes>>
      /\ pc = "finish" /\ pc' = "poll" /\ ack' = Completed(batch) /\ batch' = {}
  BY DEF Finish, history
<1>2. /\ ack' \in Acks /\ \A m \in batch : ack'[m] = "completed"
      /\ \A m \in Messages \ batch : ack'[m] = ack[m]
  <2>1. ack \in Acks /\ batch \in SUBSET Messages
    BY <1>0 DEF TypeOK, Acks
  <2> QED
    BY <1>1, <2>1, ClaimsTyped
<1>3. TypeOK'
  BY <1>0, <1>1, <1>2 DEF TypeOK, Acks
<1>4. ClaimsInv'
  <2>1. \A f \in follow : \A m \in f.ids : m \in Messages /\ m \notin batch
    BY <1>0 DEF ClaimsInv, TypeOK
  <2> QED
    BY <1>0, <1>1, <1>2, <2>1 DEF ClaimsInv
<1>5. GivenInv'
  BY <1>0, <1>1, <1>2 DEF GivenInv, Ahead
<1>6. ForgottenInv'
  BY <1>0, <1>1 DEF ForgottenInv, ClearedIsForgotten
<1> QED
  BY <1>1, <1>2, <1>3, <1>4, <1>5, <1>6 DEF IInv, DoneStep

-----------------------------------------------------------------------------
(* The events of a query *)

\* A conversation that is opened is a new one, so it was not cleared.
LEMMA AgentInitKeepsInv ==
  ASSUME IInv, NEW c \in 1..MaxIds, AgentInit(c)
  PROVE  IInv' /\ DoneStep
<1>0. TypeOK /\ ClaimsInv /\ GivenInv /\ ForgottenInv
  BY DEF IInv
<1>1. /\ UNCHANGED <<legacy, rows, ack, memory, pc, batch, follow, forgotten, given, lives,
                     crashes>>
      /\ pc = "query" /\ disk' = c /\ query' = [query EXCEPT !.conversation = c]
      /\ \/ c = query.resume /\ lastId' = lastId
         \/ c = lastId + 1 /\ lastId' = c
  BY DEF AgentInit, InQuery, loop
<1>2. /\ lastId' \in Nat /\ lastId <= lastId' /\ c \in 0..lastId' /\ c \notin forgotten
      /\ lastId \in Nat
  BY <1>0, <1>1 DEF TypeOK, ForgottenInv, ClearedIsForgotten
<1>3. /\ query' \in [resume : 0..lastId', conversation : 0..lastId',
                     inputs : Seq(SUBSET Messages), ended : BOOLEAN, nudged : BOOLEAN]
      /\ query'.resume = query.resume /\ query'.conversation = c
  <2>1. query.resume \in 0..lastId'
    BY <1>0, <1>2 DEF TypeOK
  <2> QED
    BY <1>0, <1>1, <1>2, <2>1 DEF TypeOK
<1>4. TypeOK'
  <2>1. {legacy', disk', memory'} \subseteq 0..lastId'
    BY <1>0, <1>1, <1>2 DEF TypeOK
  <2>2. forgotten' \subseteq 1..lastId'
    BY <1>0, <1>1, <1>2 DEF TypeOK
  <2> QED
    BY <1>0, <1>1, <1>2, <1>3, <2>1, <2>2 DEF TypeOK
<1>5. ClaimsInv' /\ GivenInv'
  BY <1>0, <1>1 DEF ClaimsInv, GivenInv, Ahead
<1>6. ForgottenInv'
  BY <1>0, <1>1, <1>2, <1>3 DEF ForgottenInv, ClearedIsForgotten
<1> QED
  BY <1>1, <1>4, <1>5, <1>6 DEF IInv, DoneStep

LEMMA AgentResultKeepsInv ==
  ASSUME IInv, NEW n \in Nat, NEW unwrapped \in BOOLEAN, AgentResult(n, unwrapped)
  PROVE  IInv' /\ DoneStep
<1>0. TypeOK /\ ClaimsInv /\ GivenInv /\ ForgottenInv
  BY DEF IInv
<1>1. /\ UNCHANGED <<legacy, rows, disk, memory, pc, batch, follow, lastId, forgotten, given,
                     lives, crashes>>
      /\ pc = "query" /\ ack' = Completed(batch) /\ n \in 0..Len(query.inputs)
  BY DEF AgentResult, InQuery, loop, history
<1>2. /\ ack' \in Acks /\ \A m \in batch : ack'[m] = "completed"
      /\ \A m \in Messages \ batch : ack'[m] = ack[m]
  <2>1. ack \in Acks /\ batch \in SUBSET Messages
    BY <1>0 DEF TypeOK, Acks
  <2> QED
    BY <1>1, <2>1, ClaimsTyped
<1>3. /\ query' \in [resume : 0..lastId, conversation : 0..lastId,
                     inputs : Seq(SUBSET Messages), ended : BOOLEAN, nudged : BOOLEAN]
      /\ query'.resume = query.resume /\ query'.conversation = query.conversation
  <2> DEFINE nudge == unwrapped /\ ~query.nudged
             rest == SubSeq(query.inputs, n + 1, Len(query.inputs))
  <2>1. query.inputs \in Seq(SUBSET Messages) /\ Len(query.inputs) \in Nat
    BY <1>0 DEF TypeOK
  <2>2. rest \in Seq(SUBSET Messages)
    <3>1. \A i \in n + 1 .. Len(query.inputs) : query.inputs[i] \in SUBSET Messages
      BY <2>1
    <3> QED
      BY <2>1, <3>1, SubSeqProperties
  <2>3. Append(rest, {}) \in Seq(SUBSET Messages)
    BY <2>2, AppendProperties
  <2>4. query' = [query EXCEPT !.inputs = IF nudge THEN Append(rest, {}) ELSE rest,
                               !.nudged = query.nudged \/ nudge]
    BY DEF AgentResult
  <2> HIDE DEF rest
  <2> QED
    BY <1>0, <2>2, <2>3, <2>4 DEF TypeOK
<1>4. TypeOK'
  BY <1>0, <1>1, <1>2, <1>3 DEF TypeOK, Acks
<1>5. ClaimsInv'
  <2>1. \A f \in follow : \A m \in f.ids : m \in Messages /\ m \notin batch
    BY <1>0 DEF ClaimsInv, TypeOK
  <2> QED
    BY <1>0, <1>1, <1>2, <2>1 DEF ClaimsInv, Ahead
<1>6. GivenInv'
  BY <1>0, <1>1, <1>2 DEF GivenInv, Ahead
<1>7. ForgottenInv'
  BY <1>0, <1>1, <1>3 DEF ForgottenInv, ClearedIsForgotten
<1> QED
  BY <1>1, <1>2, <1>4, <1>5, <1>6, <1>7 DEF IInv, DoneStep

\* The query is over, and follow-up polls still waiting for scripts belong to none.
LEMMA StreamKeepsInv ==
  ASSUME IInv, StreamEnds \/ \E invalid \in BOOLEAN : StreamFails(invalid)
  PROVE  IInv' /\ DoneStep
<1>0. TypeOK /\ ClaimsInv /\ GivenInv /\ ForgottenInv
  BY DEF IInv
<1>1. /\ UNCHANGED <<legacy, rows, ack, batch, lastId, forgotten, given, lives, crashes>>
      /\ pc = "query" /\ pc' = "finish" /\ query' = NoQuery /\ follow' = Stale
      /\ \A f \in follow : f.stage = "scripts"
      /\ memory' \in {0, memory, query.conversation}
      /\ disk' \in {0, disk, query.conversation}
  BY DEF StreamEnds, StreamFails, InQuery, AtAwait, history
<1>2. ASSUME NEW g \in follow'
      PROVE  /\ g \in [ids : SUBSET Messages, done : BOOLEAN, stage : {"scripts", "pushed"}]
             /\ g.done /\ g.stage = "scripts"
             /\ \E f \in follow : g = FollowUp(f.ids, TRUE, f.stage) /\ f.ids = g.ids
  <2>1. PICK f \in follow : g = FollowUp(f.ids, TRUE, f.stage)
    BY <1>1 DEF Stale
  <2>2. /\ f.ids \in SUBSET Messages /\ f.stage = "scripts"
    BY <1>0, <1>1 DEF TypeOK
  <2> QED
    BY <2>1, <2>2 DEF FollowUp
<1>3. ASSUME NEW g \in follow', NEW h \in follow', g # h
      PROVE  \E e, f \in follow : e.ids = g.ids /\ f.ids = h.ids /\ e # f
  <2>1. PICK e \in follow : g = FollowUp(e.ids, TRUE, e.stage) /\ e.ids = g.ids
    BY <1>2
  <2>2. PICK f \in follow : h = FollowUp(f.ids, TRUE, f.stage) /\ f.ids = h.ids
    BY <1>2
  <2> QED
    BY <1>3, <2>1, <2>2
<1>4. TypeOK'
  <2>1. query' \in [resume : 0..lastId', conversation : 0..lastId', inputs : Seq(SUBSET Messages),
                    ended : BOOLEAN, nudged : BOOLEAN]
    BY <1>0, <1>1 DEF TypeOK, NoQuery
  <2>2. {legacy', disk', memory'} \subseteq 0..lastId'
    BY <1>0, <1>1 DEF TypeOK
  <2>3. /\ follow' \subseteq [ids : SUBSET Messages, done : BOOLEAN, stage : {"scripts", "pushed"}]
        /\ \A f, g \in follow' : ~f.done /\ ~g.done => f = g
        /\ \A f \in follow' : (~f.done => pc' = "query") /\ (f.stage = "pushed" => ~f.done)
    BY <1>2
  <2> QED
    BY <1>0, <1>1, <2>1, <2>2, <2>3 DEF TypeOK
<1>5. ClaimsInv'
  <2>1. \A g \in follow' : \A m \in g.ids : ack[m] = "processing" /\ m \notin batch
    BY <1>0, <1>2 DEF ClaimsInv
  <2>2. \A g, h \in follow' : g # h => g.ids \cap h.ids = {}
    BY <1>0, <1>3 DEF ClaimsInv
  <2> QED
    BY <1>0, <1>1, <2>1, <2>2 DEF ClaimsInv, Ahead
<1>6. GivenInv'
  BY <1>0, <1>1, <1>2 DEF GivenInv, Ahead
<1>7. ForgottenInv'
  BY <1>0, <1>1 DEF ForgottenInv, ClearedIsForgotten, NoQuery, TypeOK
<1> QED
  BY <1>1, <1>4, <1>5, <1>6, <1>7 DEF IInv, DoneStep

-----------------------------------------------------------------------------
(* The follow-up poll *)

\* It claims what nobody holds, or ends the query for a command.
LEMMA FollowPollKeepsInv ==
  ASSUME IInv, FollowPoll
  PROVE  IInv' /\ DoneStep
<1> DEFINE pending == Unclaimed(FALSE)
           new == FollowUp(pending, FALSE, "scripts")
<1>0. TypeOK /\ ClaimsInv /\ GivenInv /\ ForgottenInv
  BY DEF IInv
<1>1. /\ UNCHANGED <<legacy, rows, disk, memory, pc, batch, lastId, forgotten, given, lives,
                     crashes>>
      /\ pc = "query" /\ \A f \in follow : f.done
  <2>1. \A f \in follow : f.done = TRUE \/ ~f.done
    BY <1>0 DEF TypeOK
  <2> QED
    BY <2>1 DEF FollowPoll, InQuery, PollInFlight, loop, history
<1>2. CASE query' = [query EXCEPT !.ended = TRUE] /\ UNCHANGED <<ack, follow>>
  <2>1. /\ query' \in [resume : 0..lastId, conversation : 0..lastId,
                       inputs : Seq(SUBSET Messages), ended : BOOLEAN, nudged : BOOLEAN]
        /\ query'.resume = query.resume /\ query'.conversation = query.conversation
    BY <1>0, <1>2 DEF TypeOK
  <2>2. TypeOK'
    BY <1>0, <1>1, <1>2, <2>1 DEF TypeOK
  <2>3. ClaimsInv' /\ GivenInv'
    BY <1>0, <1>1, <1>2 DEF ClaimsInv, GivenInv, Ahead
  <2>4. ForgottenInv'
    BY <1>0, <1>1, <2>1 DEF ForgottenInv, ClearedIsForgotten
  <2> QED
    BY <1>1, <1>2, <2>2, <2>3, <2>4 DEF IInv, DoneStep
<1>3. CASE ack' = Claimed(pending) /\ follow' = follow \cup {new} /\ query' = query
  <2>1. pending \in SUBSET Messages /\ \A m \in pending : ack[m] = "none"
    BY <1>0, UnclaimedRows
  <2> HIDE DEF pending, new
  <2>2. /\ ack' \in Acks /\ \A m \in pending : ack'[m] = "processing"
        /\ \A m \in Messages \ pending : ack'[m] = ack[m]
    <3>1. ack \in Acks
      BY <1>0 DEF TypeOK, Acks
    <3>2. ack' = Claimed(pending)
      BY <1>3
    <3> QED
      BY <2>1, <3>1, <3>2, ClaimsTyped
  <2>3. /\ new \in [ids : SUBSET Messages, done : BOOLEAN, stage : {"scripts", "pushed"}]
        /\ new.ids = pending /\ ~new.done /\ new.stage = "scripts"
    BY <2>1 DEF FollowUp, new
  <2>4. TypeOK'
    BY <1>0, <1>1, <1>3, <2>2, <2>3 DEF TypeOK, Acks
  <2>5. ClaimsInv'
    <3>1. \A f \in follow : /\ \A m \in f.ids : /\ m \in Messages /\ m \notin pending
                                             /\ ack'[m] = "processing" /\ m \notin batch
                          /\ f.ids \cap new.ids = {}
      BY <1>0, <2>1, <2>2, <2>3 DEF ClaimsInv, TypeOK
    <3>2. \A m \in batch : m \in Messages /\ m \notin pending
      BY <1>0, <2>1 DEF ClaimsInv, TypeOK
    <3> QED
      BY <1>0, <1>1, <1>3, <2>2, <2>3, <3>1, <3>2 DEF ClaimsInv, Ahead
  <2>6. GivenInv'
    <3> SUFFICES ASSUME lives < MaxLives, NEW m \in Messages
                 PROVE  /\ given[m] <= lives + 1
                        /\ \/ ack'[m] = "none"
                           \/ \E f \in follow' : f.stage = "scripts" /\ m \in f.ids
                           => given[m] <= lives
      BY <1>1 DEF GivenInv, Ahead
    <3>1. CASE m \in pending
      BY <1>0, <2>1, <3>1 DEF GivenInv
    <3>2. CASE m \notin pending
      BY <1>0, <1>3, <2>2, <2>3, <3>2 DEF GivenInv
    <3> QED
      BY <3>1, <3>2
  <2>7. ForgottenInv'
    BY <1>0, <1>1, <1>3 DEF ForgottenInv, ClearedIsForgotten
  <2>8. DoneStep
    BY <1>1, <2>1, <2>2 DEF DoneStep
  <2> QED
    BY <2>4, <2>5, <2>6, <2>7, <2>8 DEF IInv
<1> QED
  BY <1>2, <1>3 DEF FollowPoll, AckOnFollowUp

\* Its scripts have run: what is left is given, for the first time in this life, or
\* let go of if the query is over.
LEMMA FollowScriptsKeepsInv ==
  ASSUME IInv, NEW f \in follow, NEW skipped \in SUBSET f.ids, FollowScripts(f, skipped)
  PROVE  IInv' /\ DoneStep
<1> DEFINE keep == f.ids \ skipped
           new == FollowUp(keep, FALSE, "pushed")
<1>0. TypeOK /\ ClaimsInv /\ GivenInv /\ ForgottenInv
  BY DEF IInv
<1>1. /\ UNCHANGED <<legacy, rows, disk, memory, pc, batch, lastId, forgotten, lives, crashes>>
      /\ pc \in {"poll", "scripts", "query"} /\ \A g \in follow : g.stage = "scripts"
      /\ ack' = Completed(skipped)
  BY DEF FollowScripts, AtAwait, loop
<1>2. f.ids \in SUBSET Messages /\ keep \in SUBSET Messages /\ skipped \in SUBSET Messages
  BY <1>0 DEF TypeOK
<1>3. /\ ack' \in Acks /\ \A m \in skipped : ack'[m] = "completed"
      /\ \A m \in Messages \ skipped : ack'[m] = ack[m]
  <2>1. ack \in Acks
    BY <1>0 DEF TypeOK, Acks
  <2> QED
    BY <1>1, <1>2, <2>1, ClaimsTyped
<1>4. \A m \in f.ids : ack[m] = "processing" /\ m \notin batch
  BY <1>0 DEF ClaimsInv
<1>5. ASSUME NEW g \in follow, g # f
      PROVE  /\ g.ids \cap f.ids = {} /\ \A m \in g.ids : ack'[m] = "processing" /\ m \notin batch
  BY <1>0, <1>2, <1>3, <1>5 DEF ClaimsInv, TypeOK
<1>6. \A m \in batch : ack'[m] = ack[m]
  BY <1>0, <1>2, <1>3, <1>4 DEF TypeOK
<1>7. CASE follow' = follow \ {f} /\ UNCHANGED <<query, given>>
  <2>1. TypeOK'
    BY <1>0, <1>1, <1>3, <1>7 DEF TypeOK, Acks
  <2>2. ClaimsInv'
    BY <1>0, <1>1, <1>5, <1>6, <1>7 DEF ClaimsInv, Ahead
  <2>3. GivenInv'
    BY <1>0, <1>1, <1>3, <1>7 DEF GivenInv, Ahead
  <2>4. ForgottenInv'
    BY <1>0, <1>1, <1>7 DEF ForgottenInv, ClearedIsForgotten
  <2>5. DoneStep
    BY <1>2, <1>3, <1>7 DEF DoneStep
  <2> QED
    BY <2>1, <2>2, <2>3, <2>4, <2>5 DEF IInv
<1>8. CASE /\ ~f.done /\ follow' = (follow \ {f}) \cup {new} /\ given' = Given(keep)
           /\ query' = [query EXCEPT !.inputs = Append(query.inputs, keep), !.nudged = FALSE]
  <2>1. pc = "query" /\ \A g \in follow : g # f => g.done
    <3>1. \A g \in follow : g.done \in BOOLEAN
      BY <1>0 DEF TypeOK
    <3>2. \A g, h \in follow : ~g.done /\ ~h.done => g = h
      BY <1>0 DEF TypeOK
    <3>3. \A g \in follow : ~g.done => g = f
      BY <1>8, <3>2
    <3>4. pc = "query"
      <4>1. \A g \in follow : ~g.done => pc = "query"
        BY <1>0 DEF TypeOK
      <4> QED
        BY <1>8, <4>1
    <3> QED
      BY <3>1, <3>3, <3>4
  <2>2. /\ query' \in [resume : 0..lastId, conversation : 0..lastId,
                       inputs : Seq(SUBSET Messages), ended : BOOLEAN, nudged : BOOLEAN]
        /\ query'.resume = query.resume /\ query'.conversation = query.conversation
    <3>1. Append(query.inputs, keep) \in Seq(SUBSET Messages)
      <4>1. query.inputs \in Seq(SUBSET Messages)
        BY <1>0 DEF TypeOK
      <4> QED
        BY <1>2, <4>1, AppendProperties
    <3> QED
      BY <1>0, <1>8, <3>1 DEF TypeOK
  <2>3. /\ given' \in [Messages -> Nat]
        /\ \A m \in keep : given'[m] <= given[m] + 1
        /\ \A m \in Messages \ keep : given'[m] = given[m]
    BY <1>0, <1>2, <1>8, GivenTyped DEF TypeOK
  <2>4. /\ new \in [ids : SUBSET Messages, done : BOOLEAN, stage : {"scripts", "pushed"}]
        /\ new.ids = keep /\ ~new.done /\ new.stage = "pushed"
    BY <1>2 DEF FollowUp
  <2> HIDE DEF new
  <2>5. TypeOK'
    <3>1. /\ follow' \subseteq [ids : SUBSET Messages, done : BOOLEAN, stage : {"scripts", "pushed"}]
          /\ \A g, h \in follow' : ~g.done /\ ~h.done => g = h
          /\ \A g \in follow' : (~g.done => pc' = "query") /\ (g.stage = "pushed" => ~g.done)
      BY <1>0, <1>1, <1>8, <2>1, <2>4 DEF TypeOK
    <3> QED
      BY <1>0, <1>1, <1>3, <2>1, <2>2, <2>3, <3>1 DEF TypeOK, Acks
  <2>6. ClaimsInv'
    <3>1. \A g \in follow' : \A m \in g.ids : ack'[m] = "processing" /\ m \notin batch
      BY <1>2, <1>3, <1>4, <1>5, <1>8, <2>4
    <3>2. \A g, h \in follow' : g # h => g.ids \cap h.ids = {}
      <4> SUFFICES ASSUME NEW g \in follow', NEW h \in follow', g # h
                   PROVE  g.ids \cap h.ids = {}
        OBVIOUS
      <4>1. CASE g = new
        BY <1>5, <1>8, <2>4, <4>1
      <4>2. CASE h = new
        BY <1>5, <1>8, <2>4, <4>2
      <4>3. CASE g \in follow /\ h \in follow
        BY <1>0, <4>3 DEF ClaimsInv
      <4> QED
        BY <1>8, <4>1, <4>2, <4>3
    <3> QED
      BY <1>0, <1>1, <1>6, <2>1, <3>1, <3>2 DEF ClaimsInv, Ahead
  <2>7. GivenInv'
    <3> SUFFICES ASSUME lives < MaxLives, NEW m \in Messages
                 PROVE  /\ given'[m] <= lives + 1
                        /\ \/ ack'[m] = "none"
                           \/ \E g \in follow' : g.stage = "scripts" /\ m \in g.ids
                           => given'[m] <= lives
      BY <1>1, <2>1 DEF GivenInv, Ahead
    <3>1. given[m] \in Nat /\ given'[m] \in Nat /\ lives \in Nat
      BY <1>0, <2>3 DEF TypeOK
    <3>2. CASE m \in keep
      <4>1. given[m] <= lives
        BY <1>0, <1>1, <3>2 DEF GivenInv
      <4>2. ack'[m] # "none"
        BY <1>2, <1>3, <1>4, <3>2
      <4>3. ~ \E g \in follow' : g.stage = "scripts" /\ m \in g.ids
        BY <1>5, <1>8, <2>4, <3>2
      <4> QED
        BY <2>3, <3>1, <3>2, <4>1, <4>2, <4>3
    <3>3. CASE m \notin keep
      <4>1. given'[m] = given[m] /\ (ack'[m] = "none" => ack[m] = "none")
        BY <1>3, <2>3, <3>3
      <4>2. \A g \in follow' : g.stage = "scripts" => g \in follow
        BY <1>8, <2>4
      <4> QED
        BY <1>0, <4>1, <4>2 DEF GivenInv
    <3> QED
      BY <3>2, <3>3
  <2>8. ForgottenInv'
    BY <1>0, <1>1, <2>2 DEF ForgottenInv, ClearedIsForgotten
  <2>9. DoneStep
    BY <1>2, <1>3, <1>4, <2>3 DEF DoneStep
  <2> QED
    BY <2>5, <2>6, <2>7, <2>8, <2>9 DEF IInv
<1> QED
  BY <1>7, <1>8 DEF FollowScripts

LEMMA FollowCompleteKeepsInv ==
  ASSUME IInv, NEW f \in follow, FollowComplete(f)
  PROVE  IInv' /\ DoneStep
<1>0. TypeOK /\ ClaimsInv /\ GivenInv /\ ForgottenInv
  BY DEF IInv
<1>1. /\ UNCHANGED <<legacy, rows, disk, memory, pc, batch, query, lastId, forgotten, given,
                     lives, crashes>>
      /\ ack' = Completed(f.ids) /\ follow' = follow \ {f}
  BY DEF FollowComplete, loop, history
<1>2. /\ ack' \in Acks /\ \A m \in f.ids : ack'[m] = "completed"
      /\ \A m \in Messages \ f.ids : ack'[m] = ack[m] /\ f.ids \in SUBSET Messages
  <2>1. ack \in Acks /\ f.ids \in SUBSET Messages
    BY <1>0 DEF TypeOK, Acks
  <2> QED
    BY <1>1, <2>1, ClaimsTyped
<1>3. TypeOK'
  BY <1>0, <1>1, <1>2 DEF TypeOK, Acks
<1>4. ClaimsInv'
  <2>1. \A g \in follow' : \A m \in g.ids : m \in Messages \ f.ids
    BY <1>0, <1>1 DEF ClaimsInv, TypeOK
  <2>2. \A m \in batch : m \in Messages \ f.ids
    BY <1>0 DEF ClaimsInv, TypeOK
  <2> QED
    BY <1>0, <1>1, <1>2, <2>1, <2>2 DEF ClaimsInv, Ahead
<1>5. GivenInv'
  BY <1>0, <1>1, <1>2 DEF GivenInv, Ahead
<1>6. ForgottenInv'
  BY <1>0, <1>1 DEF ForgottenInv, ClearedIsForgotten
<1>7. DoneStep
  BY <1>1, <1>2 DEF DoneStep
<1> QED
  BY <1>3, <1>4, <1>5, <1>6, <1>7 DEF IInv

\* What a poll that throws held has no holder until the host releases it.
LEMMA FollowFailsKeepsInv ==
  ASSUME IInv, NEW f \in follow, NEW skipped \in SUBSET f.ids, FollowFails(f, skipped)
  PROVE  IInv' /\ DoneStep
<1>0. TypeOK /\ ClaimsInv /\ GivenInv /\ ForgottenInv
  BY DEF IInv
<1>1. /\ UNCHANGED <<legacy, rows, disk, memory, pc, batch, query, lastId, forgotten, given,
                     lives>>
      /\ ack' = Completed(skipped) /\ follow' = follow \ {f} /\ crashes' = crashes + 1
  BY DEF FollowFails, loop
<1>2. /\ ack' \in Acks /\ \A m \in skipped : ack'[m] = "completed"
      /\ \A m \in Messages \ skipped : ack'[m] = ack[m] /\ skipped \in SUBSET Messages
  <2>1. ack \in Acks /\ skipped \in SUBSET Messages
    BY <1>0 DEF TypeOK, Acks
  <2> QED
    BY <1>1, <2>1, ClaimsTyped
<1>3. TypeOK'
  BY <1>0, <1>1, <1>2 DEF TypeOK, Acks
<1>4. ClaimsInv'
  <2>1. \A g \in follow' : \A m \in g.ids : m \in Messages \ f.ids
    BY <1>0, <1>1 DEF ClaimsInv, TypeOK
  <2>2. \A m \in batch : m \in Messages \ f.ids
    BY <1>0 DEF ClaimsInv, TypeOK
  <2> QED
    BY <1>0, <1>1, <1>2, <2>1, <2>2 DEF ClaimsInv, Ahead
<1>5. GivenInv'
  BY <1>0, <1>1, <1>2 DEF GivenInv, Ahead
<1>6. ForgottenInv'
  BY <1>0, <1>1 DEF ForgottenInv, ClearedIsForgotten
<1>7. DoneStep
  BY <1>1, <1>2 DEF DoneStep
<1> QED
  BY <1>3, <1>4, <1>5, <1>6, <1>7 DEF IInv

LEMMA NextKeepsInv == IInv /\ [Next]_vars => IInv' /\ [DoneStep]_vars
<1> SUFFICES ASSUME IInv, [Next]_vars PROVE IInv' /\ [DoneStep]_vars
  OBVIOUS
<1>1. CASE \E m \in Messages : Arrives(m)
  BY <1>1, ArrivesKeepsInv
<1>2. CASE Crash \/ HostKills
  BY <1>2, KillsKeepInv
<1>3. CASE StartStep
  BY <1>3, StartKeepsInv
<1>4. CASE OuterStep
  <2>1. CASE \E skipped \in SUBSET Messages : StartQuery(skipped)
    BY <2>1, QueryKeepsInv
  <2> QED
    BY <1>4, <2>1, PollKeepsInv, ClearKeepsInv, CommandsKeepInv, FinishKeepsInv DEF OuterStep
<1>5. CASE FollowPoll
  BY <1>5, FollowPollKeepsInv
<1>6. CASE FollowStep
  BY <1>6, FollowScriptsKeepsInv, FollowCompleteKeepsInv DEF FollowStep
<1>10. CASE \E f \in follow : \E skipped \in SUBSET f.ids : FollowFails(f, skipped)
  BY <1>10, FollowFailsKeepsInv
<1>7. CASE AgentStep \/ Compacts
  <2>1. CASE \E c \in 1..MaxIds : AgentInit(c)
    BY <2>1, AgentInitKeepsInv
  <2>2. CASE \E n \in Nat, unwrapped \in BOOLEAN : AgentResult(n, unwrapped)
    BY <2>2, AgentResultKeepsInv
  <2>3. 1..Len(query.inputs) \subseteq Nat
    BY DEF IInv, TypeOK
  <2> QED
    BY <1>7, <2>1, <2>2, <2>3 DEF AgentStep, Compacts
<1>8. CASE StreamEnds \/ \E invalid \in BOOLEAN : StreamFails(invalid)
  BY <1>8, StreamKeepsInv
<1>9. CASE UNCHANGED vars
  BY <1>9 DEF IInv, TypeOK, ClaimsInv, GivenInv, ForgottenInv, ClearedIsForgotten, Ahead,
     vars, durable, loop, history
<1> QED
  BY <1>1, <1>2, <1>3, <1>4, <1>5, <1>6, <1>7, <1>8, <1>9, <1>10 DEF Next

-----------------------------------------------------------------------------
(* Theorems *)

\* For any rows, of whatever kinds: the invariant holds.
THEOREM InvHolds == Spec => []IInv
<1>1. Init => IInv
  BY InitHasInv
<1>2. IInv /\ [Next]_vars => IInv'
  BY NextKeepsInv
<1> QED
  BY <1>1, <1>2, PTL DEF Spec

\* The batch and the follow-up polls, those of finished queries included, never hold
\* the same row, one follow-up poll works for a query, and in one life of the
\* container a row is given to the agent once (poll-loop.ts:138, 321, 352).
THEOREM OneHolderAlways == Spec => []OneHolder
<1>1. IInv => OneHolder
  <2> SUFFICES ASSUME IInv PROVE OneHolder
    OBVIOUS
  <2> DEFINE mine == {f \in follow : ~f.done}
  <2>1. Cardinality(mine) <= 1
    <3>1. CASE mine = {}
      BY <3>1, FS_EmptySet
    <3>2. CASE mine # {}
      <4>1. PICK f \in mine : TRUE
        BY <3>2
      <4>2. mine = {f}
        BY <4>1 DEF IInv, TypeOK
      <4>3. Cardinality({f}) = 1
        BY FS_Singleton
      <4> QED
        BY <4>2, <4>3
    <3> QED
      BY <3>1, <3>2
  <2>2. \A f \in follow : /\ f.ids \cap batch = {}
                          /\ \A g \in follow \ {f} : f.ids \cap g.ids = {}
    BY DEF IInv, ClaimsInv
  <2>3. lives < MaxLives => \A m \in Messages : given[m] <= lives + 1
    BY DEF IInv, GivenInv
  <2> QED
    BY <2>1, <2>2, <2>3 DEF IInv, OneHolder
<1> QED
  BY <1>1, InvHolds, PTL

\* Whatever is killed and started when: no conversation from before a /clear is
\* resumed, remembered or persisted (poll-loop.ts:149-163, session-state.ts:52-66).
THEOREM ClearedForEver == Spec => []ClearedIsForgotten
<1>1. IInv => ClearedIsForgotten
  BY DEF IInv, ForgottenInv
<1> QED
  BY <1>1, InvHolds, PTL

\* A completed row stays completed and is not given to the agent again.
THEOREM CompletedForEver == Spec => CompletedIsDone
<1>1. IInv /\ [Next]_vars => [DoneStep]_vars
  BY NextKeepsInv
<1>2. [DoneStep]_vars =>
        [\A m \in Messages : ack[m] = "completed" =>
           ack'[m] = "completed" /\ given'[m] = given[m]]_vars
  BY DEF DoneStep
<1> QED
  BY <1>1, <1>2, InvHolds, PTL DEF Spec, CompletedIsDone

=============================================================================
