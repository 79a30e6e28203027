----------------------------- MODULE MCDecisions -----------------------------
(***************************************************************************)
(* What becomes of a model's decision, in the two places that take one:    *)
(* the generic agent, which asks a finish for its evidence (AgentLoop),    *)
(* and the policy task, which reads actions from whatever the model        *)
(* answers (DecisionParsing). They share nothing: a behaviour is that of   *)
(* one and the other stays where it begins.                                *)
(*                                                                         *)
(* The agent has two pages, the first also under a tracking URL.           *)
(***************************************************************************)
EXTENDS AgentLoop, AgentTasks, MCAnswers, TLC

CONSTANTS a, aTracked, b, MaxContainers

VARIABLES
  used,                      \* who asks the model
  answer, stage, decision    \* of the policy task

Pages == {a, aTracked, b}
WithoutTracking == [u \in Pages |-> IF u = aTracked THEN a ELSE u]

Parser == INSTANCE DecisionParsing

Silence ==
  [decision |-> None, status |-> None, final |-> None, judged |-> None, packaged |-> FALSE,
   actions |-> [c \in Containers |-> Absent]]

parserVars == <<answer, stage, decision>>

\* Only the one that is explored begins in more ways than one.
DecisionsInit ==
  \/ /\ used = "agent"
     /\ Init
     /\ answer = Silence /\ Parser!Init
  \/ /\ used = "policy task"
     /\ task = TaskOf("natural", 1, 1, TRUE, 0, 1) /\ aborted = FALSE /\ Init
     /\ Parser!Init

DecisionsNext ==
  \/ used = "agent" /\ Next /\ UNCHANGED <<used, parserVars>>
  \/ used = "policy task" /\ Parser!Next /\ UNCHANGED <<used, vars>>

DecisionsSpec == DecisionsInit /\ [][DecisionsNext]_<<used, vars, parserVars>>

Interchangeable == Permutations(FindingIds)

-----------------------------------------------------------------------------
(* The properties of the parser; those of the agent have their names. *)

\* Nothing the model did not ask for is run by the policy task
\* (local-session-loop.ts:57-71).
NothingInvented == Parser!NothingInvented

\* An answer that keeps the output contract comes out as it went in
\* (ask-real-claude.ts:488-512).
CanonicalIsUnchanged == Parser!CanonicalIsUnchanged
=============================================================================
