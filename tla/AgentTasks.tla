----------------------------- MODULE AgentTasks -----------------------------
(* The tasks the agent loop is model-checked with.                         *)
EXTENDS Naturals

TaskOf(mode, rounds, target, evidence, minPages, perTurn) ==
  [maxIterations |-> rounds, completionMode |-> mode, targetResultCount |-> target,
   evidenceRequired |-> evidence, minFetchedPages |-> minPages,
   maxSearchActionsPerTurn |-> perTurn, maxFetchActionsPerTurn |-> perTurn]

EvidenceTasks ==
  {TaskOf("target_results", 2, 2, TRUE, 0, 1), TaskOf("target_results", 1, 1, TRUE, 2, 2),
   TaskOf("target_results", 1, 1, FALSE, 0, 1), TaskOf("rounds", 1, 1, TRUE, 0, 1),
   TaskOf("natural", 1, 1, TRUE, 0, 1)}

RetryTasks ==
  {TaskOf("target_results", 5, 1, FALSE, 0, 2), TaskOf("rounds", 5, 1, FALSE, 0, 1),
   TaskOf("natural", 5, 1, FALSE, 0, 2)}
=============================================================================
