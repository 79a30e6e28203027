\* One run with agent events and two crashes: every interleaving of a run's
\* execution with its writes, its cancellation and the restarts.
SPECIFICATION FairSpec
CONSTANTS
  RunIds = {r1}
  MaxRuns = 1
  MaxAgentEvents = 1
  MaxCrashes = 2
CHECK_DEADLOCK FALSE
INVARIANTS
  AcknowledgedCancelWins
  SettledIsDurable
  LogIsSound
  ReportAgrees
PROPERTIES
  DiskOutcomeIsFinal
  EveryRunSettles
