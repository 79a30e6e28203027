\* Two runs, room for one: pruning, rejection and recovery past the cap.
SPECIFICATION Spec
CONSTANTS
  RunIds = {r1, r2}
  MaxRuns = 1
  MaxAgentEvents = 0
  MaxCrashes = 1
SYMMETRY Symmetry
CHECK_DEADLOCK FALSE
PROPERTIES
  LifecycleSpec
