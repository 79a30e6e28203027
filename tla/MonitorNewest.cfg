SPECIFICATION Spec
CONSTANTS
  RunIds = {r1}
  MaxRuns = 1
  PageSize = 2
  MaxRendered = 2
  MaxOpens = 1
  MaxLog = 5
  Logged = {"run.queued", "run.started", "agent.event", "report.completed", "run.completed"}
  None = None
INVARIANT NewestAreShown
CHECK_DEADLOCK FALSE
