SPECIFICATION DecisionsSpec
CONSTANTS
  a = a
  aTracked = aTracked
  b = b
  Queries = {}
  Urls <- Pages
  Canonical <- WithoutTracking
  FindingIds = {f1, f2}
  Tasks <- EvidenceTasks
  q1 = q1
  q2 = q2
  q3 = q3
  link = link
  BadLink = bad
  SearchTexts <- QuerySet
  Links <- LinkSet
  ArraysOf <- Arrays
  MaxContainers = 2
  None = None
INVARIANTS CompletedIsEvidenced CompletedIsAnswered NothingInvented CanonicalIsUnchanged
SYMMETRY Interchangeable
CHECK_DEADLOCK FALSE
