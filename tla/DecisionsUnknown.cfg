SPECIFICATION Spec
CONSTANTS
  q1 = q1
  q2 = q2
  q3 = q3
  link = link
  BadLink = bad
  SearchTexts <- QuerySet
  Links <- LinkSet
  ArraysOf <- Arrays
  MaxContainers = 2
  None = None
INVARIANT UnknownIsRefused
CHECK_DEADLOCK FALSE
