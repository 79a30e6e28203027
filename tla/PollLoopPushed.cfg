SPECIFICATION Spec
CONSTANTS
  m1 = m1 m2 = m2 m3 = m3 m4 = m4
  Messages = {m1, m2}
  KindOf <- TwoChats
  Silent = {}
  OnWake = {}
  MaxIds = 3
  MaxCrashes = 0
  MaxLives = 1
INVARIANTS UnansweredNotCompleted
CHECK_DEADLOCK FALSE
