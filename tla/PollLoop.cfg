\* A chat, a task for the first poll only, a /clear and a silent chat, arriving
\* at any moment, with two crashes or throws. Seven conversations, two of an earlier
\* version, are more than are ever opened.
SPECIFICATION FairSpec
CONSTANTS
  m1 = m1
  m2 = m2
  m3 = m3
  m4 = m4
  Messages = {m1, m2, m3, m4}
  KindOf <- ChatTaskClearChat
  Silent = {m4}
  OnWake = {m2}
  MaxIds = 7
  MaxCrashes = 2
  MaxLives = 2
INVARIANTS
  OneHolder
  ClearedIsForgotten
PROPERTIES
  CompletedIsDone
  EveryRowCompleted
CHECK_DEADLOCK FALSE
