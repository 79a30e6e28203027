\* Both polls over two messages of one session, beside a session with none,
\* through any three faults, crashes and stops.
SPECIFICATION FairSpec
CONSTANTS
  m1 = m1
  m2 = m2
  s1 = s1
  s2 = s2
  active = active
  sweep = sweep
  Messages = {m1, m2}
  Sessions = {s1, s2}
  Chains = {active, sweep}
  SessionOf <- SameSession
  KindOf <- FilesDenied
  PollOf <- OneOfEach
  MaxTroubles = 3
  None = None
INVARIANTS
  OneDrainPerSession
  NoDuplicates
  NothingGivenUpEarly
PROPERTIES
  EveryRowDecided
CHECK_DEADLOCK FALSE
