\* One audit of two turns beside another process that saves. Decisions of other
\* kinds than the five known ones are left to the theorems.
SPECIFICATION FairSpec
CONSTANTS
  a = a
  b = b
  c = c
  Audit = audit
  Savers = {audit, other}
  Docs = {1, 2, 3}
  Pages = {a, b, c}
  DocOf <- MCDocOf
  SourceRank <- MCRank
  Alike <- MCAlike
  Times = {0, 1}
  HasFallback = TRUE
  MaxIterations = 2
  PreflightRetries = 1
  RunTimer = TRUE
  OtherKinds = {}
  MaxSearches = 2
  MaxFetches = 1
  MaxOtherSaves = 1
INVARIANTS
  WorkspaceIsSound
  SavedIsIndexed
  SummaryIsHonest
PROPERTIES
  AbortStartsNothing
  EverythingEnds
CHECK_DEADLOCK FALSE
