SPECIFICATION FairSpec
CONSTANTS
  Queries = {q}
  Urls = {page}
  Canonical <- MCCanonical
  FindingIds = {f1}
  Tasks <- RetryTasks
INVARIANTS LimitsHold
PROPERTIES ContractSpec EveryRunReturns
CHECK_DEADLOCK FALSE
