SPECIFICATION PoolsSpec
CONSTANTS
  Jobs = {j1, j2, j3, j4}
  Workers = {w1, w2, w3}
  Size = 2
  MaxQueue = 1
  Renders = {j1, j2, j3}
  Browsers = {b1, b2}
  Limit = 1
  MaxWaiting = 2
  MaxCloses = 1
  None = None
INVARIANTS CapacityIsUsed NoStaleAnswer BrowserIsShared
PROPERTIES NoBrowserLeft EveryUseEnds
CHECK_DEADLOCK FALSE
