CONSTANTS
  N = 5
  Infinity = 99
  Full = 3
  Clocks = {10, 20}
  Jitter = {0, 1}
  Samples = {10, 11, 20, 21}
  MaxRequests = 1
  PmEnabled = TRUE
SPECIFICATION FairSpec
INVARIANTS
  TypeOK
  LatencyIsMedian
  PlayerMayBegin
PROPERTIES
  FastUntilFull
  Converges
