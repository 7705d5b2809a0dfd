\* A brisk source and one that polls more rarely than its slices live, with fairness.
SPECIFICATION FairSpec
CONSTANTS
  a = a
  b = b
  Sources = {a, b}
  Order <- BothOrder
  Interval <- BothIntervals
  Freshness = 5
  SliceTTL = 7
  Latency = 1
  FetchMax = 1
INVARIANTS
  ServedIsFresh
  NoGap
  NoneMeansRenewed
PROPERTIES
  NoStoreAfterStop
  PollsGoOn
  StopEnds
  ComesBack
