\* A brisk source and one that polls more rarely than its slices live.
SPECIFICATION Spec
CONSTANTS
  a = a
  b = b
  Sources = {a, b}
  Order <- BothOrder
  Interval <- BothIntervals
  Freshness = 5
  SliceTTL = 7
  Latency = 1
  FetchMax = 1
INVARIANT NoneMeansStale
