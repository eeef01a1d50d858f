CONSTANTS
  Process = {p1, p2, p3}
  Host <- HostOf
  Singleton = FALSE
  LongHolds = TRUE
  MaxCrashes = 2
  MaxStuck = 1
  NoFile = None
  None = None
  p1 = p1
  p2 = p2
  p3 = p3
  w1 = w1
  s1 = s1
  q1 = q1
  a1 = a1
  a2 = a2
  Symbols = {1, 2, 3}
  Rank <- RankOf
  Hopeless = {}
  Scanners = {w1}
  RefreshLimit = 2
  Phase2Limit = 1
  Interval = 1
  ClaimTtl = 1
  Quotas = {2}
  MaxFailures = 1
  Handoffs = {1, 2}
  Mine = {1}
  Limit = 1
  MaxArrivals = 2
  MaxMishaps = 1
SPECIFICATION MCSpec
INVARIANT NothingIsDropped
CHECK_DEADLOCK FALSE
