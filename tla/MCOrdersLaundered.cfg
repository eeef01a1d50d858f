CONSTANTS
  None = None
  w1 = w1
  w2 = w2
  s1 = s1
  s2 = s2
  q1 = q1
  q2 = q2
  PassSymbols = {"a", "b"}
  Margins = {1, 2}
  Groupings <- OneSector
  IncrementalCap = 2
  TotalCap = 3
  UnderlyingCap = 2
  ClassCap = 3
  MaxPending = 1
  Silent = TRUE
  MaxPositions = 2
  MaxDeaths = 1
  Approvals = {q1, q2}
  OrderSize = 2
  MaxFailures = 2
  FillLegs = {s1, s2}
  Fee <- FlatFee
  OtherFee = 0
  Namesakes = 1
  MaxDays = 2
  MaxMarks = 2
  Credit = 22
  Tolerance = 6
  Spread = 40
  ProofCredit = 2
  FloorCredit = 15
  FineTick = 2
  CoarseTick = 4
  TickBoundary = 24
  WalkBooks <- QuotedWalk
  TradeRisk = 40
  MaxAttempts = 4
  MaxMishaps = 2
  ShortBooks <- QuotedShort
  LongBooks <- QuotedLong
  ProfitTarget = 2
  MaxAge = 0
  Rolls = FALSE
  Horizon = 1
  MaxSnapshots = 2
  ExitSize = 2
  MaxCloses = 3
  MaxStops = 1
  Operations = {"claim", "complete", "archive", "reply"}
  Clobbers = TRUE
  RacyRename = TRUE
  MaxLost = 1
  Symbols = {"one"}
  Processes = {w1, w2}
  MaxScans = 2
  MaxEntries = 2
  MaxSessions = 2
  MaxFaults = 1
SPECIFICATION MCSpec
INVARIANT GreeksAreCurrent
CHECK_DEADLOCK FALSE
