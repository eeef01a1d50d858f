CONSTANTS
  None = None
  w1 = w1
  w2 = w2
  Controllers = {w1}
  Mandates = {"FULL"}
  MaxStarts = 3
  MaxStops = 0
  MaxChildren = 3
  MaxTimeouts = 1
  MaxCrashes = 0
  Cadence <- CadenceOf
  Hours <- HoursOf
  MaxUnits = 4
  MaxSessions = 2
  MaxDeaths = 2
  MaxAborts = 1
  Workers = {w1, w2}
  Limit = 3
  Window = 2
  Floor = 1
  DiscoveryReserve = 2
  Ttl = 2
  Phase2Cost = 2
  MaxClock = 4
  MaxReservations = 2
  MaxFactor = 4
SPECIFICATION MCSpec
INVARIANT PassesAlone
CHECK_DEADLOCK FALSE
