CONSTANTS
  Runner = {worker, hand}
  Worker = worker
  Digest = {A, B}
  ReviewTTL = 2
  Skew = 1
  ClaimedMax = 2
  Cooldown = 1
  CooldownMax = 2
  TerminalAfter = 2
  MaxRevision = 2
  MaxMishaps = 1
  None = None
SPECIFICATION Spec
INVARIANTS TypeOK EntryIsSafe
PROPERTIES EndingsAreFinal ReservationsEnd
