------------------------------- MODULE MCSession -------------------------------
(* Small instances of what runs a trading day, the controllers and their schedulers,
   the jobs of a session and the quota they share, model-checked together although
   they share no state here: `part` says which of them a behaviour is about.  The files
   of the day stay in their initial state and the variables of the others None. *)
EXTENDS PaperDay, TLC

CONSTANTS
  w1, w2,
  \* AutoCycle
  Cadence, Hours, MaxUnits, MaxSessions, MaxDeaths, MaxAborts,
  \* PacingLedger
  Workers, Limit, Window, Floor, DiscoveryReserve, Ttl, Phase2Cost,
  MaxClock, MaxReservations, MaxFactor

VARIABLES
  part,
  \* AutoCycle
  now, session, schedule, receipts, scans, ambiguous, worker, suspect, deaths,
  \* PacingLedger
  clock, reservations, usage, paused, client, overtaken

autoCycle == <<now, session, schedule, receipts, scans, ambiguous, worker, suspect,
               deaths>>
pacingLedger == <<clock, reservations, usage, paused, client, overtaken>>
everything == <<part, vars, autoCycle, pacingLedger>>

Symmetry == Permutations({w1, w2})

-----------------------------------------------------------------------------
\* A short day: the market opens at 2 and closes at 5, discovery runs before it opens,
\* an entry pass every unit, probes every other one.
CadenceOf == [MANAGEMENT |-> 1, DISCOVERY |-> 4, PROBE |-> 2, ENTRY |-> 1]
HoursOf ==
  [MANAGEMENT |-> 2 .. 4, DISCOVERY |-> 0 .. 1, PROBE |-> 2 .. 3, ENTRY |-> 2 .. 4]

Cycle == INSTANCE AutoCycle WITH Window <- Hours, MaxTime <- MaxUnits

\* Two processes, three requests per two units of time.
Pacing == INSTANCE PacingLedger WITH
  MaxTime <- MaxClock, now <- clock, worker <- client

ASSUME SessionAssumption ==
  /\ DayAssumption /\ Cycle!CycleAssumption /\ Pacing!PacingAssumption

-----------------------------------------------------------------------------
NoCycle ==
  /\ now = None /\ session = None /\ schedule = None /\ receipts = None /\ scans = None
  /\ ambiguous = None /\ worker = None /\ suspect = None /\ deaths = None

NoPacing ==
  /\ clock = None /\ reservations = None /\ usage = None /\ paused = None
  /\ client = None /\ overtaken = None

MCInit ==
  /\ Init
  /\ \/ part = "day" /\ NoCycle /\ NoPacing
     \/ part = "cycle" /\ full /\ Cycle!Init /\ NoPacing
     \/ part = "pacing" /\ full /\ Pacing!Init /\ NoCycle

MCNext ==
  \/ part = "day" /\ Next /\ UNCHANGED <<part, autoCycle, pacingLedger>>
  \/ part = "cycle" /\ Cycle!Next /\ UNCHANGED <<part, vars, pacingLedger>>
  \/ part = "pacing" /\ Pacing!Next /\ UNCHANGED <<part, vars, autoCycle>>

MCSpec == MCInit /\ [][MCNext]_everything

\* Bounds: two controllers work at the same time only in a FULL day that nothing has
\* degraded, without a death, a timeout or a phase of a stop that came out dirty, and
\* until a second scheduler is spawned; a day with two schedulers has one death or one
\* timeout.
OverlapsAreUndisturbed ==
  /\ Len(child) > 1 => crashes + timeouts <= 1
  /\ Cardinality({c \in Controllers : ~At(c, "idle")}) > 1 =>
       /\ full /\ Len(child) <= 1 /\ crashes + timeouts = 0
       /\ \A c \in Controllers : My(c).clean /\ My(c).state # "DEGRADED"

-----------------------------------------------------------------------------
(* The properties of the parts; their modules say what each is about. *)

\* The type of each part's state.
Types ==
  /\ TypeOK
  /\ part = "cycle" => Cycle!TypeOK
  /\ part = "pacing" => Pacing!TypeOK

\* The receipts account for every tick (autocycle.run_tick).
TicksAreAccounted == part = "cycle" => Cycle!TicksAreAccounted

\* The quota of the broker holds, and management is served (pacing_ledger.reserve).
QuotaHolds == part = "pacing" => Pacing!QuotaHolds

=============================================================================
