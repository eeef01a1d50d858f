-------------------------------- MODULE MCFair --------------------------------
(* Small instances of the components whose liveness rests on fairness: the file
   locks, one pass of the opening corridor, the refresh queue and the handoff watcher;
   `part` says which of them a behaviour is about.  The file locks stay in their initial
   state and the variables of the others stay None.  `turn` is one symbol of the queue
   and one of its two lanes, picked once for a behaviour. *)
EXTENDS FileLocking

CONSTANTS
  None, p1, p2, p3, w1, s1, q1, a1, a2,
  \* RefreshQueue
  Symbols, Rank, Hopeless, Scanners, RefreshLimit, Phase2Limit, Interval, ClaimTtl,
  Quotas, MaxFailures,
  \* HandoffWatch
  Handoffs, Mine, Limit, MaxArrivals, MaxMishaps

VARIABLES
  part, turn,
  \* OpeningCorridor
  answers, spent, slots, outbox, binding, order, book, me, at, faults,
  \* RefreshQueue
  queue, facts, pass, universe, failures,
  \* HandoffWatch
  pending, arrivals, disk, step, seen, dirty, primed, found, events, announced,
  backlog, lost, forgotten, mishaps

corridor == <<answers, spent, slots, outbox, binding, order, book, me, at, faults>>
refreshes == <<queue, facts, pass, universe, failures>>
watcher == <<pending, arrivals, disk, step, seen, dirty, primed, found, events,
             announced, backlog, lost, forgotten, mishaps>>
everything == <<part, turn, vars, corridor, refreshes, watcher>>

-----------------------------------------------------------------------------
\* The first of the three processes is on a machine of its own, whose pids the others
\* cannot probe; two of them die and one unlink is defeated.
HostOf == [p \in Process |-> IF p = p1 THEN 1 ELSE 2]

\* One pass, one strategy, one approval, orders of two contracts, one fault.
Corridor == INSTANCE OpeningCorridor WITH
  Worker <- {w1}, Strategy <- {s1}, Approval <- {q1}, Attempt <- {a1, a2},
  Underlying <- [s \in {s1} |-> s], Quantity <- 2, Cap <- 2, MaxRung <- 1, MaxFaults
  <- 1, pc <- at

\* Three symbols of which the best two fill the refreshes of a pass, one deep probe a
\* pass, a worker that may die once or a history that fails once.
RankOf == <<0, 1, 2>>

Queue == INSTANCE RefreshQueue WITH
  Score <- Rank, Dead <- Hopeless, MaxFaults <- MaxFailures, book <- universe,
  faults <- failures

\* A handoff for the seat and one for the other, each put into pending twice, a seen-
\* set of one key, one death or failed write.
Watch == INSTANCE HandoffWatch

ASSUME FairAssumption ==
  /\ LockingAssumption /\ Queue!QueueAssumption /\ Watch!WatchAssumption

-----------------------------------------------------------------------------
NoCorridor ==
  /\ answers = None /\ spent = None /\ slots = None /\ outbox = None /\ binding = None
  /\ order = None /\ book = None /\ me = None /\ at = None /\ faults = None

NoQueue ==
  /\ queue = None /\ facts = None /\ pass = None /\ universe = None /\ failures = None

NoWatch ==
  /\ pending = None /\ arrivals = None /\ disk = None /\ step = None /\ seen = None
  /\ dirty = None /\ primed = None /\ found = None /\ events = None /\ announced = None
  /\ backlog = None /\ lost = None /\ forgotten = None /\ mishaps = None

MCInit ==
  /\ Init
  /\ \/ /\ part = "locks" /\ turn = None /\ NoCorridor /\ NoQueue /\ NoWatch
     \/ /\ part = "corridor" /\ turn = None /\ Corridor!Init /\ NoQueue /\ NoWatch
     \/ /\ part = "queue" /\ turn \in Symbols \X {"refresh", "probe"} /\ Queue!Init
        /\ NoCorridor /\ NoWatch
     \/ /\ part = "watch" /\ turn = None /\ Watch!Init /\ NoCorridor /\ NoQueue

MCNext ==
  \/ /\ part = "locks" /\ Next
     /\ UNCHANGED <<part, turn, corridor, refreshes, watcher>>
  \/ /\ part = "corridor" /\ Corridor!Next
     /\ UNCHANGED <<part, turn, vars, refreshes, watcher>>
  \/ /\ part = "queue" /\ Queue!Next
     /\ UNCHANGED <<part, turn, vars, corridor, watcher>>
  \/ /\ part = "watch" /\ Watch!Next
     /\ UNCHANGED <<part, turn, vars, corridor, refreshes>>

\* The fairness of the FairSpec of each module.
Fairness ==
  /\ WF_vars(part = "locks" /\ Age)
  /\ \A p \in Process : WF_vars(part = "locks" /\ Run(p))
  /\ WF_corridor(part = "corridor" /\ Corridor!Progress(w1))
  /\ SF_corridor(part = "corridor" /\ Corridor!Timeout(w1))
  /\ WF_queue(part = "queue" /\ Queue!Tick)
  /\ \A w \in Scanners :
       /\ WF_pass(part = "queue" /\ Queue!Closes(w))
       /\ []<>(part = "queue" /\ pass[w] = None)
            => []<><<part = "queue" /\ Queue!Discovers(w)>>_pass
  /\ WF_watcher(part = "watch" /\ Watch!Poll)

MCSpec == MCInit /\ [][MCNext]_everything /\ Fairness

-----------------------------------------------------------------------------
(* The properties of the parts; their modules say what each is about. *)

\* The type of each part's state.
Types ==
  /\ TypeOK
  /\ part = "corridor" => Corridor!TypeOK
  /\ part = "queue" => Queue!TypeOK
  /\ part = "watch" => Watch!TypeOK

\* A pass over the corridor ends although the broker never answers (place_combo,
\* work_order).
Working == part = "corridor" /\ at[w1] # "idle"

PassEnds == Working ~> ~Working

\* A complete book has measured every symbol (universe._snapshot_from_book).
CompleteIsCurrent == part = "queue" => Queue!CompleteIsCurrent

\* Whatever symbol one looks at, its turn comes in both lanes of the queue: "an
\* attractive symbol cannot permanently starve the rest of the catalog"
\* (observation_cache.FairRefreshQueue).
Owed ==
  /\ part = "queue" /\ turn[1] \notin Hopeless
  /\ IF turn[2] = "refresh" THEN Queue!Stale(turn[1]) ELSE ~Queue!Probed(turn[1])

TurnsComeRound == Owed ~> ~Owed

\* "Once, and never twice" (test_watch.py): a handoff that is announced again had left
\* the seen-set (watch.SeenSet).
RepeatsAreExplained == part = "watch" => Watch!RepeatsAreExplained

\* A running watcher announces what waits for its seat (watch.Watcher.poll).
Waiting == part = "watch" /\ Watch!Waiting

ArrivalsAreAnnounced == Waiting ~> ~Waiting

\* "A dropped review request is the failure mode this whole system exists to prevent"
\* (watch.py).
NothingIsDropped == part = "watch" => Watch!NothingIsDropped

=============================================================================
