---------------------------- MODULE PacingLedger ----------------------------
(***************************************************************************)
(* The broker's request quota: the SQLite ledger of pacing_ledger.py, the  *)
(* budget that every adapter asks before a request (pacing.py,             *)
(* SharedPacingBudget) and the budget of a universe scan, whose clock      *)
(* stands still at the scan's beginning (universe.py,                      *)
(* _DurablePacingBudget).                                                  *)
(*                                                                         *)
(* One kind of request is modelled, the kinds share nothing.  Every call   *)
(* of the ledger is one SQLite transaction, but a commit reads its         *)
(* reservation before the transaction that writes.  Waiting for the local  *)
(* token bucket is time that passes between two calls.  mark_unknown is    *)
(* left out: nothing in the repository calls it, so no row is UNKNOWN.     *)
(***************************************************************************)
EXTENDS Sequences, Totals

CONSTANTS
  Workers,       \* processes that share the ledger
  Limit, Window, \* requests per window
  Floor,         \* what only management and working orders may use of it
  DiscoveryReserve, \* what discovery leaves to the others, Floor included
  Ttl,           \* how long a reservation is held for a silent owner
  Phase2Cost,    \* the estimate of a deep probe
  MaxTime, MaxReservations, MaxFactor,   \* bounds
  None

PacingAssumption ==
  /\ {Limit, Window, Ttl, Phase2Cost} \subseteq Nat \ {0}
  /\ Floor \in 0 .. Limit - 1
  /\ DiscoveryReserve \in Floor .. Limit - 1
  /\ {MaxTime, MaxReservations, MaxFactor} \subseteq Nat

VARIABLES
  now,
  reservations,  \* the table pacing_reservations, in the order of insertion
  usage,         \* the table pacing_usage
  paused,        \* pacing_limits: paused_until and penalty_factor
  worker,        \* what each process is doing
  overtaken      \* history: reservations that expired inside their own commit

vars == <<now, reservations, usage, paused, worker, overtaken>>

Priority == {"MANAGEMENT", "CANDIDATE", "DISCOVERY"}

-----------------------------------------------------------------------------
(* The ledger *)

\* A row that is not active any more; its deadline matters to nobody.
Settle(row, state) == [row EXCEPT !.state = state, !.expires = 0]

\* _reap_expired_in_connection
Reap(table, t) ==
  [i \in DOMAIN table |->
     IF table[i].state = "ACTIVE" /\ table[i].expires <= t
     THEN Settle(table[i], "EXPIRED") ELSE table[i]]

Active(table) == {i \in DOMAIN table : table[i].state = "ACTIVE"}

\* SUM(cost)
Cost(rows) == Total([u \in rows |-> u.cost])

\* _usage_and_reserved
Consumed(t) == Cost({u \in usage : u.at > t - Window})

\* Mutant of Outstanding: what is reserved is not counted until it is used.
NotOutstanding(table, t) == 0

Outstanding(table, t) ==
  Total([i \in {j \in Active(table) : table[j].expires > t} |-> table[i].cost])

\* Mutant of ReserveFloor: only discovery is held back.
DiscoveryFloor(priority) == IF priority = "DISCOVERY" THEN Floor ELSE 0

\* _reserve_floor; working orders have the priority of management here.
ReserveFloor(priority) ==
  CASE priority = "MANAGEMENT" -> 0
    [] priority = "CANDIDATE" -> Floor
    [] priority = "DISCOVERY" -> DiscoveryReserve

\* reserve, after its reaping
Admitted(table, priority, cost, t) ==
  /\ ~(priority = "DISCOVERY" /\ t < paused.until)
  /\ Consumed(t) + Outstanding(table, t) + cost <= Limit - ReserveFloor(priority)

Reserved(table, priority, cost, t) ==
  Append(table, [state |-> "ACTIVE", cost |-> cost, expires |-> t + Ttl,
                 low |-> priority # "MANAGEMENT"])

-----------------------------------------------------------------------------
(* A process *)

Idle == [pc |-> "idle", id |-> 0, clock |-> 0, scans |-> FALSE,
         scan |-> None, probe |-> 0, used |-> 0]

Is(w, pc) == worker[w].pc = pc
Back(w) == [worker[w] EXCEPT !.pc = "idle", !.id = 0, !.clock = 0, !.scans = FALSE]

\* SharedPacingBudget.acquire and _DurablePacingBudget.acquire, up to the
\* reservation: the one at the time of day, the other at that of its scan.
Acquire(w, priority, scans, t) ==
  /\ Is(w, "idle")
  /\ Len(reservations) < MaxReservations
  /\ LET table == Reap(reservations, t)
     IN IF Admitted(table, priority, 1, t)
        THEN /\ reservations' = Reserved(table, priority, 1, t)
             /\ worker' = [worker EXCEPT ![w].pc = "waiting", ![w].id = Len(reservations'),
                                    ![w].scans = scans]
        ELSE reservations' = table /\ worker' = worker
  /\ UNCHANGED <<now, usage, paused, overtaken>>

AcquireShared(w) ==
  \E priority \in Priority : Acquire(w, priority, FALSE, now)

\* Inside a deep probe the estimate is drawn down instead.
AcquireForScan(w) ==
  /\ worker[w].scan # None /\ worker[w].probe = 0
  /\ Acquire(w, "DISCOVERY", TRUE, worker[w].scan)

\* release: only an active reservation can be given back.
ReleasedRow(table, i) ==
  IF table[i].state = "ACTIVE" THEN [table EXCEPT ![i] = Settle(@, "RELEASED")] ELSE table

\* The local token bucket pauses discovery: the reservation is given back.
LocalBudgetRefuses(w) ==
  /\ Is(w, "waiting") /\ ~worker[w].scans
  /\ reservations' = ReleasedRow(Reap(reservations, now), worker[w].id)
  /\ worker' = [worker EXCEPT ![w] = Back(w)]
  /\ UNCHANGED <<now, usage, paused, overtaken>>

\* The token bucket lets the request through; commit, its reads: reaping, then the
\* row.  A reservation that is not active any more is refused, and the request is
\* not made.
ReadCommit(w) ==
  /\ Is(w, "waiting")
  /\ LET t == IF worker[w].scans THEN worker[w].scan ELSE now
         table == Reap(reservations, t)
     IN /\ reservations' = table
        /\ worker' = [worker EXCEPT ![w] =
             IF table[worker[w].id].state = "ACTIVE"
             THEN [@ EXCEPT !.pc = "write", !.clock = t] ELSE Back(w)]
  /\ UNCHANGED <<now, usage, paused, overtaken>>

Committed(table, i, cost) ==
  [table EXCEPT ![i] = Settle([@ EXCEPT !.cost = cost], "COMMITTED")]

\* The request that follows a commit is taken to go out at its recorded time.
Used(i, cost, t) == [id |-> i, cost |-> cost, at |-> t, low |-> reservations[i].low]

\* commit, its writes; a shared acquire is followed by the broker's request.
WriteCommit(w) ==
  /\ Is(w, "write")
  /\ LET i == worker[w].id
     IN /\ usage' = usage \cup {Used(i, 1, worker[w].clock)}
        /\ reservations' = Committed(reservations, i, 1)
        /\ overtaken' = IF reservations[i].state = "ACTIVE" THEN overtaken
                        ELSE overtaken \cup {i}
  /\ worker' = [worker EXCEPT ![w] = Back(w)]
  /\ UNCHANGED <<now, paused>>

BeginScan(w) ==
  /\ Is(w, "idle")
  /\ worker[w].scan = None
  /\ worker' = [worker EXCEPT ![w].scan = now]
  /\ UNCHANGED <<now, reservations, usage, paused, overtaken>>

EndScan(w) ==
  /\ Is(w, "idle")
  /\ worker[w].scan # None /\ worker[w].probe = 0
  /\ worker' = [worker EXCEPT ![w].scan = None]
  /\ UNCHANGED <<now, reservations, usage, paused, overtaken>>

\* prepare_phase2: the whole estimate is reserved at the time of the scan.
PreparePhase2(w) ==
  /\ Is(w, "idle")
  /\ worker[w].scan # None /\ worker[w].probe = 0
  /\ Len(reservations) < MaxReservations
  /\ LET t == worker[w].scan
         table == Reap(reservations, t)
     IN IF t >= paused.until /\ Admitted(table, "CANDIDATE", Phase2Cost, t)
        THEN /\ reservations' = Reserved(table, "CANDIDATE", Phase2Cost, t)
             /\ worker' = [worker EXCEPT ![w].probe = Len(reservations'), ![w].used = 0]
        ELSE reservations' = table /\ worker' = worker
  /\ UNCHANGED <<now, usage, paused, overtaken>>

\* acquire, inside a deep probe
DrawEstimate(w) ==
  /\ Is(w, "idle")
  /\ worker[w].probe # 0 /\ worker[w].used < Phase2Cost
  /\ worker' = [worker EXCEPT ![w].used = @ + 1]
  /\ UNCHANGED <<now, reservations, usage, paused, overtaken>>

\* finish_phase2: what was drawn is committed, the rest of the estimate freed.
FinishPhase2(w) ==
  /\ Is(w, "idle")
  /\ worker[w].probe # 0
  /\ LET i == worker[w].probe
         used == worker[w].used
         table == Reap(reservations, IF used = 0 THEN now ELSE worker[w].scan)
     IN IF table[i].state = "ACTIVE" /\ used > 0
        THEN /\ usage' = usage \cup {Used(i, used, worker[w].scan)}
             /\ reservations' = Committed(table, i, used)
        ELSE /\ usage' = usage
             /\ reservations' = ReleasedRow(table, i)
  /\ worker' = [worker EXCEPT ![w].probe = 0, ![w].used = 0]
  /\ UNCHANGED <<now, paused, overtaken>>

\* penalize, a pacing violation that the broker reports to a request or, at its own
\* time, to a scan: every one doubles the pause, and the later end of a pause wins.
Penalize(w) ==
  /\ paused.factor < MaxFactor
  /\ \E t \in {now, worker[w].scan} \ {None} :
       LET factor == 2 * paused.factor
           until == t + Window * factor
       IN paused' = [until |-> IF paused.until > until THEN paused.until ELSE until,
                     factor |-> factor]
  /\ UNCHANGED <<now, reservations, usage, worker, overtaken>>

Dies(w) ==
  /\ worker[w] # Idle
  /\ worker' = [worker EXCEPT ![w] = Idle]
  /\ UNCHANGED <<now, reservations, usage, paused, overtaken>>

Tick ==
  /\ now < MaxTime
  /\ now' = now + 1
  /\ UNCHANGED <<reservations, usage, paused, worker, overtaken>>

Init ==
  /\ now = 0 /\ paused = [until |-> 0, factor |-> 1]
  /\ reservations = <<>> /\ usage = {}
  /\ worker = [w \in Workers |-> Idle]
  /\ overtaken = {}

Next ==
  \/ \E w \in Workers :
       \/ AcquireShared(w) \/ AcquireForScan(w) \/ LocalBudgetRefuses(w)
       \/ ReadCommit(w) \/ WriteCommit(w)
       \/ BeginScan(w) \/ EndScan(w) \/ PreparePhase2(w) \/ DrawEstimate(w)
       \/ FinishPhase2(w) \/ Penalize(w) \/ Dies(w)
  \/ Tick

Spec == Init /\ [][Next]_vars

-----------------------------------------------------------------------------
(* Properties *)

\* The type of the state.
TypeOK ==
  /\ now \in 0 .. MaxTime
  /\ reservations \in Seq([state : {"ACTIVE", "COMMITTED", "RELEASED", "EXPIRED"},
                           cost : 1 .. Phase2Cost, expires : Nat, low : BOOLEAN])
  /\ \A w \in Workers : worker[w].id \in 0 .. Len(reservations)

\* What the window holds, but for requests whose reservation expired between the
\* read and the write of their own commit.
InWindow == {u \in usage : u.at > now - Window /\ u.id \notin overtaken}

\* However long a request waits for the local bucket, whatever a scan books at
\* its own standing clock and whoever dies in between, no window holds more
\* requests than the broker takes (pacing_ledger.py, reserve and commit).
WindowHolds == Cost(InWindow) <= Limit

\* Discovery and candidate work never use up what management needs
\* (pacing_ledger.py, _reserve_floor).
ManagementIsServed == Cost({u \in InWindow : u.low}) <= Limit - Floor

\* The quota of the ledger as its clients share it (pacing_ledger.py).
QuotaHolds == WindowHolds /\ ManagementIsServed
=============================================================================
