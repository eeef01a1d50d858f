----------------------------- MODULE AutoCycle -----------------------------
(***************************************************************************)
(* The persistent worker of a paper day: autocycle.py (FixedRateSchedule,  *)
(* ReceiptStore, OptionsCycleWorker) with the phases that cycle_adapter.py *)
(* gives it.                                                               *)
(*                                                                         *)
(* Two witnesses outlive a process.  schedule.json counts the slots of     *)
(* each job and names those chosen but not yet started; the tick receipts  *)
(* say which ticks started, ended and were reconciled.  A worker that      *)
(* finds something open in them must not open positions before it has      *)
(* compared its books with the broker's.                                   *)
(*                                                                         *)
(* A unit of time is the shortest cadence.  What a phase does to the       *)
(* market is left open; what it leaves behind is not.                      *)
(***************************************************************************)
EXTENDS Integers, FiniteSetsExt

CONSTANTS
  Cadence,      \* the period of each job
  Window,       \* the times at which each job is allowed
  MaxTime, MaxSessions, MaxDeaths,   \* bounds
  MaxAborts     \* bound: names of ticks that are aborted

Jobs == {"MANAGEMENT", "DISCOVERY", "PROBE", "ENTRY"}

CycleAssumption ==
  /\ Cadence \in [Jobs -> Nat \ {0}]
  /\ Window \in [Jobs -> SUBSET Nat]
  /\ {MaxTime, MaxDeaths, MaxAborts} \subseteq Nat /\ MaxSessions \in Nat \ {0}

VARIABLES
  now,
  session,    \* the session that session.lock and scheduler.pid name
  schedule,   \* schedule.json: owner (0: no file), counters, pending slots
  receipts,   \* the tick receipts, by tick id
  scans,      \* sessions with a scan that has no terminal receipt
  ambiguous,  \* the execution outbox holds an attempt of unknown outcome
  worker,
  suspect,    \* history: ticks that ended badly since the last reconciliation
  deaths

vars == <<now, session, schedule, receipts, scans, ambiguous, worker, suspect, deaths>>
environment == <<now, session, deaths>>

-----------------------------------------------------------------------------
(* The witnesses *)

Slot == [job : Jobs, index : 0 .. MaxTime]

\* due: the slots the time has reached since they were last chosen; those
\* that a late wakeup has missed are counted, never caught up.
Due(t) ==
  {[job |-> j, index |-> t \div Cadence[j]] :
     j \in {k \in Jobs : t \div Cadence[k] > schedule.slots[k]}}

\* _window_allowed
Allowed(slots, t) == {s \in slots : t \in Window[s.job]}

Advanced(slots) ==
  [j \in Jobs |-> IF \E s \in slots : s.job = j
                  THEN (CHOOSE s \in slots : s.job = j).index ELSE schedule.slots[j]]

\* Mutant of Selected: the counters move, the chosen slots are not written down.
SelectedUnwitnessed(slots) ==
  [owner |-> worker.session, slots |-> Advanced(slots), pending |-> {}]

Selected(slots) ==
  [owner |-> worker.session, slots |-> Advanced(slots), pending |-> slots]

\* run_tick: a tick is named after its session and its highest slot.
TickId(slots) == <<worker.session, Max({s.index : s \in slots})>>

StartedIds == {r.id : r \in receipts.started}

\* Mutant of Unmatched: any end of a tick settles it.
UnmatchedUntilEnded ==
  StartedIds \ (receipts.reconciled \cup receipts.ended \cup receipts.aborted
                  \cup receipts.unresolved)

\* unmatched_ticks: an unresolved end is an observation, not a clearance.
Unmatched ==
  StartedIds \ (receipts.reconciled
                  \cup ((receipts.ended \cup receipts.aborted) \ receipts.unresolved))

-----------------------------------------------------------------------------
(* The worker *)

Down == [pc |-> "down", session |-> 0, blocked |-> FALSE,
         due |-> {}, todo |-> {}]

Is(pc) == worker.pc = pc
Goes(pc) == worker' = [worker EXCEPT !.pc = pc]
Mine == TickId(worker.due)

\* OptionsCycleWorker.__init__.  A schedule bound to another session is refused
\* wherever it is read, so that a worker of a new session never gets to run.
StartWorker ==
  /\ Is("down")
  /\ schedule.owner \in {0, session}
  /\ worker' = [Down EXCEPT !.pc = "loop", !.session = session,
                            !.blocked = Unmatched # {} \/ schedule.pending # {}]
  /\ UNCHANGED <<environment, schedule, receipts, scans, ambiguous, suspect>>

\* stop_requested: the paper day has gone on to another session.
Stop ==
  /\ Is("loop")
  /\ worker.session # session
  /\ worker' = Down
  /\ UNCHANGED <<environment, schedule, receipts, scans, ambiguous, suspect>>

RecoveryRequired == scans # {} \/ ambiguous \/ schedule.pending # {}

\* _run_loop, up to the durable choice of slots.  Slots that an earlier process
\* left pending are taken as they are, whatever the window says.
Choose ==
  /\ Is("loop")
  /\ worker.session = session
  /\ LET slots == IF schedule.pending # {} THEN schedule.pending ELSE Due(now)
     IN /\ slots # {}
        /\ schedule' = IF schedule.pending # {} THEN schedule ELSE Selected(slots)
        /\ worker' = [worker EXCEPT
             !.blocked = @ \/ RecoveryRequired,
             !.due = IF schedule.pending # {} THEN slots ELSE Allowed(slots, now),
             !.pc = "chosen"]
  /\ UNCHANGED <<environment, receipts, scans, ambiguous, suspect>>

\* Slots outside their window are skipped: reconcile_pending(skipped).
Skip ==
  /\ Is("chosen")
  /\ schedule' = [schedule EXCEPT !.pending = @ \cap worker.due]
  /\ Goes(IF worker.due = {} THEN "loop" ELSE "starting")
  /\ UNCHANGED <<environment, receipts, scans, ambiguous, suspect>>

TickStarted ==
  /\ Is("starting")
  /\ receipts' = [receipts EXCEPT !.started = @ \cup {[id |-> Mine, slots |-> worker.due]}]
  /\ Goes("started")
  /\ UNCHANGED <<environment, schedule, scans, ambiguous, suspect>>

\* Mutant of PhasesOf: a tick that reconciles goes on as any other.
PhasesAfterRecovery(slots, blocked) ==
  (IF blocked THEN {"RECOVERY"} ELSE {}) \cup {s.job : s \in slots}

\* An entry tick includes management; a tick that began under an unresolved
\* witness reconciles and manages, even if it resolves it.
PhasesOf(slots, blocked) ==
  LET jobs == {s.job : s \in slots}
  IN (IF blocked THEN {"RECOVERY"} ELSE jobs)
     \cup (IF jobs \cap {"MANAGEMENT", "ENTRY"} # {} THEN {"MANAGEMENT"} ELSE {})

Acknowledge ==
  /\ Is("started")
  /\ schedule' = [schedule EXCEPT !.pending = {}]
  /\ worker' = [worker EXCEPT !.pc = "working",
                              !.todo = PhasesOf(worker.due, worker.blocked)]
  /\ UNCHANGED <<environment, receipts, scans, ambiguous, suspect>>

\* An exception before the broker is in use, of acknowledge: the slots stay pending,
\* and are taken again by the next tick, which has the same name.
TickAborted ==
  /\ Is("started")
  /\ receipts' = [receipts EXCEPT !.aborted = @ \cup {Mine}]
  /\ Cardinality(receipts'.aborted) <= MaxAborts
  /\ Goes("loop")
  /\ UNCHANGED <<environment, schedule, scans, ambiguous, suspect>>

Order == <<"RECOVERY", "MANAGEMENT", "ENTRY", "PROBE", "DISCOVERY">>

Turn(phase) ==
  /\ Is("working")
  /\ phase \in worker.todo
  /\ LET Rank(p) == CHOOSE i \in 1 .. 5 : Order[i] = p
     IN \A p \in worker.todo : Rank(phase) <= Rank(p)

Done(phase) == worker' = [worker EXCEPT !.todo = @ \ {phase}]

\* reconcile, when the outbox is ambiguous, the books disagree or another
\* session's scan is open: nothing is cleared.
RecoveryRefused ==
  /\ Turn("RECOVERY")
  /\ Done("RECOVERY")
  /\ UNCHANGED <<environment, schedule, receipts, scans, ambiguous, suspect>>

\* reconcile: positions and orders of the broker agree with the books; the
\* scans that died are aborted.  clear_recovery takes the pending slots first.
Reconcile ==
  /\ Turn("RECOVERY")
  /\ ~ambiguous
  /\ scans \subseteq {worker.session}
  /\ scans' = {}
  /\ suspect' = {}
  /\ schedule' = [schedule EXCEPT !.pending = {}]
  /\ Goes("clearing")
  /\ UNCHANGED <<environment, receipts, ambiguous>>

Foreign == {id \in Unmatched : id[1] # worker.session}

\* clear_recovery, one receipt TICK_RECONCILED after the other; the tick that
\* reconciles is among those it clears.
ReconcileTick ==
  /\ Is("clearing")
  /\ Foreign = {}
  /\ \E id \in Unmatched :
       receipts' = [receipts EXCEPT !.reconciled = @ \cup {id}]
  /\ UNCHANGED <<environment, schedule, scans, ambiguous, worker, suspect>>

\* RECOVERY_CLEARED, after the last of them.
ClearRecovery ==
  /\ Is("clearing")
  /\ Unmatched = {}
  /\ worker' = [worker EXCEPT !.pc = "working", !.todo = @ \ {"RECOVERY"},
                              !.blocked = FALSE]
  /\ UNCHANGED <<environment, schedule, receipts, scans, ambiguous, suspect>>

\* One pass of the runner that may close positions, one that may open them; the
\* latter may leave an attempt whose outcome nobody knows.
Management ==
  /\ Turn("MANAGEMENT")
  /\ Done("MANAGEMENT")
  /\ UNCHANGED <<environment, schedule, receipts, scans, ambiguous, suspect>>

Entry ==
  /\ Turn("ENTRY")
  /\ ambiguous' \in {ambiguous, TRUE}
  /\ Done("ENTRY")
  /\ UNCHANGED <<environment, schedule, receipts, scans, suspect>>

ScanStarted(phase) ==
  /\ phase \in {"PROBE", "DISCOVERY"}
  /\ Turn(phase)
  /\ scans' = scans \cup {worker.session}
  /\ worker' = [worker EXCEPT !.pc = "scanning", !.todo = @ \ {phase}]
  /\ UNCHANGED <<environment, schedule, receipts, ambiguous, suspect>>

ScanEnded ==
  /\ Is("scanning")
  /\ scans' = scans \ {worker.session}
  /\ Goes("working")
  /\ UNCHANGED <<environment, schedule, receipts, ambiguous, suspect>>

AtBroker == worker.pc \in {"working", "clearing", "scanning"}

\* The exception of any phase.
TickUnresolved ==
  /\ AtBroker
  /\ Is("working") => worker.todo # {}
  /\ scans' \in {scans, scans \ {worker.session}}
  /\ Is("working") => scans' = scans
  /\ ambiguous' \in {ambiguous, TRUE}
  /\ ambiguous' # ambiguous => Turn("ENTRY")
  /\ receipts' = [receipts EXCEPT !.unresolved = @ \cup {Mine}]
  /\ worker' = [worker EXCEPT !.pc = "loop", !.blocked = TRUE, !.todo = {}]
  /\ suspect' = suspect \cup {Mine}
  /\ UNCHANGED <<environment, schedule>>

TickFinished ==
  /\ Is("working")
  /\ worker.todo = {}
  /\ receipts' = [receipts EXCEPT !.ended = @ \cup {Mine}]
  /\ worker' = [worker EXCEPT !.pc = "loop"]
  /\ UNCHANGED <<environment, schedule, scans, ambiguous, suspect>>

Die ==
  /\ ~Is("down")
  /\ deaths < MaxDeaths
  /\ deaths' = deaths + 1
  /\ worker' = Down
  /\ suspect' = IF AtBroker THEN suspect \cup {Mine} ELSE suspect
  /\ ambiguous' \in {ambiguous, TRUE}
  /\ ambiguous' # ambiguous => Turn("ENTRY")
  /\ UNCHANGED <<now, session, schedule, receipts, scans>>

\* Evidence from outside resolves the ambiguous attempt.
OutboxResolved ==
  /\ ambiguous
  /\ ambiguous' = FALSE
  /\ UNCHANGED <<environment, schedule, receipts, scans, worker, suspect>>

NextSession ==
  /\ session < MaxSessions
  /\ session' = session + 1
  /\ UNCHANGED <<now, deaths, schedule, receipts, scans, ambiguous, worker, suspect>>

Tick ==
  /\ now < MaxTime
  /\ now' = now + 1
  /\ UNCHANGED <<session, deaths, schedule, receipts, scans, ambiguous, worker, suspect>>

Init ==
  /\ now = 0 /\ session = 1 /\ deaths = 0
  /\ schedule = [owner |-> 0, slots |-> [j \in Jobs |-> -1], pending |-> {}]
  /\ receipts = [started |-> {}, ended |-> {}, aborted |-> {}, unresolved |-> {},
                 reconciled |-> {}]
  /\ scans = {} /\ ambiguous = FALSE
  /\ worker = Down
  /\ suspect = {}

Next ==
  \/ StartWorker \/ Stop \/ Choose \/ Skip \/ TickStarted \/ Acknowledge
  \/ TickAborted \/ RecoveryRefused \/ Reconcile \/ ReconcileTick \/ ClearRecovery
  \/ Management \/ Entry
  \/ \E phase \in {"PROBE", "DISCOVERY"} : ScanStarted(phase)
  \/ ScanEnded \/ TickUnresolved \/ TickFinished \/ Die
  \/ OutboxResolved \/ NextSession \/ Tick

Spec == Init /\ [][Next]_vars

-----------------------------------------------------------------------------
(* Properties *)

Ids == (1 .. MaxSessions) \X (0 .. MaxTime)

\* The type of the state.
TypeOK ==
  /\ now \in 0 .. MaxTime /\ session \in 1 .. MaxSessions /\ deaths \in 0 .. MaxDeaths
  /\ schedule.owner \in 0 .. MaxSessions
  /\ schedule.slots \in [Jobs -> -1 .. MaxTime]
  /\ schedule.pending \subseteq Slot
  /\ receipts.started \subseteq [id : Ids, slots : SUBSET Slot]
  /\ receipts.ended \cup receipts.aborted \cup receipts.unresolved
       \cup receipts.reconciled \subseteq StartedIds
  /\ scans \subseteq 1 .. MaxSessions
  /\ worker.pc \in {"down", "loop", "chosen", "starting", "started", "working",
                    "clearing", "scanning"}
  /\ suspect \subseteq StartedIds

\* Entry begins only when every tick that ended badly, in whatever process, has
\* been followed by an agreement with the broker, except for a tick that died
\* after its own clearance, and for one whose name an earlier, aborted attempt had:
\* the receipts tell attempts of a name apart only by the kind of their ends
\* (run_tick, clear_recovery, unmatched_ticks, __init__).
EntryIsReconciled ==
  Turn("ENTRY") => suspect \subseteq receipts.reconciled \cup receipts.aborted

\* The same without the exceptions: a prior tick that broke off is a witness that
\* no later process may lose (the comment in __init__).
EntryIsSettled == Turn("ENTRY") => suspect = {}

\* A slot that the counters have passed while its job was allowed is pending or
\* in a receipt: no crash consumes it silently (FixedRateSchedule, pending).
SlotsAreWitnessed ==
  \A j \in Jobs : LET i == schedule.slots[j] IN
    i >= 0 /\ (i * Cadence[j] .. (i + 1) * Cadence[j] - 1) \subseteq Window[j]
    => LET slot == [job |-> j, index |-> i]
       IN slot \in schedule.pending \/ \E r \in receipts.started : slot \in r.slots

\* The receipts account for every tick (autocycle.run_tick).
TicksAreAccounted == EntryIsReconciled /\ SlotsAreWitnessed
=============================================================================
