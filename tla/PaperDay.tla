------------------------------ MODULE PaperDay ------------------------------
(***************************************************************************)
(* A paper day: the start and stop of the controller (paperday.py), the    *)
(* scheduler process it supervises (scheduler.py) and the recovery verb    *)
(* (paperday_recovery_cli.py), which meet only in small files: the session *)
(* lock, the entry gate, the scheduler's pid record, its start claim, its  *)
(* heartbeat, its stop request and its terminal receipt.                   *)
(*                                                                         *)
(* Starts and stops may overlap, and every process may die between two of  *)
(* its steps.  One step is one look at the files or one publication.  A    *)
(* session number stands for the session id and for the fencing token that *)
(* is minted with it; process numbers are not reused.                      *)
(***************************************************************************)
EXTENDS Integers, Sequences, FiniteSets

CONSTANTS
  Controllers,   \* start and stop invocations that may run at a time
  Mandates,      \* subset of {"FULL", "MANAGE_ONLY"}
  MaxStarts,     \* bound: start invocations
  MaxStops,      \* bound: stop invocations
  MaxChildren,   \* bound: scheduler processes
  MaxTimeouts,   \* bound: handshakes and drains that are given up on
  MaxCrashes,    \* bound: processes that die in mid-step
  None

Start == 1 .. MaxStarts
Identity == [session : Start, nonce : Start]

ASSUME DayAssumption ==
  /\ Mandates \subseteq {"FULL", "MANAGE_ONLY"}
  /\ {MaxStarts, MaxStops, MaxChildren, MaxTimeouts, MaxCrashes} \subseteq Nat
  /\ None \notin Identity

VARIABLES
  full,      \* the mandate of the day is FULL, its scheduler policy autotrader/1
  lock, gate, watcher, shutdown,              \* the controller's files
  record, claim, beat, quiesce, terminal,     \* the scheduler's files
  pending,   \* processes whose last tick has a start and no end in the receipts
  control,   \* the controllers
  child,     \* the scheduler processes, in the order of their spawning
  starts, stops, timeouts, crashes

day == <<lock, gate, watcher, shutdown>>
sched == <<record, claim, beat, quiesce, terminal>>
bounds == <<starts, stops, timeouts, crashes>>
vars == <<full, day, sched, pending, control, child, bounds>>

-----------------------------------------------------------------------------
(* What the files say *)

Alive(k) == child[k].pc # "dead"
RecordOf(k) == [session |-> child[k].id.session, nonce |-> child[k].id.nonce, pid |-> k]
IdentityOf(r) == [session |-> r.session, nonce |-> r.nonce]

\* Mutant of CleanExit: any terminal receipt proves a clean end.
ReceiptFound(id) == terminal # None

\* _clean_exit_proven
CleanExit(id) == terminal # None /\ terminal.id = id /\ terminal.clean

\* Mutant of Leased: the session id is taken for the lease.
LeasedBySession(id) == lock = id.session

\* SchedulerLoop._lease_held: the session, then the claim, then the pid record;
\* without either only a legacy policy goes on.
Leased(id) ==
  /\ lock = id.session
  /\ IF claim # None THEN claim = id
     ELSE IF record # None THEN IdentityOf(record) = id
     ELSE ~full

\* _recovery_required_on_disk: the mark is sticky, and an unmatched tick sets it.
MustRecover == (gate # None /\ gate.recovery) \/ pending # {}

\* _scheduler_identity_payload: the record, when it is this session's.
Licensed(s) == IF record # None /\ record.session = s THEN record ELSE None

\* _write_gate_for
GateOf(position, s) ==
  [position |-> position, session |-> s, token |-> lock,
   recovery |-> MustRecover, scheduler |-> Licensed(s)]

\* _strict_authority_refusal: the scheduler that the gate names is recorded, has
\* announced itself and is alive, and the lock the gate was written under is
\* still in place.
StrictAuthority ==
  /\ gate.scheduler # None /\ record = gate.scheduler
  /\ beat = IdentityOf(gate.scheduler) /\ Alive(gate.scheduler.pid)
  /\ lock # 0 /\ lock = gate.session /\ lock = gate.token

\* entry_gate_preflight for an armed entry, which only a FULL day has.
Admits ==
  /\ full
  /\ gate # None /\ gate.position = "OPEN" /\ ~gate.recovery
  /\ StrictAuthority

-----------------------------------------------------------------------------
(* Controllers *)

\* prior and seen: the gate and the watcher's record as they were read; clean: no step
\* of a stop failed; proven: that of the scheduler did not.
Idle == [pc |-> "idle", me |-> 0, session |-> 0, state |-> "READY", prior |-> None,
         seen |-> None, id |-> None, pid |-> 0, clean |-> TRUE, proven |-> TRUE]

My(c) == control[c]
At(c, pc) == control[c].pc = pc
Goto(c, pc) == control' = [control EXCEPT ![c].pc = pc]
Quit(c) == control' = [control EXCEPT ![c] = Idle]

\* A fresh session id; nothing is read yet.
BeginStart(c) ==
  /\ At(c, "idle")
  /\ starts < MaxStarts
  /\ starts' = starts + 1
  /\ control' = [control EXCEPT ![c] =
       [Idle EXCEPT !.pc = "start", !.me = starts', !.session = starts']]
  /\ UNCHANGED <<full, day, sched, pending, child, stops, timeouts, crashes>>

\* A configuration that does not load, or FULL without its hashes: the gate is
\* closed before any lock is looked at.
StartMisconfigured(c) ==
  /\ At(c, "start")
  /\ gate' = GateOf("CLOSED", My(c).session)
  /\ Quit(c)
  /\ UNCHANGED <<full, lock, watcher, shutdown, sched, pending, child, bounds>>

WatcherHolds(s) ==
  /\ watcher # None /\ watcher.alive /\ watcher.session = s
  /\ gate # None /\ gate.session = s /\ gate.token = s

\* _acquire_lock, its reads: a lock whose watcher lives is adopted, any other
\* is stale.
ReadLock(c) ==
  /\ At(c, "start")
  /\ control' = [control EXCEPT ![c] =
       IF lock # 0 /\ WatcherHolds(lock)
       THEN [@ EXCEPT !.pc = "broker", !.session = lock]
       ELSE [@ EXCEPT !.pc = IF lock # 0 THEN "stale" ELSE "absent", !.prior = gate]]
  /\ UNCHANGED <<full, day, sched, pending, child, bounds>>

\* _close_stale_authority, from the gate that was read.
FenceGate(c) ==
  /\ At(c, "stale") \/ At(c, "absent")
  /\ gate' = IF My(c).prior # None /\ My(c).prior.position # "CLOSED"
             THEN [My(c).prior EXCEPT !.position = "CLOSED", !.recovery = TRUE]
             ELSE gate
  /\ control' = [control EXCEPT ![c].prior = None,
                                ![c].pc = IF @ = "stale" THEN "unlink" ELSE "link"]
  /\ UNCHANGED <<full, lock, watcher, shutdown, sched, pending, child, bounds>>

\* The stale lock is unlinked by its path.
UnlinkStale(c) ==
  /\ At(c, "unlink")
  /\ lock' = 0
  /\ Goto(c, "link")
  /\ UNCHANGED <<full, gate, watcher, shutdown, sched, pending, child, bounds>>

\* _acquire_lock_atomically: os.link takes an absent path only; the loser
\* leaves without touching the gate.
LinkLock(c) ==
  /\ At(c, "link")
  /\ IF lock = 0 THEN lock' = My(c).session /\ Goto(c, "broker")
                 ELSE lock' = lock /\ Quit(c)
  /\ UNCHANGED <<full, gate, watcher, shutdown, sched, pending, child, bounds>>

\* No broker: the day is BLOCKED, its lock stays.
BrokerFails(c) ==
  /\ At(c, "broker")
  /\ gate' = GateOf("CLOSED", My(c).session)
  /\ Quit(c)
  /\ UNCHANGED <<full, lock, watcher, shutdown, sched, pending, child, bounds>>

\* _ensure_watcher: the recorded one if it belongs to the lock on disk, or a
\* new one; failing to start it degrades the day.
EnsureWatcher(c) ==
  /\ At(c, "broker")
  /\ IF watcher # None /\ watcher.alive /\ watcher.session = lock
     THEN watcher' = watcher /\ Goto(c, "decide")
     ELSE \/ /\ watcher' = [session |-> lock, alive |-> TRUE]
             /\ Goto(c, "decide")
          \/ /\ watcher' = watcher
             /\ control' = [control EXCEPT ![c].pc = "decide", ![c].state = "DEGRADED"]
  /\ UNCHANGED <<full, lock, gate, shutdown, sched, pending, child, bounds>>

\* Mutant of Position: the state of the day is written for that of the gate.
PositionIsState(state) == state

\* StartReport.decide: what each of its checks adds up to.
Position(state) ==
  CASE state = "READY" -> "OPEN" [] state = "DEGRADED" -> "PROOF_ONLY"
    [] state = "BLOCKED" -> "CLOSED"

\* StartReport.decide: the worst of what the checks came to.
DayState(results) ==
  IF "BLOCKED" \in results THEN "BLOCKED"
  ELSE IF "DEGRADED" \in results THEN "DEGRADED" ELSE "READY"

\* What each check after the watcher may come to: the handoffs, the book against
\* the broker, the marks, the reviewer's answer, the proof of consumption.
HandoffsRecovered == {"READY", "DEGRADED"}
Reconciliation    == {"READY", "DEGRADED", "BLOCKED"}
Marking           == {"READY", "DEGRADED"}
Liveness          == {"READY", "DEGRADED"}
ConsumptionProof  == {"READY", "DEGRADED"}

Checks ==
  {DayState({handoffs, book, marks, reviewer, proof}) :
     handoffs \in HandoffsRecovered, book \in Reconciliation, marks \in Marking,
     reviewer \in Liveness, proof \in ConsumptionProof}

Decide(c) ==
  /\ At(c, "decide")
  /\ \E checks \in Checks :
       LET state == DayState({My(c).state, checks})
       IN /\ gate' = GateOf(Position(state), My(c).session)
          /\ control' = [control EXCEPT ![c].pc = "adopt", ![c].state = state]
  /\ UNCHANGED <<full, lock, watcher, shutdown, sched, pending, child, bounds>>

-----------------------------------------------------------------------------
(* adopt_or_spawn *)

\* _scheduler_identity: the nonce of this session's record, or a new one.
IdentityFor(c) ==
  IF record # None /\ record.session = My(c).session THEN IdentityOf(record)
  ELSE [session |-> My(c).session, nonce |-> My(c).me]

\* A scheduler check that failed blocks a FULL day and degrades any other.
Worse(state, ok) ==
  IF ok THEN state ELSE IF full \/ state = "BLOCKED" THEN "BLOCKED" ELSE "DEGRADED"

Settled(c, ok) ==
  control' = [control EXCEPT ![c].pc = "license", ![c].state = Worse(@, ok),
                             ![c].id = None, ![c].pid = 0]

\* A day that was given no scheduler: FULL is blocked, any other is done.
NoScheduler(c) ==
  /\ At(c, "adopt")
  /\ IF full THEN Settled(c, FALSE) ELSE Quit(c)
  /\ UNCHANGED <<full, day, sched, pending, child, bounds>>

\* A recorded process that lives is adopted or left alone; a dead one makes
\* room, and the signals of whoever came before are cleared.
AdoptScheduler(c) ==
  /\ At(c, "adopt")
  /\ LET id == IdentityFor(c)
     IN IF record # None /\ Alive(record.pid)
        THEN /\ Settled(c, child[record.pid].id = id)
             /\ UNCHANGED <<quiesce, beat, terminal>>
        ELSE /\ control' = [control EXCEPT ![c].pc = "claim", ![c].id = id]
             /\ quiesce' = None /\ beat' = None /\ terminal' = None
  /\ UNCHANGED <<full, day, record, claim, pending, child, bounds>>

\* Mutant of ClaimStart: a claim on disk is taken over.
ClaimOverwritten(c) ==
  /\ At(c, "claim")
  /\ claim' = My(c).id
  /\ Goto(c, "spawn")
  /\ UNCHANGED <<full, day, record, beat, quiesce, terminal, pending, child, bounds>>

\* _claim_start: exclusive; only an own claim with a proven clean end is reused.
ClaimStart(c) ==
  /\ At(c, "claim")
  /\ IF claim = None \/ (claim = My(c).id /\ CleanExit(My(c).id))
     THEN claim' = My(c).id /\ Goto(c, "spawn")
     ELSE claim' = claim /\ Settled(c, FALSE)
  /\ UNCHANGED <<full, day, record, beat, quiesce, terminal, pending, child, bounds>>

\* _release_start_claim
Release(id) == claim' = IF claim = id THEN None ELSE claim

SpawnScheduler(c) ==
  /\ At(c, "spawn")
  /\ Len(child) < MaxChildren
  /\ child' = Append(child, [id |-> My(c).id, pc |-> "new", clean |-> FALSE])
  /\ control' = [control EXCEPT ![c].pc = "handshake", ![c].pid = Len(child')]
  /\ UNCHANGED <<full, day, sched, pending, bounds>>

SpawnFails(c) ==
  /\ At(c, "spawn")
  /\ Release(My(c).id)
  /\ Settled(c, FALSE)
  /\ UNCHANGED <<full, day, record, beat, quiesce, terminal, pending, child, bounds>>

\* The heartbeat carries this identity and the process lives: it is recorded.
Handshake(c) ==
  /\ At(c, "handshake")
  /\ beat = My(c).id
  /\ Alive(My(c).pid)
  /\ record' = RecordOf(My(c).pid)
  /\ Settled(c, TRUE)
  /\ UNCHANGED <<full, day, claim, beat, quiesce, terminal, pending, child, bounds>>

\* The child is gone, or no longer waited for: it is not recorded and the claim
\* is given back, also when it is merely slow.
HandshakeFails(c) ==
  /\ At(c, "handshake")
  /\ IF Alive(My(c).pid)
     THEN beat # My(c).id /\ timeouts < MaxTimeouts /\ timeouts' = timeouts + 1
     ELSE timeouts' = timeouts
  /\ Release(My(c).id)
  /\ Settled(c, FALSE)
  /\ UNCHANGED <<full, day, record, beat, quiesce, terminal, pending, child,
                 starts, stops, crashes>>

\* The day is decided again with the scheduler's check, and the gate rewritten.
Relicense(c) ==
  /\ At(c, "license")
  /\ gate' = GateOf(Position(My(c).state), My(c).session)
  /\ Quit(c)
  /\ UNCHANGED <<full, lock, watcher, shutdown, sched, pending, child, bounds>>

-----------------------------------------------------------------------------
(* stop *)

Owns(c) == lock = My(c).session
Dirty(c, pc) == control' = [control EXCEPT ![c].pc = pc, ![c].clean = FALSE]
Unproven(c, pc) ==
  control' = [control EXCEPT ![c].pc = pc, ![c].clean = FALSE, ![c].proven = FALSE]

\* The lock's session is the one to stop; 0 when there is no lock.  The gate and the
\* watcher's record are read with it.
BeginStop(c) ==
  /\ At(c, "idle")
  /\ stops < MaxStops
  /\ stops' = stops + 1
  /\ control' = [control EXCEPT ![c] =
       [Idle EXCEPT !.pc = "shut", !.session = lock, !.prior = gate, !.seen = watcher]]
  /\ UNCHANGED <<full, day, sched, pending, child, starts, timeouts, crashes>>

\* _taken_over_by_another_session
TakenOver(c) ==
  /\ At(c, "shut")
  /\ lock # 0 /\ ~Owns(c)
  /\ Quit(c)
  /\ UNCHANGED <<full, day, sched, pending, child, bounds>>

\* The gate is closed before anything else, with what it said at the outset: what was
\* written to it since is lost.  The look at the lock is already behind.
ShutGate(c) ==
  /\ At(c, "shut")
  /\ LET prior == My(c).prior
     IN gate' = [position |-> "CLOSED", session |-> My(c).session, token |-> My(c).session,
                 recovery |-> prior # None /\ prior.recovery,
                 scheduler |-> IF prior = None THEN None ELSE prior.scheduler]
  /\ control' = [control EXCEPT ![c].pc = "shutting", ![c].prior = None]
  /\ UNCHANGED <<full, lock, watcher, shutdown, sched, pending, child, bounds>>

\* A replacement that came in between keeps its session; a gate that names
\* nobody's any more is withdrawn.
CheckOwner(c) ==
  /\ At(c, "shutting")
  /\ IF Owns(c)
     THEN gate' = gate /\ Goto(c, "quiesce")
     ELSE /\ gate' = IF lock = 0 /\ gate # None /\ gate.session = My(c).session
                       THEN None ELSE gate
          /\ Quit(c)
  /\ UNCHANGED <<full, lock, watcher, shutdown, sched, pending, child, bounds>>

\* Without a session the scheduler is asked to stop, and nothing is torn down.
Torn(c) == IF My(c).session = 0 THEN "left" ELSE "cancel"

\* _stop_scheduler without a record: clean when none was expected, or when the
\* one the gate licensed has left its receipt.
NoRecord(c) ==
  /\ At(c, "quiesce")
  /\ record = None
  /\ IF (gate # None /\ gate.scheduler # None /\ CleanExit(IdentityOf(gate.scheduler)))
     THEN Goto(c, Torn(c))
     ELSE \/ ~full /\ (gate = None \/ gate.scheduler = None) /\ Goto(c, Torn(c))
          \/ Unproven(c, Torn(c))
  /\ UNCHANGED <<full, day, sched, pending, child, bounds>>

\* The stop request is bound to the recorded identity; a record the gate does
\* not name is drained by nobody.
Quiesce(c) ==
  /\ At(c, "quiesce")
  /\ record # None
  /\ quiesce' = IdentityOf(record)
  /\ IF gate # None /\ gate.scheduler # None /\ gate.scheduler # record
     THEN Unproven(c, Torn(c))
     ELSE control' = [control EXCEPT ![c].pc = "drain", ![c].id = IdentityOf(record),
                                     ![c].pid = record.pid]
  /\ UNCHANGED <<full, day, record, claim, beat, terminal, pending, child, bounds>>

\* drain_and_stop: a process that ended on its own is clean by its receipt only.
Drained(c) ==
  /\ At(c, "drain")
  /\ ~Alive(My(c).pid)
  /\ IF CleanExit(My(c).id)
     THEN record' = None /\ Goto(c, Torn(c))
     ELSE record' = record /\ Unproven(c, Torn(c))
  /\ UNCHANGED <<full, day, claim, beat, quiesce, terminal, pending, child, bounds>>

\* The bound is reached: the process is terminated in whatever it is doing.
Terminate(c) ==
  /\ At(c, "drain")
  /\ Alive(My(c).pid)
  /\ timeouts < MaxTimeouts
  /\ timeouts' = timeouts + 1
  /\ child' = [child EXCEPT ![My(c).pid].pc = "dead"]
  /\ record' = None
  /\ Unproven(c, Torn(c))
  /\ UNCHANGED <<full, day, claim, beat, quiesce, terminal, pending,
                 starts, stops, crashes>>

\* "no owned session lock; destructive teardown refused"
LeaveAlone(c) ==
  /\ At(c, "left")
  /\ Quit(c)
  /\ UNCHANGED <<full, day, sched, pending, child, bounds>>

\* _require_stop_ownership stands before every phase of the teardown.
Abandon(c) ==
  /\ \E pc \in {"cancel", "settle", "audit", "reviewer", "watcher", "mark", "release"} :
       At(c, pc)
  /\ ~Owns(c)
  /\ Quit(c)
  /\ UNCHANGED <<full, day, sched, pending, child, bounds>>

\* A phase of the teardown that may come out dirty and goes on.
Phase(c, pc, next) ==
  /\ At(c, pc)
  /\ Owns(c)
  /\ Goto(c, next) \/ Dirty(c, next)
  /\ UNCHANGED <<full, day, sched, pending, child, bounds>>

\* Working entries are cancelled with armed calls, one by one; then the handoffs
\* are closed, the book reconciled and marked, and the reviewer told.
CancelEntries(c)  == Phase(c, "cancel", "settle")
SettleHandoffs(c) == Phase(c, "settle", "audit")
FinalAudit(c)     == Phase(c, "audit", "reviewer")
AskReviewer(c)    == Phase(c, "reviewer", "watcher")

\* _stop_watcher: the record read at the outset, if it is this session's.
StopWatcher(c) ==
  /\ At(c, "watcher")
  /\ Owns(c)
  /\ IF watcher # My(c).seen \/ (watcher # None /\ watcher.alive /\ watcher.session # lock)
     THEN watcher' = watcher /\ Dirty(c, "mark")
     ELSE watcher' = None /\ Goto(c, "mark")
  /\ UNCHANGED <<full, lock, gate, shutdown, sched, pending, child, bounds>>

\* _mark_recovery_required, when the scheduler's end is not proven; what else came out
\* dirty leaves the gate alone.
MarkRecovery(c) ==
  /\ At(c, "mark")
  /\ Owns(c)
  /\ gate' = IF ~My(c).proven /\ gate # None THEN [gate EXCEPT !.recovery = TRUE] ELSE gate
  /\ Goto(c, "release")
  /\ UNCHANGED <<full, lock, watcher, shutdown, sched, pending, child, bounds>>

\* The lock is compared, then unlinked by its path.
CompareLock(c) ==
  /\ At(c, "release")
  /\ Owns(c)
  /\ Goto(c, "releasing")
  /\ UNCHANGED <<full, day, sched, pending, child, bounds>>

UnlinkLock(c) ==
  /\ At(c, "releasing")
  /\ lock' = 0
  /\ Goto(c, "publish")
  /\ UNCHANGED <<full, gate, watcher, shutdown, sched, pending, child, bounds>>

\* _publish_last_shutdown: only while the released lock is still free, and
\* withdrawn if it is not any more.
Publish(c) ==
  /\ At(c, "publish")
  /\ IF lock = 0
     THEN /\ shutdown' = [session |-> My(c).session, clean |-> My(c).clean]
          /\ Goto(c, "published")
     ELSE shutdown' = shutdown /\ Quit(c)
  /\ UNCHANGED <<full, lock, gate, watcher, sched, pending, child, bounds>>

Withdraw(c) ==
  /\ At(c, "published")
  /\ shutdown' = IF lock # 0 /\ shutdown # None /\ shutdown.session = My(c).session
                 THEN None ELSE shutdown
  /\ Quit(c)
  /\ UNCHANGED <<full, lock, gate, watcher, sched, pending, child, bounds>>

-----------------------------------------------------------------------------
(* The scheduler process *)

Become(k, pc) == child' = [child EXCEPT ![k].pc = pc]
Finish(k, clean) == child' = [child EXCEPT ![k].pc = "ending", ![k].clean = clean]
Is(k, pc) == k \in DOMAIN child /\ child[k].pc = pc

\* SchedulerLoop.run: readiness first, then the ticks nobody ended.  No caller
\* supplies a reconciler, so an unmatched one ends the process.
Announce(k) ==
  /\ Is(k, "new")
  /\ beat' = child[k].id
  /\ IF full /\ pending # {} THEN Finish(k, FALSE) ELSE Become(k, "waiting")
  /\ UNCHANGED <<full, day, record, claim, quiesce, terminal, pending, control, bounds>>

\* tick, up to its first early return.
EndLoop(k) ==
  /\ Is(k, "waiting")
  /\ ~Leased(child[k].id) \/ quiesce = child[k].id
  /\ Finish(k, TRUE)
  /\ UNCHANGED <<full, day, sched, pending, control, bounds>>

\* TICK_STARTED is on disk before the worker runs.
BeginTick(k) ==
  /\ Is(k, "waiting")
  /\ Leased(child[k].id) /\ quiesce # child[k].id
  /\ pending' = IF full THEN pending \cup {k} ELSE pending
  /\ Become(k, "pass")
  /\ UNCHANGED <<full, day, sched, control, bounds>>

\* The worker is back: the lease is looked at again, then its exit code.  Each
\* of the three ends of a tick takes its start off the unmatched ones.
EndTick(k) ==
  /\ Is(k, "pass")
  /\ pending' = pending \ {k}
  /\ IF Leased(child[k].id)
     THEN Become(k, "waiting") \/ Finish(k, FALSE)
     ELSE Finish(k, FALSE)
  /\ UNCHANGED <<full, day, sched, control, bounds>>

\* _write_terminal_receipt, then the start claim is given back.
WriteTerminal(k) ==
  /\ Is(k, "ending")
  /\ terminal' = [id |-> child[k].id, clean |-> child[k].clean]
  /\ Become(k, "ended")
  /\ UNCHANGED <<full, day, record, claim, beat, quiesce, pending, control, bounds>>

LeaveProcess(k) ==
  /\ Is(k, "ended")
  /\ Release(child[k].id)
  /\ Become(k, "dead")
  /\ UNCHANGED <<full, day, record, beat, quiesce, terminal, pending, control, bounds>>

-----------------------------------------------------------------------------
(* Recovery and death *)

\* The acceptance bar of paperday_recovery.py over what build_recovery_attempt
\* reads: the operator names the recorded process and the gate's token, no tick
\* of that process is unmatched and the broker agrees.
RecoveryAccepted ==
  /\ record # None
  /\ gate # None /\ gate.recovery
  /\ \A k \in pending : child[k].id # IdentityOf(record)

\* consume_stale_scheduler_records: the record and its own claim.
ConsumeRecord ==
  /\ record' = None
  /\ Release(IdentityOf(record))

\* run_recovery, one at a time under its lock: the process must be dead; the mark
\* is taken off the gate and what the process left behind is consumed.
Recover ==
  /\ RecoveryAccepted
  /\ ~Alive(record.pid)
  /\ gate' = [gate EXCEPT !.recovery = FALSE]
  /\ ConsumeRecord
  /\ UNCHANGED <<full, lock, watcher, shutdown, beat, quiesce, terminal, pending,
                 control, child, bounds>>

Crash == crashes < MaxCrashes /\ crashes' = crashes + 1

ControllerDies(c) ==
  /\ ~At(c, "idle")
  /\ Crash
  /\ Quit(c)
  /\ UNCHANGED <<full, day, sched, pending, child, starts, stops, timeouts>>

ChildDies(k) ==
  /\ k \in DOMAIN child /\ Alive(k)
  /\ Crash
  /\ Become(k, "dead")
  /\ UNCHANGED <<full, day, sched, pending, control, starts, stops, timeouts>>

WatcherDies ==
  /\ watcher # None /\ watcher.alive
  /\ Crash
  /\ watcher' = [watcher EXCEPT !.alive = FALSE]
  /\ UNCHANGED <<full, lock, gate, shutdown, sched, pending, control, child,
                 starts, stops, timeouts>>

Init ==
  /\ full \in {m = "FULL" : m \in Mandates}
  /\ lock = 0 /\ gate = None /\ watcher = None /\ shutdown = None
  /\ record = None /\ claim = None /\ beat = None /\ quiesce = None /\ terminal = None
  /\ pending = {}
  /\ control = [c \in Controllers |-> Idle]
  /\ child = <<>>
  /\ starts = 0 /\ stops = 0 /\ timeouts = 0 /\ crashes = 0

Starting(c) ==
  \/ BeginStart(c) \/ StartMisconfigured(c) \/ ReadLock(c) \/ FenceGate(c)
  \/ UnlinkStale(c) \/ LinkLock(c) \/ BrokerFails(c) \/ EnsureWatcher(c) \/ Decide(c)
  \/ NoScheduler(c) \/ AdoptScheduler(c) \/ ClaimStart(c) \/ SpawnScheduler(c)
  \/ SpawnFails(c) \/ Handshake(c) \/ HandshakeFails(c) \/ Relicense(c)

Stopping(c) ==
  \/ BeginStop(c) \/ TakenOver(c) \/ ShutGate(c) \/ CheckOwner(c) \/ NoRecord(c)
  \/ Quiesce(c) \/ Drained(c) \/ Terminate(c) \/ LeaveAlone(c) \/ Abandon(c)
  \/ CancelEntries(c) \/ SettleHandoffs(c) \/ FinalAudit(c) \/ AskReviewer(c)
  \/ StopWatcher(c) \/ MarkRecovery(c) \/ CompareLock(c)
  \/ UnlinkLock(c) \/ Publish(c) \/ Withdraw(c)

Scheduling(k) ==
  \/ Announce(k) \/ EndLoop(k) \/ BeginTick(k) \/ EndTick(k)
  \/ WriteTerminal(k) \/ LeaveProcess(k)

Next ==
  \/ \E c \in Controllers : Starting(c) \/ Stopping(c) \/ ControllerDies(c)
  \/ \E k \in 1 .. MaxChildren : Scheduling(k) \/ ChildDies(k)
  \/ Recover \/ WatcherDies

Spec == Init /\ [][Next]_vars

-----------------------------------------------------------------------------
(* Properties *)

Process == [id : Identity, pc : {"new", "waiting", "pass", "ending", "ended", "dead"},
            clean : BOOLEAN]

\* The type of the state.
TypeOK ==
  /\ full \in BOOLEAN
  /\ lock \in 0 .. MaxStarts
  /\ gate = None \/ (/\ gate.position \in {"OPEN", "PROOF_ONLY", "CLOSED"}
                     /\ gate.session \in 0 .. MaxStarts /\ gate.token \in 0 .. MaxStarts
                     /\ gate.recovery \in BOOLEAN)
  /\ {claim, beat, quiesce} \subseteq Identity \cup {None}
  /\ record = None \/ (IdentityOf(record) \in Identity /\ record.pid \in DOMAIN child)
  /\ child \in Seq(Process) /\ Len(child) <= MaxChildren
  /\ pending \subseteq DOMAIN child
  /\ starts <= MaxStarts /\ stops <= MaxStops
  /\ timeouts <= MaxTimeouts /\ crashes <= MaxCrashes

\* While the gate admits an armed entry, no scheduler but the one it names is in
\* a pass, whatever starts, stops and deaths led there: the pass that asks is
\* the licensed one (entry_gate_preflight, _lease_held, adopt_or_spawn).
LicenceIsExclusive ==
  Admits => \A k \in DOMAIN child : Is(k, "pass") => k = gate.scheduler.pid

\* "A second scheduler process, which adopt_or_spawn prevents by identity"
\* (scheduler.py:1103-1105): two schedulers of a FULL day are never in a pass at the
\* same time.
PassesAlone ==
  full => \A j, k \in DOMAIN child : Is(j, "pass") /\ Is(k, "pass") => j = k

\* Every process has an identity of its own.  A scheduler that replaces a dead one
\* of its session is given the dead one's (_scheduler_identity); a start that gives
\* up on it leaves it at work, and the next start gives the identity away again:
\* then PassesAlone fails.
Unshared == \A j, k \in DOMAIN child : child[j].id = child[k].id => j = k

\* One scheduler holds the licence of the day, as long as no identity is shared: the
\* start claim, the record and the nonce tell slow, orphaned and competing processes
\* from the licensed one (paperday.py, scheduler.py).
LicenceIsSingle == Unshared => LicenceIsExclusive /\ PassesAlone

\* A drain that is reported clean leaves no process of that identity at work and
\* no tick of it without an end: the receipt it trusts is the process's own, not
\* an earlier one's (drain_and_stop, _clean_exit_proven).
CleanDrainIsProven ==
  [][Unshared => \A c \in Controllers : Drained(c) /\ control'[c].clean =>
       \A k \in DOMAIN child : child[k].id = My(c).id =>
         (Is(k, "ended") \/ Is(k, "dead")) /\ k \notin pending]_vars

\* Once a stop has closed the gate it stays shut for as long as that stop works:
\* "gate first: no new proposals from this instant" (paperday.py, stop).
StaysShut ==
  \A c \in Controllers :
    At(c, "drain") \/ At(c, "cancel") \/ At(c, "watcher") => ~Admits
=============================================================================
