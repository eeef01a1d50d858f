------------------------- MODULE TransmissionBudget -------------------------
(***************************************************************************)
(* The session transmission cap of options/order_outbox.py, as several OS  *)
(* processes use it at once: the persistent cycle worker and the one-shot  *)
(* commands of cli.py open the same transmission-budget.json under the     *)
(* same state directory.                                                   *)
(*                                                                         *)
(* Every operation is a read-modify-write of that file inside an O_EXCL    *)
(* lock file which nobody waits for: a held lock refuses the call, and a   *)
(* process that dies inside leaves the lock behind.  The order journal is  *)
(* appended outside the lock.  A worker pins the UTC date of its session   *)
(* when it starts and keeps it when the day turns.                         *)
(***************************************************************************)
EXTENDS Integers, FiniteSets

CONSTANTS
  Worker,     \* the processes that share one state directory
  Attempt,    \* execution attempt ids (uuid4, so never reused)
  Limits,     \* the limits workers are configured with
  Cap,        \* the largest of them
  MaxDay,     \* bound: days the run may last
  MaxExits,   \* bound: closing orders the journal may also receive
  Tooling     \* whether anything calls release() and snapshot()

ASSUME BudgetAssumption ==
  /\ Cap \in Nat
  /\ Limits \subseteq 1 .. Cap
  /\ MaxDay \in Nat \ {0}
  /\ MaxExits \in Nat
  /\ Tooling \in BOOLEAN

Day == 1 .. MaxDay

VARIABLES
  today,    \* the wall clock's UTC date
  journal,  \* per UTC date, the order_placed records of orders.jsonl
  exits,    \* how many of them are closing orders
  file,     \* transmission-budget.json
  lock,     \* owner of transmission-budget.json.lock, a set of at most one
  pc,       \* where each worker is
  now,      \* self.now: the date a worker pinned when it started
  limit,    \* self.limit
  op,       \* the budget call a worker is inside
  token,    \* the attempt a worker's authorization names, a set of at most one
  mem,      \* the state dict a worker has computed and not yet written
  ok,       \* whether the call a worker is leaving succeeded
  minted,   \* attempt ids already drawn
  granted,  \* history: per session date, attempts granted and not released
  sends     \* history: per wall-clock date, attempts handed to the broker

vars == <<today, journal, exits, file, lock, pc, now, limit, op, token, mem,
          ok, minted, granted, sends>>
clock == <<today, exits>>
history == <<minted, granted, sends>>
identity == <<now, limit>>

Sent == UNION {sends[d] : d \in Day}

NoFile == [date |-> 0, limit |-> 0, journal_count |-> 0, committed |-> 0,
           reservations |-> {}]

State == [date : 0 .. MaxDay, limit : 0 .. Cap, journal_count : Nat,
          committed : Nat, reservations : SUBSET Attempt]

Ops == {"none", "reserve", "commit", "release", "snapshot"}
Inside == {"read", "write", "unlock"}
Outside == {"down", "idle", "granted", "sent", "record"}

TypeOK ==
  /\ today \in Day
  /\ journal \in [Day -> Nat]
  /\ exits \in Nat
  /\ file \in State
  /\ lock \in SUBSET Worker
  /\ pc \in [Worker -> Inside \cup Outside]
  /\ now \in [Worker -> Day]
  /\ limit \in [Worker -> 0 .. Cap]
  /\ op \in [Worker -> Ops]
  /\ token \in [Worker -> SUBSET Attempt]
  /\ mem \in [Worker -> State]
  /\ ok \in [Worker -> BOOLEAN]
  /\ minted \in SUBSET Attempt
  /\ granted \in [Day -> SUBSET Attempt]
  /\ sends \in [Day -> SUBSET Attempt]

Init ==
  /\ today = 1
  /\ journal = [d \in Day |-> 0]
  /\ exits = 0
  /\ file = NoFile
  /\ lock = {}
  /\ pc = [w \in Worker |-> "down"]
  /\ now = [w \in Worker |-> 1]
  /\ limit = [w \in Worker |-> 0]
  /\ op = [w \in Worker |-> "none"]
  /\ token = [w \in Worker |-> {}]
  /\ mem = [w \in Worker |-> NoFile]
  /\ ok = [w \in Worker |-> FALSE]
  /\ minted = {}
  /\ granted = [d \in Day |-> {}]
  /\ sends = [d \in Day |-> {}]

-----------------------------------------------------------------------------
(* The state dict: what _load, _sync_journal and the operations compute. *)

\* Mutant of Drained: reservations of a prior session do not count.
DrainedOfCommits(f) == f.committed = 0

Drained(f) == f.committed = 0 /\ f.reservations = {}

\* Mutant of LoadRefused: a prior session is always replaced.
LoadForgetsPrior(f, date, cap) == f.date = date /\ f.limit # cap

\* _load refuses a prior session that still counts something, and a cap that
\* changed under an active session.
LoadRefused(f, date, cap) ==
  \/ f.date # date /\ ~Drained(f)
  \/ f.date = date /\ f.limit # cap

\* A missing file (date 0) and a drained prior session both start afresh from
\* the journal's count for this date.
Load(f, date, cap, count) ==
  IF f.date = date THEN f
  ELSE [date |-> date, limit |-> cap, journal_count |-> count,
        committed |-> 0, reservations |-> {}]

SyncRefused(f, count) == count < f.journal_count

\* Mutants of Sync: no floor at zero; committed sends dropped whether or not the
\* journal shows them.
SyncWithoutFloor(f, count) ==
  [f EXCEPT !.journal_count = count, !.committed = @ - (count - f.journal_count)]

SyncForgetsCommitted(f, count) == [f EXCEPT !.journal_count = count, !.committed = 0]

\* Committed sends become journal records; what the journal does not show yet
\* stays committed.
Sync(f, count) ==
  LET delta == count - f.journal_count
  IN [f EXCEPT !.journal_count = count,
               !.committed = IF @ > delta THEN @ - delta ELSE 0]

UsedSlots(f) == f.journal_count + f.committed + Cardinality(f.reservations)

Loaded(w) == Load(file, now[w], limit[w], journal[now[w]])
Synced(w) == Sync(Loaded(w), journal[now[w]])

-----------------------------------------------------------------------------
(* The environment: the calendar, process starts and crashes, exits. *)

Tick ==
  /\ today < MaxDay
  /\ today' = today + 1
  /\ UNCHANGED <<journal, exits, file, lock, pc, identity, op, token, mem, ok,
                 history>>

\* TransmissionBudget.__init__: a new process pins today and its own limit.
Start(w) ==
  /\ pc[w] = "down"
  /\ \E l \in Limits : limit' = [limit EXCEPT ![w] = l]
  /\ now' = [now EXCEPT ![w] = today]
  /\ pc' = [pc EXCEPT ![w] = "idle"]
  /\ UNCHANGED <<clock, journal, file, lock, op, token, mem, ok, history>>

\* A death anywhere: memory goes, the lock file stays where it was.
Crash(w) ==
  /\ pc[w] # "down"
  /\ pc' = [pc EXCEPT ![w] = "down"]
  /\ op' = [op EXCEPT ![w] = "none"]
  /\ token' = [token EXCEPT ![w] = {}]
  /\ mem' = [mem EXCEPT ![w] = NoFile]
  /\ ok' = [ok EXCEPT ![w] = FALSE]
  /\ now' = [now EXCEPT ![w] = 1]
  /\ limit' = [limit EXCEPT ![w] = 0]
  /\ UNCHANGED <<clock, journal, file, lock, history>>

\* A closing order is journalled as order_placed too, and draws no budget.
ExitOrder(w) ==
  /\ pc[w] = "idle"
  /\ exits < MaxExits
  /\ exits' = exits + 1
  /\ journal' = [journal EXCEPT ![today] = @ + 1]
  /\ UNCHANGED <<today, file, lock, pc, identity, op, token, mem, ok, history>>

-----------------------------------------------------------------------------
(* _exclusive: entering is refused while the lock file exists. *)

\* Mutant of Enter: the lock file is opened without O_EXCL.
EnterUnlocked(w, o, t) ==
  /\ lock' = {w}
  /\ pc' = [pc EXCEPT ![w] = "read"]
  /\ op' = [op EXCEPT ![w] = o]
  /\ token' = [token EXCEPT ![w] = t]
  /\ UNCHANGED <<clock, journal, file, identity, mem, ok, granted, sends>>

Enter(w, o, t) ==
  /\ lock = {}
  /\ lock' = {w}
  /\ pc' = [pc EXCEPT ![w] = "read"]
  /\ op' = [op EXCEPT ![w] = o]
  /\ token' = [token EXCEPT ![w] = t]
  /\ UNCHANGED <<clock, journal, file, identity, mem, ok, granted, sends>>

ReserveCall(w, a) ==
  /\ pc[w] = "idle"
  /\ a \notin minted
  /\ minted' = minted \cup {a}
  /\ \/ Enter(w, "reserve", {a})
     \/ /\ lock # {}
        /\ UNCHANGED <<clock, journal, file, lock, pc, identity, op, token, mem,
                       ok, granted, sends>>

\* commit() refused by a held lock is reported and the pass goes on to record
\* the order.
CommitCall(w) ==
  /\ pc[w] = "sent"
  /\ \/ Enter(w, "commit", token[w])
     \/ /\ lock # {}
        /\ pc' = [pc EXCEPT ![w] = "record"]
        /\ UNCHANGED <<clock, journal, file, lock, identity, op, token, mem, ok,
                       granted, sends>>
  /\ UNCHANGED minted

\* "Release only a reservation proven never to reach the broker": its worker is
\* gone and nothing was sent for it.
ReleaseCall(w, a) ==
  /\ Tooling
  /\ pc[w] = "idle"
  /\ a \in file.reservations \ Sent
  /\ \A v \in Worker : a \notin token[v]
  /\ Enter(w, "release", {a})
  /\ UNCHANGED minted

SnapshotCall(w) ==
  /\ Tooling
  /\ pc[w] = "idle"
  /\ Enter(w, "snapshot", {})
  /\ UNCHANGED minted

-----------------------------------------------------------------------------
(* Inside the lock: read the file and the journal, then write, then unlink. *)

Compute(w, f) ==
  /\ mem' = [mem EXCEPT ![w] = f]
  /\ pc' = [pc EXCEPT ![w] = "write"]
  /\ UNCHANGED <<clock, journal, file, lock, identity, op, token, ok, history>>

ReadReserve(w) ==
  /\ pc[w] = "read" /\ op[w] = "reserve"
  /\ ~LoadRefused(file, now[w], limit[w])
  /\ ~SyncRefused(Loaded(w), journal[now[w]])
  /\ UsedSlots(Synced(w)) < limit[w]
  /\ token[w] \cap Synced(w).reservations = {}
  /\ Compute(w, [Synced(w) EXCEPT !.reservations = @ \cup token[w]])

\* Mutant of ReadCommit: the reservation goes, nothing takes its place.
ReadCommitUncounted(w) ==
  /\ pc[w] = "read" /\ op[w] = "commit"
  /\ ~LoadRefused(file, now[w], limit[w])
  /\ token[w] \subseteq Loaded(w).reservations
  /\ Compute(w, [Loaded(w) EXCEPT !.reservations = @ \ token[w]])

\* commit() loads without syncing the journal.
ReadCommit(w) ==
  /\ pc[w] = "read" /\ op[w] = "commit"
  /\ ~LoadRefused(file, now[w], limit[w])
  /\ token[w] \subseteq Loaded(w).reservations
  /\ Compute(w, [Loaded(w) EXCEPT !.reservations = @ \ token[w],
                                  !.committed = @ + 1])

ReadRelease(w) ==
  /\ pc[w] = "read" /\ op[w] = "release"
  /\ ~LoadRefused(file, now[w], limit[w])
  /\ token[w] \subseteq Loaded(w).reservations
  /\ Compute(w, [Loaded(w) EXCEPT !.reservations = @ \ token[w]])

ReadSnapshot(w) ==
  /\ pc[w] = "read" /\ op[w] = "snapshot"
  /\ ~LoadRefused(file, now[w], limit[w])
  /\ ~SyncRefused(Loaded(w), journal[now[w]])
  /\ Compute(w, Synced(w))

\* Any refusal of the four above, a journal or budget file that cannot be read,
\* and a state file that cannot be replaced: the call raises, nothing changes.
Refuse(w) ==
  /\ pc[w] \in {"read", "write"}
  /\ ok' = [ok EXCEPT ![w] = FALSE]
  /\ pc' = [pc EXCEPT ![w] = "unlock"]
  /\ UNCHANGED <<clock, journal, file, lock, identity, op, token, mem, history>>

\* _atomic_json: the whole file is replaced at once.
Write(w) ==
  /\ pc[w] = "write"
  /\ file' = mem[w]
  /\ ok' = [ok EXCEPT ![w] = TRUE]
  /\ pc' = [pc EXCEPT ![w] = "unlock"]
  /\ granted' = [granted EXCEPT ![mem[w].date] =
                   CASE op[w] = "reserve" -> @ \cup token[w]
                     [] op[w] = "release" -> @ \ token[w]
                     [] OTHER -> @]
  /\ UNCHANGED <<clock, journal, lock, identity, op, token, mem, minted, sends>>

\* Where a worker goes when its call returns or raises.
After(w) ==
  CASE op[w] = "reserve" /\ ok[w] -> "granted"
    [] op[w] = "commit" -> "record"
    [] OTHER -> "idle"

Unlock(w) ==
  /\ pc[w] = "unlock"
  /\ lock' = {}
  /\ pc' = [pc EXCEPT ![w] = After(w)]
  /\ token' = [token EXCEPT ![w] = IF After(w) = "idle" THEN {} ELSE @]
  /\ op' = [op EXCEPT ![w] = "none"]
  /\ mem' = [mem EXCEPT ![w] = NoFile]
  /\ ok' = [ok EXCEPT ![w] = FALSE]
  /\ UNCHANGED <<clock, journal, file, identity, history>>

-----------------------------------------------------------------------------
(* What the corridor does with a reservation (transmit.py, runner.py). *)

\* placeOrder is called and returns.
Send(w) ==
  /\ pc[w] = "granted"
  /\ sends' = [sends EXCEPT ![today] = @ \cup token[w]]
  /\ pc' = [pc EXCEPT ![w] = "sent"]
  /\ UNCHANGED <<clock, journal, file, lock, identity, op, token, mem, ok,
                 minted, granted>>

\* placeOrder raises, and the broker may have the order all the same: nothing is
\* committed, and the ladder journals the attempt (the corridor abandons it).
SendRaises(w) ==
  /\ pc[w] = "granted"
  /\ sends' \in {sends, [sends EXCEPT ![today] = @ \cup token[w]]}
  /\ pc' = [pc EXCEPT ![w] = "record"]
  /\ UNCHANGED <<clock, journal, file, lock, identity, op, token, mem, ok,
                 minted, granted>>

\* A refusal after the reservation (a lost lease, a failed send intent), a
\* placeOrder that raised, or a journal that could not be written: the pass
\* drops its authorization and nothing touches the budget.
Abandon(w) ==
  /\ pc[w] \in {"granted", "sent", "record"}
  /\ pc' = [pc EXCEPT ![w] = "idle"]
  /\ token' = [token EXCEPT ![w] = {}]
  /\ UNCHANGED <<clock, journal, file, lock, identity, op, mem, ok, history>>

\* journal.record("order_placed") stamps the wall clock's date.
Record(w) ==
  /\ pc[w] = "record"
  /\ journal' = [journal EXCEPT ![today] = @ + 1]
  /\ pc' = [pc EXCEPT ![w] = "idle"]
  /\ token' = [token EXCEPT ![w] = {}]
  /\ UNCHANGED <<clock, file, lock, identity, op, mem, ok, history>>

-----------------------------------------------------------------------------
Step(w) ==
  \/ Start(w)
  \/ Crash(w)
  \/ ExitOrder(w)
  \/ \E a \in Attempt : ReserveCall(w, a)
  \/ CommitCall(w)
  \/ \E a \in Attempt : ReleaseCall(w, a)
  \/ SnapshotCall(w)
  \/ ReadReserve(w)
  \/ ReadCommit(w)
  \/ ReadRelease(w)
  \/ ReadSnapshot(w)
  \/ Refuse(w)
  \/ Write(w)
  \/ Unlock(w)
  \/ Send(w)
  \/ SendRaises(w)
  \/ Abandon(w)
  \/ Record(w)

Next == Tick \/ \E w \in Worker : Step(w)

Spec == Init /\ [][Next]_vars

-----------------------------------------------------------------------------
(* Properties *)

\* No session grants more opening transmissions than its cap, whatever crashes,
\* unwritten journal records and interleaved processes do to the three numbers
\* the code adds up (reserve: used >= self.limit refuses).
SessionCap == \A d \in Day : Cardinality(granted[d]) <= Cap

\* A worker between the write of its reservation and the commit of it.
Holds(w) ==
  \/ pc[w] = "unlock" /\ op[w] = "reserve" /\ ok[w]
  \/ pc[w] \in {"granted", "sent"}
  \/ pc[w] = "read" /\ op[w] = "commit"

\* A reservation that reserve() made stays on disk, in the session of its
\* worker, until that worker commits it: no other process's write and no change
\* of day drops it.
GrantedIsHeld ==
  \A w \in Worker :
    Holds(w) => token[w] \subseteq file.reservations /\ file.date = now[w]

\* Inside one session the count the cap is compared with never goes down, except
\* when a reservation is released: the docstring's "prevents a crash loop from
\* escaping the session cap by repeatedly forgetting the last rung".
SlotsNeverForgotten ==
  [][ file'.date = file.date /\ file.date # 0 =>
        \/ UsedSlots(file') >= UsedSlots(file)
        \/ \E w \in Worker : pc[w] = "write" /\ op[w] = "release" ]_vars

\* No UTC day sees more opening sends than the cap, although a worker keeps the
\* session date it pinned at start and its late sends are journalled under
\* another date.
WallClockCap == \A d \in Day : Cardinality(sends[d]) <= Cap

-----------------------------------------------------------------------------
(* The inductive strengthening of SessionCap and GrantedIsHeld. *)

\* The lock file names the one worker between open(O_EXCL) and unlink().
LockOwned == \A w \in Worker : pc[w] \in Inside => lock = {w}

\* No two workers hold the same attempt id; a worker past reserve() or inside a
\* call about one attempt holds exactly one.
TokensApart ==
  /\ \A w \in Worker : token[w] \subseteq minted
  /\ \A v, w \in Worker : v # w => token[v] \cap token[w] = {}
  /\ \A w \in Worker :
       \/ pc[w] \in {"granted", "sent"}
       \/ pc[w] \in Inside /\ op[w] \in {"reserve", "commit", "release"}
       => \E a \in Attempt : token[w] = {a}

\* What is granted was drawn, and is finite.
FiniteSlots ==
  /\ IsFiniteSet(file.reservations)
  /\ \A d \in Day : IsFiniteSet(granted[d]) /\ granted[d] \subseteq minted

\* Every granted attempt is counted: for a session that is not in the file by
\* the journal alone, for the one that is by the three numbers together.
Counted ==
  /\ file.date = 0 => Drained(file)
  /\ \A d \in Day : d # file.date => Cardinality(granted[d]) <= journal[d]
  /\ file.date # 0 =>
       /\ Cardinality(granted[file.date]) <= UsedSlots(file)
       /\ file.journal_count <= journal[file.date]
       /\ file.reservations \subseteq granted[file.date]

\* The same of the state a worker is about to write, after the grant or the
\* release the write makes.
PendingWrite(w) ==
  LET f == mem[w]
      g == granted[now[w]]
  IN /\ f.date = now[w]
     /\ file.date = f.date \/ Drained(file)
     /\ f.journal_count <= journal[f.date]
     /\ file.date = f.date /\ op[w] # "release" =>
          UsedSlots(f) >= UsedSlots(file)
     /\ \/ /\ op[w] = "reserve"
           /\ f.reservations = (IF file.date = f.date THEN file.reservations
                               ELSE {}) \cup token[w]
           /\ Cardinality(g) + 1 <= UsedSlots(f)
           /\ UsedSlots(f) <= Cap
        \/ /\ op[w] = "commit"
           /\ file.date = f.date
           /\ f.reservations = file.reservations \ token[w]
           /\ Cardinality(g) <= UsedSlots(f)
        \/ /\ op[w] = "release"
           /\ file.date = f.date
           /\ token[w] \subseteq file.reservations
           /\ f.reservations = file.reservations \ token[w]
           /\ Cardinality(g) <= UsedSlots(f) + 1
        \/ /\ op[w] = "snapshot"
           /\ f.reservations = (IF file.date = f.date THEN file.reservations
                               ELSE {})
           /\ Cardinality(g) <= UsedSlots(f)

SlotInv ==
  /\ TypeOK
  /\ LockOwned
  /\ TokensApart
  /\ FiniteSlots
  /\ Counted
  /\ \A w \in Worker : pc[w] = "write" => PendingWrite(w)
  /\ SessionCap
  /\ GrantedIsHeld

=============================================================================
