# A verification development of the IBKR strategy engine

TLA+ models of the parts of this repository whose correctness depends on the order in which
things happen, the TLC configurations that check them, and proofs for TLAPS.

The repository holds two programs:

* **engine** (`src/engine/src/engine/`): a strategy engine that proposes option positions, has
  them reviewed, sends them to Interactive Brokers, works and manages them, and a stack of
  schedulers around it;
* **collab-kit** (`src/tools/collabkit/`, `src/tools/telegram-bridge.py`): the file-based
  "handoff" mailbox through which two seats (people or agents) exchange work. The engine uses it
  as its review desk.

Both keep all their shared state in small files (and a few SQLite tables) and have several OS
processes working on them at once. There is no database server and no event loop that serializes
anything: exclusion is `O_EXCL`, atomicity is `os.replace`, and recovery is whatever the next
process reads. That is what the models are about.

## 1. Inventory

The state each component keeps, its operations, what is hard about it, what makes it correct, and
the module that models it (section 3).

### Engine: from a scanned symbol to a closed position

| Component | State | Operations | Hard | Correct when | Module |
|---|---|---|---|---|---|
| **Catalog scan and observation cache** (`options/universe.py`, `observation_cache.py`) | refresh queue (SQLite), cached series | `select`, `mark_phase_one`, `phase_two_order`, `run_universe_pass` | few refreshes a pass, failing histories, passes that die with claims | nobody starves; a complete book is current | `RefreshQueue` |
| **Scan receipts, scan book, claims** (`scan_receipts.py`, `scanbook_store.py`) | immutable books, latest pointer, claim events and their index | `begin`, `publish`, `complete`, `abort`, `claim`, `release` | two passes claim a row while the next book is published | one owner at a time, of the row it was shown | `ScanBook` |
| **Logical entries** (`options/logical.py`) | append-only entry log, reservations | `claim`, `service`, `sweep`, `_supersede`, `record_physical_*` | two managers append on a stale version; a pass dies between release and ending | one live entry per underlying, its reservation comes back | `EntryReview`, `EntryPass` |
| **Verifier gate** (`options/approval.py`) | review handoffs, markers, receipts | `propose`, `require`, `consume`, `withdraw` | two processes hold the same approval; scan and create are separate | one approval, one order, of the reviewed spec | `EntryReview`, `OpeningCorridor` |
| **Pass and limits** (`options/runner.py`, `governor.py`, `portfolio.py`) | none of their own | `run_once`, `claim_one`, `_fold_reservations` | a pass that dies after some of its claims and orders | margin and pending limits hold over passes | `EntryPass` |
| **Opening corridor, transmission door** (`runner.py`, `options/transmit.py`) | none of their own | `_authorize_and_transmit_entry`, `authorize_open`, `place_combo`, `cancel_combo` | crash between any two durable writes; `placeOrder` that raises after it sent | no double exposure, no invisible risk | `OpeningCorridor` |
| **Transmission budget** (`options/order_outbox.py`) | `transmission-budget.json` and its lock | `reserve`, `commit`, `release`, `snapshot` | several processes, crashes, midnight, a journal written elsewhere and later | no session sends more openings than the cap | `TransmissionBudget` |
| **Execution outbox** (`options/order_outbox.py`) | `attempts/<id>.json`, a receipt log | `prepare` ... `outcome`, `quarantine`, `abort` | a write that takes effect and then raises; late observations | an unresolved attempt blocks the next opening | `OpeningCorridor` |
| **Reprice ladder** (`options/reprice.py`) | memory of one pass | `work_order`, `_cancel` | a fill races the cancel | one live order per structure; it ends | `OpeningCorridor` |
| **Candidate walk** (`options/walk.py`, `pricing.py`, `proof.py`) | memory of one walk | `run`, `_settle`, `build_ladder` | partial fills between rungs | never more than was authorized; the outcome is true | `PriceWalk` |
| **Order state and sink** (`options/orderstate.py`, `sink.py`) | last state seen per order | `classify`, `snapshot_from_trade`, `observe` | stale `Trade` objects, repeated observations | exposure is recorded before state | `OpeningCorridor`, `ClosingBook` |
| **Position store** (`options/positions.py`) | append-only `positions.jsonl`, replayed | `record_open_*`, `record_close_*`, `record_executions` | fills that arrive when nobody looks | the book agrees with the broker or says that it does not | `OpeningCorridor`, `ClosingBook`, `FillCost` |
| **Send ledger, reconciliation, executions** (`execution_outbox.py`, `broker_reconciliation.py`, `executions.py`) | receipts of a saga | `prepare`, `authorize_after_intent`, `record_*`, `classify` | two workers on one saga; late commissions | one send, proved by receipts in order | `SendLedger`, `FillCost` |
| **Quotes, marking, exit decisions** (`adapters.py`, `probe.py`, `marketdata.py`, `marking.py`, `lifecycle.py`) | tickers, recorder | `strategy_quotes`, `mark_position`, `decide_management_action` | tickers outlive subscriptions; several readers, several ages | nothing acts on quotes that are not live | `QuoteFeed`, `ClosingBook` |
| **Safety gate, journal, alerts, archive** | `orders.jsonl`, kill switch | `record`, `orders_today`, gates | the count is per UTC day, the session is pinned | a record survives a crash | `TransmissionBudget` (count) |

### Engine: when things run

| Component | State | Operations | Hard | Correct when | Module |
|---|---|---|---|---|---|
| **Autocycle** (`autocycle.py`, `cycle_adapter.py`) | fixed-rate schedule, tick receipts | `due`, `acknowledge`, `run_tick`, `clear_recovery` | a death between a receipt and its effects | a slot is witnessed; an unmatched tick blocks until reconciled | `AutoCycle` |
| **Scheduler** (`scheduler.py`) | start claim, pid record, heartbeat, terminal receipt | `adopt_or_spawn`, `run`, `drain_and_stop` | adoption races start and drain | one licensed scheduler; a clean exit is proven | `PaperDay` |
| **Paper-day controller and recovery** (`paperday.py`, `paperday_recovery*.py`, `clean_stop_receipt.py`) | controller lock, entry gate, session record | start, stop, recover | death between lock and record | as above | `PaperDay` |
| **Pacing ledger** (`options/pacing.py`, `pacing_ledger.py`) | SQLite ledger of request reservations | `reserve`, `commit`, `release`, `penalize`, reaping | a reservation expires in flight | the quota is never exceeded | `PacingLedger` |

### collab-kit

| Component | State | Operations | Hard | Correct when | Module |
|---|---|---|---|---|---|
| **File locks** (`locking.py`) | one lock file | `acquire`, `release`, `_break_if_stale`, `SingletonLock` | stale locks, the moment between creation and payload, unlinks that fail | exclusive; no abandoned file stays | `FileLocking` |
| **Handoff store** (`store.py`, `atomic.py`, `model.py`) | `pending/ claimed/ done/ archive/` | `create`, `find`, `claim`, `complete`, `reply`, `archive` | searches race renames, rewrites race transitions | one claim wins, nothing is missed | `HandoffStore` |
| **Handoff watcher** (`watch.py`, `watchcli.py`) | seen-set file | `poll`, `run`, `flush`, `prime` | half-written files, deaths, a bounded memory | every handoff is announced, once | `HandoffWatch` |
| **Registry, notifications, Telegram bridge, command line** | a registry file, an update offset | - | - | - | not modelled |

Calls go down the first table from `run_once`. Everything in that chain is a separate durable write
by a process that may die between any two of them, while the broker, the reviewer and other
processes move. `PROJECT.json` lists the hazards this makes, each at its line.

## 2. Plan

Done: every module of section 3, and the proofs of section 5. What is left, in order:

1. Rolls (`authorize_roll`) beside `ClosingBook`; the registry of collab-kit.
2. `ClosingBook` and `PriceWalk` as implementations of an abstract order book, as `OpeningCorridor`
   is one of `OpeningLicence`.

Every module takes its parameters as CONSTANTS with a named assumption, has one action per operation
or per step between two points where others may run, and avoids RECURSIVE, so that it can be proved
about.

## 3. The modules and the code

### TransmissionBudget

Several workers over one `transmission-budget.json`. `file` is its content (`date` 0: missing),
`lock` the owner of the `.lock` file, `journal` the count of `order_placed` records per UTC date,
`now` the date a worker pinned in `TransmissionBudget.__init__`, `mem` the dict between `_load` and
`_write`. A call is four steps: enter (`_exclusive`; a held lock refuses at once), read and compute
(`ReadReserve`, `ReadCommit`, `ReadRelease`, `ReadSnapshot`), `Write`, `Unlock`; `Crash` may fall
between any two and leaves the lock file. `Load` and `Sync` are `_load` and `_sync_journal` as
functions of the file and the journal. The corridor around it is `Send`, `SendRaises`, `Abandon`,
`Record`. `granted` and `sends` are history variables. `release()` and `snapshot()` have no production
caller; `Tooling` turns them on.

Abstracted: reservation contents other than the attempt id, receipts, timestamps below a day.

### OpeningCorridor and OpeningLicence

`OpeningCorridor` follows one pass per worker through program points named for what has just been
done (`screened`, `approved`, `prepared`, `reserved`, `consumed`, `licensed`, `recorded`, `intended`,
`placed`, `counted`, `polling`, ...). Durable state: `answers`, `spent` (markers), `slots`, `outbox`,
`binding` (what an attempt's file names), `book` (replayed positions). `order` is the broker's side,
`me[w].trade` the client's lagging `Trade` object and `me[w].seen` the last snapshot.

A durable write has three outcomes (`Transition`): it took effect, it raised before it did, it raised
after it did - `_save` replaces the file and then appends a receipt. `MaxFaults` bounds how many
raise; `faults.store` remembers that the position store under the sink was one of them.
`TransitionOrQuarantine` is the `try/except` around the calls of `place_combo`. The broker
fills one contract at a time and kills orders when it likes; `Deliver` copies the truth into the
`Trade` object; `View` is `snapshot_from_trade` with `classify`. `SinkExposure` and `SinkState` are
the two events of `LifecycleRecorder.observe`. A rung of the ladder is a new `OrderSpec`, because the
spec digest covers the price.

`OpeningLicence` says what all this promises in four actions: an answer is given once, a slot taken,
the answer consumed once, one order sent for it.

Abstracted: prices, legs, quantities other than the count filled, alert text; budget internals (a set
of slots with a cap - `TransmissionBudget` has the rest); the review desk (an answer appears once some
pass asked for it). Closings are in `ClosingBook`; rolls are not modelled.

### FileLocking

One lock file and the processes that want it: `_try_acquire` (creation and payload are two steps),
`_break_if_stale` (`Stat`, `ReadOwner`, `Break` are three steps, and `Break` unlinks what the path
names *then*), waiting and timing out, `release` with the failing unlink of Windows
(`ReleaseStuck`, `Truncate`, `Backdate`), deaths, restarts under another pid, machines that cannot
probe each other's pids, and holders that stay past the TTL (`LongHolds`). Two history variables say when
the lock is lost by design: `overtaken`, the waiters at whose path a file was created since they looked at
the old one's age, and `robbed`, the holders whose file was unlinked, emptied or back-dated by an overtaken
waiter, by one of another machine, or by a process whose own file was gone (`Robbed`). The write of the
payload is taken to succeed. `Singleton` selects `SingletonLock`. Re-entrant nesting in one `FileLock`
object touches no shared state and is left out.

### HandoffStore

One handoff (each has its own files and its own transition lock). `tree` maps each state directory to
the copy in it. `find` is its directory-by-directory walk: `Probe` (`is_file`), `Load`, `Scan` (the
prefix pass), `Resolve`. A transition is `Acquire`, `Recheck`, `Rename`, `Unlock`, and outside the lock
`Rewrite`. `Clobbers` says whether a rename replaces a destination (POSIX), `RacyRename` whether
concurrent renames of one file may all report success, which the docstring of `store.py` reports of
Windows. The lock is exclusive here. The reply `reply()` creates is a handoff of its own and not
followed.

### EntryReview

One logical entry: a position the scan nominated, reviewed in one or more revisions, ordered at most
once. `entry` is the replayed `LogicalEntry`; `current` holds the runners whose remembered version is
still the log's, so `Record` is `LogicalEntryStore._append` with its compare-and-append. A method of
the manager is a list of durable steps (`Ending`, `Retire`, `File`, `Supersede`, and what
`SweepScript` and `ServiceScript` choose from the entry); a runner carries the steps left in
`me[r].todo`, executes the head, and loses the list when it dies. `request`, `marked`, `asking`,
`answer` and `spent` are the gate's side: the review handoff of each spec digest, its request marker
and the marker's lock, the reviewer's reply, the consumption marker. `reply()` is two steps of the
reviewer, because it creates the answer and closes the request separately. `ttl` and `age` count
ticks to an expiry and since a timestamp.

`Begin` starts the worker's next pass, or one by hand beside it; `Service` is the candidate rebuilt
from the market, whose digest is any; `Refused` any gate between a pass's start and its packet, or of
`authorize_open` after the review. `Place`, `PlaceRaises` and `Work` stand for the corridor, which
`OpeningCorridor` has in full.

Abstracted: legs, amounts, the reservation's size, liveness epochs, receipts; the entries of other
underlyings; several answers to one request; the cooldown and expiry instants to ticks. The clock
moves between passes only: a pass takes `now` once and is short against the bounds, which are minutes
to hours.

### EntryPass

The passes of `run_once` over the whole book, where `EntryReview` and `OpeningCorridor` follow one
entry and one order: reconcile (`agreed` or `doubtful`), manage, sweep, service the pending entries
oldest first, claim one more. `book` holds the entries with their positions and opening orders,
`foreign` what was opened by hand. `Exposures` folds reservations into the positions
(`_fold_reservations`), `cost` is the margin the broker's what-if names. The limits are those of
`governor.py` and `portfolio.py` on the account, an underlying and its classes. `Silent` says whether
the broker may leave out its own total. A pass may die at every step.

### ClosingBook

The exit of one position: `_manage_one` up to `place_combo`, the poll (`Observe`), the events the sink
files one by one (`Filings`, `File`), and the replay of the position log (`Replay`). The opening order
may still fill in the background. `doubted` marks a close recorded as failed although its order may
live.

### SendLedger and FillCost

`SendLedger` is one saga of `execution_outbox.py`: every append is a compare-and-append under the
file lock (`Appends`), around it callers that look, consume the approval, send and observe in
separate steps, and may die; `Reconcile` is `BrokerReconciler.classify` over an order that lives,
fills and leaves the broker's list. `FillCost` is what a fill cost: executions and their commission
reports arrive one leg at a time, `Belongs` is the ladder of identities that says whose an execution is,
`Covered` and `Uncosted` decide whether a capture is complete, `Paid` sums what the reports say, and the
store keeps it. The strategy's reference and the permId are one rung here (`Durable`): both last, and
they name the same order. The orderId is the other: in a later session it may also name an order of
the same legs that is not the opening one (`Namesake`).

### PriceWalk

`PriceWalk.run` from `walk.py` over the ladder of `build_ladder`: observe, re-read the book, price and
prove (`Price`), cancel and settle the last rung, send the next for what remains, dwell; at the end
cancel, settle and release. Prices are integers on a two-tier tick grid. No production code calls it.

### QuoteFeed

One subscription after another over the same `ib_async` tickers. A ticker keeps its greeks and its
default data type; `recorder` is what the callbacks said in this subscription. `Settle` builds the
snapshot of `strategy_quotes`; `Judge` is three readers at once - the management rule, the marking
report and the gate of strike selection - each with its own idea of price and age.

### ScanBook and RefreshQueue

`ScanBook`: processes that scan (start receipt, publish, pointer, terminal receipt) and run entry
passes that pin a book, read a row and claim it in the ledger (lock, event, pointer, unlock are
separate steps) before they record the entry. A pass may supersede the entries of earlier ones before
it pins a book, and its own claim after it (`served`), where the writer is bound to the book's scan
(`expected_scan_id`). `RefreshQueue`: which stale symbols a pass refreshes
(`Selection`, the two lanes), which it probes (`Phase2Key`), what the queue remembers, and when the
book of the pass is complete. Times are relative to now, so that behaviours are infinite.

### PaperDay

Starts and stops of the controller, the scheduler processes and the recovery verb over one state
directory: session lock, entry gate, pid record, start claim, heartbeat, quiesce request, terminal
receipt. One step is one look or one publication; a stop writes the gate from what it read of it at the
outset (`prior`), and asks for a recovery only if the scheduler's end is not proven (`proven`), whatever
else came out dirty. A session number stands for the session id and its fencing token.

### AutoCycle

The worker of a day: `schedule.json` (slots counted, slots pending), the tick receipts (started,
ended, aborted, unresolved, reconciled), scans, and the phases of a tick (recovery, management,
discovery, probe, entry). A tick that raises before the broker is in use is aborted and leaves its slots
pending; the next one takes them, and its name, again. `clear_recovery` files one receipt after the
other (`ReconcileTick`). `Unmatched` is what a new process finds open.

### PacingLedger

Reservations and usage of one kind of request; each call is one SQLite transaction, except that a
commit reads its reservation before the transaction that writes. A scan books at the clock of its
start. Discovery leaves a share of its own to the others (`DiscoveryReserve`); every violation doubles the
pause (`Penalize`). `overtaken` are the reservations that expired inside their own commit.
`mark_unknown` is left out: only its test calls it.

### HandoffWatch

The watcher of a seat: start (primed by an existing seen-set file, or told to announce the backlog),
`Prime`, `Scan`, `Load` of each file, `Mark`, `PollFlush`, `Emit`. Handoffs arrive whole or half
written, leave and come back. The seen-set is bounded by `Limit`; a write that fails is dropped.

### The instances MCOrders, MCSession, MCFair

Components that share no state are checked side by side in one module: the variable `part` is chosen
by `MCInit` and says which component a behaviour belongs to, the variables of the others stay `None`.
Such a run explores the sum of the components, not their product; each of its properties is the
component's under its own name, `Types` the conjunction of their `TypeOK`. `MCSession` extends
`PaperDay`, `MCFair` extends `FileLocking` and `MCOrders` extends `ScanBook`, so that the theorems about
these three speak of the same definitions as the runs; their variables stay in the initial state
while another component moves. The constants of the other instances are constants of the module too and
get their values in the `.cfg`; `FairAssumption`, `SessionAssumption` and `OrdersAssumption` collect the
assumptions of the parts, so that a theorem about an instance is one for all of its values. (Only the
corridor of `MCFair` is fixed in the module: its safety is proved where it is defined.) `MCBudget`,
`MCCorridor` and `MCReview` extend one component each.

### Totals

`Total(f)` is the sum of a finite function to the naturals, defined as the number of its units rather
than by a fold: what a fold computes needs an induction the provers cannot do, the cardinality of a
disjoint union has library theorems. `EntryPass`, `ClosingBook`, `PriceWalk` and `PacingLedger` sum with
it what the code sums with `sum(...)` or an SQL `SUM`, `FillCost` the commissions.

## 4. The runs

| Run | Shows |
|---|---|
| `budget` | `SessionCap`, `GrantedIsHeld`, `DayCap`, `SlotsNeverForgotten` and the inductive `SlotInv`, with and without the tools that call `release()` and `snapshot()` |
| `corridor` | one process, two strategies: `SendIsBacked`, `NoDoubleExposure`, `RiskIsVisible`, `SpentIsExplained`, `SendsAlone`, `RecordsAreFinal`, and it implements `OpeningLicence`, with a store that may raise under the sink; several processes over one state directory are what `CorridorProofs` is for (section 5) |
| `entries` | `EntryIsSafe` (one working order, one question, only reviewed facts are sent, an entry without reservation is ending), `EndingsAreFinal`, `ReservationsEnd` |
| `orders` | `PassIsBounded`, `SendIsProven`, `CompleteIsATotal`, `WalkIsTrue`, `QuotesAreHonoured`, `ExitsAreTrue`, `ClaimsAreOwned`, `AnswersAreTrue` |
| `session` | `LicenceIsSingle`, `CleanDrainIsProven`, `TicksAreAccounted`, `QuotaHolds` |
| `fair` | liveness: `CorpsesAreReclaimed`, `PassEnds`, `TurnsComeRound`, `ArrivalsAreAnnounced`; safety of the same instances: `MutualExclusion`, `CompleteIsCurrent`, `RepeatsAreExplained` |
| `corridor_sink_fails`, `closing_doubled`, `greeks_laundered`, `watch_dropped`, `exploration_starves`, `scheduler_doubled` | **violations**, section 6 |

**Conjunctions.** A property named `...Is...` of `orders`, `session` or `entries` is the conjunction of
the named invariants of its module that are about one question (`WalkIsTrue` is `NeverOversized`,
`OutcomeIsTrue`, `RefusedIsFlat` and `LadderIsAWalk`, and so on); the modules state each conjunct with
its own comment. The modules also state, as definitions no run checks, what the code does *not* keep:
`NeverOversold`, `WatchedExitsSettle`, `CostIsWhole`, `TotalIsOfTheOrder`,
`ConcedesNoMoreThanAsked`, `PartialIsSettled`,
`RiskStaysApproved`, `ClaimsFitTheAccount`, `ProfitIsCurrent`, `OwnershipIsReadable`,
`OwnersAreAlive`, `StaysShut`, `EntryIsSettled`, `AskedMeansOpen`, `AnswerIsPickedUp` (section 6).

**Bounds**, and why they let the cases that matter happen:

* *budget*: two workers give every interleaving of a pair of read-modify-writes; three attempts exceed
  the cap of two; two days have one midnight, at every program point; one exit makes the journal grow by
  what the budget never granted; limits 1 and 2.
* *corridor*: two strategies let a second opening go out while the first is alive; three attempts are a
  send, its replacement and a further send; two contracts make a partial fill; one fault falls on every
  write in turn; any number of crashes.
* *entries*: two digests let the facts change; two refusals reach `terminal_after`; a review lives
  through one pass and expires at the second; the mishap (a death, a send that raises, or a pass by hand)
  falls on every step.
* *orders*: two entries under limits that two small positions fill, one death (pass); two callers with
  two approvals, two faults (ledger); two legs and two contracts, and one contract of a namesake that costs
  nothing, over two days and two captures (cost); two contracts and five books that
  rise, fall and cross the tick grid, four rungs, two faults (walk); books on both sides of the profit
  target and a crossed one, two subscriptions (quotes); two contracts, three exits, one crash (exits);
  one symbol, two scans, two entries, two processes, each with a session after its first, of which one
  dies (claims); two seats, one death,
  both rename anomalies (handoffs).
* *session*: two controllers, two starts, one stop, two children, one death, one timeout, where the two
  controllers overlap only in a FULL day that is neither degraded nor disturbed, until a second
  scheduler is spawned, and a day with two schedulers has one death or one timeout
  (`OverlapsAreUndisturbed`; what it cuts off is two mishaps in a day of two schedulers, and a mishap
  while a start and a stop, or two starts, are under way together); a day of five
  units with two sessions, two deaths and one aborted tick (`MaxAborts`), enough for its retry to die in
  turn; two clients, two reservations, three requests per window of which one is kept from candidates and
  two from discovery, and two violations that pause it, the second twice as long (`MaxFactor`).
* *fair*: three processes on two machines, two deaths, one defeated unlink; one pass with one approval
  and two attempts;
  three symbols of which two fill the refreshes of a pass; two handoffs that arrive twice each with a
  seen-set of one key.

Deadlock checking is off where finite sets or bounded counters run out. Every bound (`Max...`,
`Horizon`) stands in guards of environment actions or of the action that would create one more;
`MaxRung` and `MaximumAttempts` are the code's own.

**Symmetry** is used in runs without liveness, over sets whose members nothing distinguishes.

**Fairness.**

* `OpeningCorridor!FairSpec`: weak fairness of `Progress(w)` - a pass is straight-line Python - and
  strong fairness of `Timeout(w)`: the poll loops (`transmit.py:1283-1321`, `1440-1486`) count their own
  sleeps. Nothing is assumed of the broker or the reviewer.
* `FileLocking!FairSpec`: time passes, a process that asked keeps polling, a holder finishes; restarts
  and crashes are not fair.
* `EntryReview!Spec`: the clock goes on, the scheduler starts every pass that is due and a pass runs to
  its end unless it dies; nothing of the reviewer or the market. `ReservationsEnd` rests on the bound of
  the revisions: each supersession restarts the review's TTL, so a market that changes the facts on every
  pass for ever keeps an entry, and its reservation, for ever.
* `RefreshQueue`: time passes, a pass ends (both weakly fair), and the fixed-rate schedule comes round
  to a discovery pass again and again, between which it may start passes of probes alone (strong
  fairness, stated by the step's effect); the quota of the instance admits the refreshes of a pass.
* `HandoffWatch`: a running watcher polls; nobody has to start it or to write a handoff.

`TurnsComeRound` is checked for one symbol and one lane at a time (`turn`, chosen by `Init`): a
conjunction over the symbols is the same as all its instances.

**Mutants.** Each property of a passing run has one in `PROJECT.json`: a definition of the model altered
the way a bug would alter the code (a lock file created without `O_EXCL`; a prior session forgotten; a
replacement before the cancel is confirmed; silence taken for cancellation; an append without its
expected version; the next rung at its full size; ...), under which TLC finds the property violated. The
modules hold further ones, marked `Mutant of`, that break the other conjuncts.

## 5. What is proved

The theorems hold for every value of the constants that the named assumption admits. Each inductive
invariant was an invariant of a TLC run over a small instance before it was proved. The list of
`PROJECT.json` names the property of a run that a theorem states for all instances.

### The budget: `BudgetProofs`

For every number of workers, attempts, days and every cap, from `BudgetAssumption` alone (`Cap`,
`MaxExits` naturals, `MaxDay` positive, `Limits` within `1 .. Cap`): `TypeCorrect`, `SlotInvariant`,
`SessionCapHolds` (the cap on grants of one session), `GrantsAreHeld`, `UsedSlotsMonotone`, and
`DayCapHolds` (the cap by wall-clock day, as long as nothing calls `release()` or `snapshot()`).

`SessionCap` is not inductive: it bounds a history variable by numbers in a file that move from one to
another. `SlotInv` adds what makes it so:

* `LockOwned`, `TokensApart`: only one worker is inside, and no two hold the same attempt, so what a
  worker read is still there when it writes;
* `Counted`: every grant of the session in the file is covered by
  `journal_count + committed + |reservations|`, and every grant of a session that is *not* in the file
  by its journal count. The second half is why `_load` refuses a prior session that is not drained;
* `PendingWrite(w)`: between its read and its write a worker's dict satisfies `Counted` as it will be
  after the write - for `reserve` with one grant more, for `release` with one less.

`Sync` keeps the sum from falling (`committed` shrinks by no more than `journal_count` grows), which
is one lemma; the operations are one lemma each; `Next` splits by action. `DayCapHolds` rests on a
second invariant: without those two callers a file that has counted anything is never drained again,
so one session grants all there is (`OneSession`), and a day's sends are among its grants.

### The corridor with any number of processes: `CorridorProofs`

From `CorridorAssumption`, for every set of workers over one state directory and with a position store
that may raise: `TypeCorrect`, `SendIsAlwaysBacked`, `OneOrderPerAnswer`, `SpentIsAlwaysExplained`,
`RecordsStayFinal`, and `Refinement`: `Spec => ImplementsLicence`.

`CorridorInv` says, program point by program point, what a worker may still rely on although others
moved: what its memory recalls of the durable records (`Recalls`), what the outbox says of the attempt
it holds (`Records`), that no two workers hold one attempt (`Apart`), that a consumed approval has one
attempt past its consumption (`OneClaim`), and that a marker is explained by an order or by a blocking
record (`Explained`). The refinement maps steps one by one: `Approve` is `Answer`, `Reserve` is `Take`
(or nothing, of a slot held already), `Consume` and `ConsumeRefused` are `Consume` or nothing,
`PlaceOrder` and `PlaceOrderRaises` are `Send` or nothing, everything else is a stutter.

### The ladder of one process: the last part of `CorridorProofs`

From `OneProcess`, one process per state directory, which is what the session lock is there for:
`NeverDoublyExposed`, `RiskStaysVisible`, `EverySendIsAlone`. Each of them holds until the position store
first raises under the sink (`faults.store`); after that, or with two processes over one directory, they
are false (run `corridor_sink_fails` shows the first). `LadderInv` adds to `CorridorInv` that an idle
process leaves nothing half done (`Bare`, `Quiet`), that what is live is in the book (`InBook`), and how
far the client's view may lag behind the broker (`Lags`, `Sees`): a cancel counts as confirmed only when
the broker's order is done. `LoneInv` is `CorridorInv`, and `LadderInv` until the store raises; that a
raise is never forgotten (`StoreIsRemembered`) makes it inductive.

### One entry: `ReviewProofs`

From `ReviewAssumption`, for any set of digests, any policy and any number of crashes or passes by hand:
`TypeCorrect`, `EntryStaysSafe`, `EndingsStayFinal`. `ReviewInv` has two halves. `RaceInv` holds
whatever runs beside it: the steps a runner has left are a suffix of one of the methods (`Follows`,
`Plan`), each of which relies only on what its own earlier steps put there. `AloneInv` adds what one
runner keeps through every crash: the reservation is released before the ending is recorded, so an
active entry without one is an entry whose ending the next sweep completes. Sequences of steps are
treated through the set of steps they can be (`Of`), because nothing here needs their length.

### The licence of the day: `DayProofs`

From `DayAssumption` (the bounds are naturals, `None` is no identity), for any number of controllers,
starts, stops, scheduler processes, timeouts and deaths: `TypeCorrect`, `LicenceStaysSingle`,
`DrainsAreProven`. `DayInv`, apart from types, says:

* `Nonces`, `Novel`, `Given`: the number of a start is its own, so an identity minted from it is no
  process's yet; an identity taken from the record belongs to a process that is dead;
* `Holds`, `Awaits`, `Recorded`: the start that spawns under a new identity holds the claim, and the
  claim stays that of its process while it lives, first awaited by one start, then recorded - a
  release compares identities, so nobody else's takes it away;
* `Ticked`: an open tick belongs to a process in its pass or dead in it, and a receipt to a process
  that has none open;
* `Waits`, `Alone`, `Opened`: the lease goes by the claim, so while one process is in a pass nobody who
  waits holds the lease, a pass is entered alone, and a gate that is open names the process in it. A new
  process announces itself as waiting only when no tick is open (`SchedulerLoop.run`), which is why an
  orphan in its pass keeps it out.

All that is said of identities presumes `Unshared`, no identity given to two processes, and so do the
two theorems. The hypothesis is needed: run `scheduler_doubled`.

### Pacing and the slots of a session: `DayProofs`

`QuotaStaysHeld`, from the assumption of `PacingLedger`, for any limit, floor, window, time to live and
number of processes. `QuotaInv` strengthens `QuotaHolds` to what was sent in the window *plus what is
reserved*: their sum stays under the ceiling (`Within`), for all requests and for those that are not
management's. A commit then only moves a request from the second term to the first, time only takes
from the first, and a reservation is granted against both. The requests of a reservation that expired
inside its own commit (`overtaken`) are the exception the code has, and the theorem states it.

`SlotsStayWitnessed`, for any cadences, hours and number of processes, sessions and deaths: a slot the
counters have passed is pending or has a receipt, unless its time was not allowed throughout. `SlotInv`
adds that all counters were taken at one time (`Together`), that what is pending or worked on is what
was counted last (`Current`), and what a worker does with it at each step (`Follows`).

`TicksStayAccounted` - no worker enters a position while a tick that broke off in an earlier life is not
reconciled, but for one whose name an aborted attempt had before it (section 6) - has one more
hypothesis, `NamesDiffer`: every cadence is a multiple of management's, probes and entries are allowed
only when management is, and a discovery outside those hours falls into its first period. It is needed,
because a tick is named after its highest slot and receipts are matched by that name (section 6); under
it `NameInv` shows that a tick's name lies above the names of all ticks that have ended. `DoneInv` says
that a tick that broke off is unmatched until it is reconciled. The instance of the run satisfies it, and
so does a policy of 300, 1800, 600 and 300 seconds, as the tests have it.

`TypesStayCorrect` puts the type invariants of the run's three parts - the controllers, the scheduler and
the pacing ledger - together, from the assumptions of their modules. It rests on the invariants above;
what it adds to them is that no tick ends or is suspect without a receipt that it started (`TickTypes`),
the ranges of what is counted (`CountTypes`), and that an idle process holds no reservation.

### File locks, the refresh queue, the watcher: `FairProofs`

From `LockingAssumption`, for `FileLock` (not `SingletonLock`, which takes a file without payload for a
stale one), on any number of machines, however long a holder holds, whoever dies, restarts or fails to
unlink: `HoldersExclude`, one holder at a time but for one that was robbed. `HoldInv` says why: a process
in its critical section that was not robbed has the file at the path, with its payload once it is
written, and young before that (the age is looked at first: a payload not yet written is never read as a
stale one's); and who is about to break the file it looked at, not overtaken since, meets no holder of its
machine.

`CompleteStaysCurrent`, for every set of scanners and symbols, every rank, limit and interval: a book
that admits entries has measured every symbol today. `QueueInv` adds that what a pass took for fresh
still is, whatever passes beside it measure.

`RepeatsStayExplained`, for every set of handoffs, limit of the seen-set, number of arrivals, deaths and
failed writes: a handoff announced twice had left the seen-set. `WatchInv` follows a poll through its
steps: what was announced is in the file and in memory, or was forgotten (`Remembered`); what is about to
be announced was not, unless it was forgotten (`News`); it is marked before it is announced, and the
mark is written (`Marked`).

### The claims of scanned rows: `ClaimProofs`

From `BookAssumption`, for any symbols and processes and any number of scans, entries, sessions and
deaths: `TypeCorrect` and `ClaimsStayOwned` - one entry claims a symbol at a time, and a claim names the
complete book its entry was nominated from. `ScanInv` adds to it, apart from types:

* `ScanOf`, `ScansAreApart`, `BooksAreStarted`: a scan has one process and its book is published once, so
  a book that was complete stays the book it was, whatever is published after it;
* `Carries`: what a pass may rely on between two steps - the book it pinned, the entry it recorded from
  that book;
* `Fresh`, `Due`: the version a process read before the lock is never ahead of the stream, and while it
  is the stream's own the stream still ends as it did; so the comparison inside the lock is enough for
  the event to be the one that is due, and claims and supersessions alternate;
* `LocksExclude`: one process is between the lock and the pointer of a symbol.

The proof treats the steps of other processes once (`Stands`): scans, entries, books and streams only
grow (`Grows`), and what a process relies on is kept by any growth that is not of its own scan or lock.

### What an order passes through: `OrdersProofs`

From `OrdersAssumption`, the assumptions of the seven components of `orders`, each for every value of
its constants. (`ClaimsAreOwned` of the same run is in `ClaimProofs`.)

* `SendStaysProven` (`SendLedger`): every receipt follows one it may follow (`Chained`); what a caller saw
  of the receipts is still there, so its compare-and-append is enough (`Backed`); every order sent, and
  every one that a caller may still send, has an approval of its own (`Paid`, which counts licensees and
  spent approvals); only an order without a fill is called cancelled (`Reported`).
* `AnswersStayTrue` (`HandoffStore`), for both behaviours of a rename: a handoff only moves forward
  (`Ahead`), so what a search saw in one directory is at or beyond the next when it looks there
  (`Sound`, clause by clause of the walk); one seat has claimed it (`ClaimedOnce`).
* `CompleteStaysATotal` (`FillCost`), for any legs and fees: of executions that are the order's own, that
  cover every leg up to a quantity and that all have their report, the sum is at least the price of that
  quantity (`LegsAddUp`: to each contract and leg an execution of the same fee, an injection;
  `TotalIsCarried`: so the one sum is at least the other). That is all a complete cost needs, in whatever
  order executions and reports come or are repeated.
* `QuotesStayHonoured` (`QuoteFeed`): a snapshot says of every contract what the server said in this
  subscription (`Snapped`); what the marking report reaches at the far side of the book, the management
  rule reaches at its middle.
* `ExitsStayTrue` (`ClosingBook`), for any size of the position, number of exits and crashes: the events
  that are still to be filed are founded on the orders (`BookFollows`), an exit that fills in full closes
  the position with what was sold before it (`ExitsSuffice`), and while no close was wrongly recorded as
  failed another is sent only when those before it are dead without a fill (`OneExitLives`).
* `PassStaysBounded` (`EntryPass`), for any symbols, margins, classes and limits: the limits hold of what
  positions and reservations commit together (`Holds`), also for the candidate about to be recorded
  (`Fits`), whatever step a pass dies at. The position takes over the reservation of its entry in one
  step (`Regular`), and a foreign position only counts against later candidates. `AtMostOneRests` is the
  other half: the next pass opens nothing before the last order's position is known.
* `WalkStaysTrue` (`PriceWalk`), for any order, envelope, tick grid, books and number of attempts. Only
  the last order lives, and its quantity was left by the fills of the others (`Fillable`). What the walk
  believes differs from the fills in one of three ways (`Follows`): not at all; by the fills of a last
  order that could not be recorded; by those the working order had since it was last observed. The next
  rung is the remainder (`Sized`), and the outcome is one that no later fill makes false (`Reckoned`).
  That rungs descend on the grid within the envelope (`LadderDescends`) rests on the lemmas that rounding
  to the grid moves a price by less than a tick and never past the next grid point.

Sums are those of `Totals`; `TotalsProofs` has the lemmas (a term, its change, a smaller sum, a sum
that has each of another's terms).

### Only model-checked

* Liveness: `ReservationsEnd`, `CorpsesAreReclaimed`, `PassEnds`, `TurnsComeRound`,
  `ArrivalsAreAnnounced`. Liveness under fairness and ENABLED are outside what the installed provers do.
* `Types` of the runs `fair` and `orders`. The types a proof needs are part of its inductive invariant;
  what these two add are bounds and ranges that no other proof rests on. The `TypeOK` of the corridor,
  of the locks and of the claims are theorems of their own (`TypeCorrect` in `CorridorProofs`,
  `FairProofs` and `ClaimProofs`), but the prover cannot cite a theorem of a module that is
  instantiated, so they are not put together into one.

All other properties of the passing runs are theorems. No module uses RECURSIVE; nothing here needs
induction over data.

## 6. Where code and words disagree

Each of these is a run that TLC finds violated, with its entry under `findings`.

* `corridor_sink_fails`: when the position store raises under the sink after `placeOrder` returned, the
  corridor's handler records `OPEN_FAILED` for an order that is alive. The passing run checks
  `RiskIsVisible`, which is the same statement until the store raises.
* `closing_doubled`: an exit whose `placeOrder` raised is recorded as failed, and the next pass sends a
  second one for the same contracts.
* `greeks_laundered`: the greeks of an earlier subscription are stamped with the generation of the
  present one.
* `watch_dropped`: the seen-set is written before the events are announced, so a death in between
  drops them, against the at-least-once delivery the module promises.
* `scheduler_doubled`: a scheduler that replaces a dead one of its session is given the dead one's
  identity, and a start that gives up on a slow child leaves it at work and releases the claim; the next
  start spawns another under the same identity, and both hold the lease, which compares identities
  only. (`LicenceIsSingle` and `CleanDrainIsProven` are stated for days in which this does not happen,
  `Unshared`.)
* `exploration_starves`: a symbol whose history always fails stays "never seen" and takes the only
  exploration slot of every pass.

Met while modelling, by TLC or by reading, and left without a run of their own:

* *Budget.* The hint of a full budget says to wait for a new paper day, but a send committed as the last
  one of a day keeps every worker of the new day out although the journal accounts for it. `snapshot()`
  by a worker that outlived midnight can re-open the earlier session, and then a day may see more sends
  than the cap (`DayCap` is stated for the production callers).
* *Locks.* A waiter's verdict about one lock file is applied to whatever is at the path when it unlinks:
  it looks at an old file, its holder releases it, the next one creates its own, and the waiter finds no
  payload yet, or has already read the old one's, and unlinks the lock of a live holder (locking.py:306; the
  module says a lock is only broken when its owner is dead, locking.py:19-20). `MutualExclusion` and
  `HoldersExclude` except just the holders robbed in these ways.
  `SingletonLock` takes a file without payload yet for a stale one.
* *Handoff store.* The bookkeeping rewrite of a slow seat re-creates a file another seat has moved on;
  `archive()` searches `done/` first and can report a moving handoff as missing; `complete()` may stamp
  itself as claimant.
* *Watcher.* Priming adopts a half-written file by its name; a seen-set file that was lost primes
  whatever arrived meanwhile; a handoff that returns to `pending/` is never announced again, one the
  bound evicted is; an `on_event` that raises loses its event.
* *Entries.* `AskedMeansOpen`: facts that go from A to B and back re-use the request the manager itself
  withdrew (approval.py:1316), and nobody is asked. `AnswerIsPickedUp`: the age of an approval is
  measured against the packet of the pass that reads it (approval.py:1587), so an answer older than five
  minutes is refused. An order whose end is never learned keeps its entry `EXECUTING`. A `claim()` that
  dies in its compensation leaves an entry without reservation that is serviced and ordered.
* *Passes.* `ClaimsFitTheAccount`: when the broker leaves out its own total, what was opened by hand is
  not counted (portfolio.py:147-155). `claim_one` stops at the first refusal. An entry whose service
  raises aborts every pass until its TTL. A supersession may exceed the pending limit.
* *Exits.* `WatchedExitsSettle`: an exit cancelled after a partial fill leaves the position CLOSING. A
  DTE exit without a mark is blocked on every pass; a zero midpoint raises out of `_manage_one`.
* *Walk.* `ConcedesNoMoreThanAsked`: clamping a rung to the start (pricing.py:514-518) can place it
  below the natural price. `PartialIsSettled`: PARTIALLY_FILLED is also said of an order whose cancel was
  not confirmed. `RiskStaysApproved`: the risk of a rung is judged on the remainder at its own credit, not
  together with what filled before it.
* *Ledger and costs.* Two approvals under one saga that race through `prepare`, which is not atomic,
  both get a licence, and an order goes out on each: `SendIsProven` bounds the sends by the approvals.
  A filled order that left the list unnoticed is classified absent. `CostIsWhole`: a capture taken before
  the last fill stays "complete" after it (positions.py:1221). `TotalIsOfTheOrder`: the order id is the
  last resort of `_belongs_to` (executions.py:377), and after a reconnect "it can name an unrelated order"
  (executions.py:370-371): executions of that order on the same legs then cover what the opening order's
  own, not served any more, do not, and a total is complete that is another order's.
* *Quotes.* `ProfitIsCurrent`: the mark takes the age of its newest leg (runner.py:404-419).
* *Scan.* `OwnershipIsReadable`: a crash between a claim event and its pointer makes the stream unreadable
  (scanbook_store.py:1089). `OwnersAreAlive`: claims are not released when an entry ends. A symbol that
  always fails keeps every book incomplete; phase-two deferrals do as well.
* *Session.* `StaysShut`: a start in progress re-opens the gate a stop has closed (paperday.py:1918
  against 1109-1111). A stop writes the gate from its first look at it (paperday.py:1914, 1930-1949), so
  a recovery mark that was written since is lost. A tick that was aborted leaves its slots pending, and
  its retry has the same name; when the retry dies at the broker, `unmatched_ticks` takes the abort for
  its end (autocycle.py:376-410), and the next session enters positions without a reconciliation, where
  AUTOTRADER-CYCLE.md:111 says "an unmatched tick blocks new entries": `EntryIsReconciled` excepts those
  names, `TicksAreAccounted` with it. `EntryIsSettled`: a tick that dies after its own clearance leaves
  no witness (autocycle.py:829). A handshake that times out releases the claim while its child lives. A
  tick is named `session:max(slot_index)` (autocycle.py:909), and slot indices count periods of the job.
  When a cadence is no multiple of management's, or a discovery before the opening has several slots and
  the process restarts between choosing and skipping them, two ticks share a name; an earlier one that
  finished then hides a later one that broke off, against the comment at autocycle.py:393 ("only
  TICK_RECONCILED closes this fence"). The policy parser (autotrader_policy.py:432) only asks for
  positive cadences; `TicksStayAccounted` states what a policy must satisfy (`NamesDiffer`).
  `cycle_adapter.py:750` watches another quiesce file than `scheduler.py:178` writes.
* *Pacing.* A reservation may expire between the read and the write of its own commit (`overtaken`); a
  scan books usage at the clock of its start.

## 7. What is not modelled

Listed with reasons under `components` in `PROJECT.json`: rolls, `reconcile()` of the outbox, torn
position files, the registry and notifications of collab-kit, the Telegram bridge, and what has no
protocol in it - numeric filters over market data, calendars, parsing, formatting, wiring and network
I/O.

To repeat the checks: `tlc -config MCBudget.cfg MCBudget` and likewise for the other pairs of
`PROJECT.json`; `tlapm BudgetProofs.tla` and likewise for the other modules named `...Proofs`.
