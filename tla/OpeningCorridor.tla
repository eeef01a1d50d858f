--------------------------- MODULE OpeningCorridor ---------------------------
(***************************************************************************)
(* One opening order from the entry gate to the broker and through its     *)
(* reprice ladder: runner.py (the corridor), transmit.py (authorize_open,  *)
(* authorize_reprice, place_combo, cancel_combo), reprice.py (work_order), *)
(* with the durable records they write on the way: the approval's          *)
(* consumption marker, the transmission slot, the execution outbox         *)
(* (order_outbox.py) and the position book (positions.py, sink.py).        *)
(*                                                                         *)
(* Every durable write is a step of its own; it may succeed, raise before  *)
(* it takes effect or raise after it did, and the process may die between  *)
(* any two.  The broker fills and kills orders when it likes, and the      *)
(* client's Trade object lags behind it.                                   *)
(***************************************************************************)
EXTENDS Integers, FiniteSets

CONSTANTS
  Worker,       \* processes running run_once over one state directory
  Strategy,     \* strategy ids a pass may propose
  Approval,     \* reviewer answers (response ids)
  Attempt,      \* execution attempt ids
  Underlying,   \* the symbol of each strategy
  Quantity,     \* contracts of one order
  Cap,          \* TransmissionBudget.limit
  MaxRung,      \* RepriceLadder.maximum_attempts
  MaxFaults,    \* bound: writes that raise, broker calls that raise
  None          \* no approval, no order spec

Rung == 0 .. MaxRung

\* What an approval covers and an attempt sends: a structure at one price.  The
\* spec digest binds both, so every rung of the ladder is another spec.
OrderSpec == [strategy : Strategy, rung : Rung]

ASSUME CorridorAssumption ==
  /\ IsFiniteSet(Attempt)
  /\ Quantity \in Nat \ {0}
  /\ Cap \in Nat
  /\ MaxRung \in Nat
  /\ MaxFaults \in Nat
  /\ None \notin OrderSpec \cup Approval \cup Attempt

VARIABLES
  answers,  \* the spec each APPROVED answer covers
  spent,    \* consumption markers, created with O_EXCL
  slots,    \* attempts holding a transmission slot, reserved or committed
  outbox,   \* the durable state of each attempt
  binding,  \* the spec and the approval an attempt's record names
  order,    \* the broker's order of each attempt
  book,     \* the replayed position of each strategy
  me,       \* what each process holds in memory
  pc,       \* where each process is
  faults    \* what has raised so far

vars == <<answers, spent, slots, outbox, binding, order, book, me, pc, faults>>
durable == <<answers, spent, slots, outbox, binding, book>>

Fills == 0 .. Quantity
Blocking == {"PREPARED", "APPROVAL_CONSUMED", "SEND_INTENT", "AMBIGUOUS"}
Terminal == {"OUTCOME", "RECONCILED", "ABORTED"}
OutboxState == Blocking \cup Terminal \cup {"NONE", "SUBMISSION_OBSERVED"}
Snapshot == {"WORKING", "PARTIAL", "FILLED", "CANCELLED", "UNKNOWN"}
TerminalSnapshot == {"FILLED", "CANCELLED"}

NoOrder == [status |-> "none", filled |-> 0]
NoTrade == [status |-> "silent", filled |-> 0]
NoSight == [state |-> "UNKNOWN", filled |-> 0]
Flat == [state |-> "NONE", filled |-> 0]
NoBinding == [spec |-> None, approval |-> None]
Idle == [spec |-> None, approval |-> None, attempt |-> None, trade |-> NoTrade,
         seen |-> NoSight, known |-> "NEW", final |-> FALSE]

PCs == {"idle", "screened", "approved", "prepared", "reserved", "consumed",
        "licensed", "recorded", "intended", "placed", "counted", "polling",
        "observed", "filed", "finished", "judged", "cancelling", "pulled",
        "pulledFiled", "retracted"}

Memory == [spec : OrderSpec \cup {None}, approval : Approval \cup {None},
           attempt : Attempt \cup {None},
           trade : [status : {"silent", "working", "done"}, filled : Fills],
           seen : [state : Snapshot, filled : Fills],
           known : Snapshot \cup {"NEW"}, final : BOOLEAN]

\* How many writes and calls have raised; whether the position store under the sink was
\* one of them.
Faults == [count : 0 .. MaxFaults, store : BOOLEAN]

TypeOK ==
  /\ answers \in [Approval -> OrderSpec \cup {None}]
  /\ spent \in SUBSET Approval
  /\ slots \in SUBSET Attempt
  /\ outbox \in [Attempt -> OutboxState]
  /\ binding \in [Attempt -> [spec : OrderSpec \cup {None},
                              approval : Approval \cup {None}]]
  /\ order \in [Attempt -> [status : {"none", "working", "done"}, filled : Fills]]
  /\ book \in [Strategy -> [state : {"NONE", "OPENING", "OPEN", "UNCERTAIN"},
                            filled : Fills]]
  /\ me \in [Worker -> Memory]
  /\ pc \in [Worker -> PCs]
  /\ faults \in Faults

Init ==
  /\ answers = [p \in Approval |-> None]
  /\ spent = {}
  /\ slots = {}
  /\ outbox = [a \in Attempt |-> "NONE"]
  /\ binding = [a \in Attempt |-> NoBinding]
  /\ order = [a \in Attempt |-> NoOrder]
  /\ book = [s \in Strategy |-> Flat]
  /\ me = [w \in Worker |-> Idle]
  /\ pc = [w \in Worker |-> "idle"]
  /\ faults = [count |-> 0, store |-> FALSE]

-----------------------------------------------------------------------------
(* Durable writes *)

Fault(cost) ==
  /\ faults.count + cost <= MaxFaults
  /\ faults' = [faults EXCEPT !.count = @ + cost]

\* Mutant of TransitionRefused: a quarantine can be lifted.
TerminalOnly(from, to) == from \in Terminal

\* ExecutionOutbox._transition refuses terminal attempts, and lets a quarantined
\* one go nowhere but to RECONCILED.
TransitionRefused(from, to) ==
  \/ from \in Terminal
  \/ from = "AMBIGUOUS" /\ to # "RECONCILED"

\* _save replaces the state file, then appends a receipt: it may raise before
\* the first took effect or after.
Transition(from, to) ==
  IF TransitionRefused(from, to)
  THEN {[state |-> from, raised |-> TRUE, cost |-> 0]}
  ELSE {[state |-> to, raised |-> FALSE, cost |-> 0],
        [state |-> from, raised |-> TRUE, cost |-> 1],
        [state |-> to, raised |-> TRUE, cost |-> 1]}

\* quarantine() under try/except: pass.
Quarantine(from, cost) ==
  {[state |-> q.state, raised |-> TRUE, cost |-> cost + q.cost] :
     q \in Transition(from, "AMBIGUOUS")}

\* A transition whose failure is answered by a quarantine.
TransitionOrQuarantine(from, to) ==
  UNION {IF t.raised THEN Quarantine(t.state, t.cost) ELSE {t} :
           t \in Transition(from, to)}

Clear == \A a \in Attempt : outbox[a] \notin Blocking

\* OPEN_SUBMITTED (re)creates the position; OPEN_FAILED drops it unless
\* contracts filled.
Submitted == [state |-> "OPENING", filled |-> 0]
Failed(position) ==
  IF position.filled > 0 THEN [position EXCEPT !.state = "OPEN"] ELSE Flat

Strat(w) == me[w].spec.strategy
Replacing(w) == me[w].spec.rung > 0

Goto(w, to) == pc' = [pc EXCEPT ![w] = to]
Finish(w) == Goto(w, "idle") /\ me' = [me EXCEPT ![w] = Idle]

\* place_combo raised, or returned transmitted=False: the corridor records the
\* opening as failed, the ladder only reports it.
SendFailed(w, position) ==
  /\ Finish(w)
  /\ book' = [book EXCEPT ![Strat(w)] =
                IF Replacing(w) THEN position ELSE Failed(position)]

-----------------------------------------------------------------------------
(* The broker, the reviewer and the operating system *)

\* A fill of one more contract; the last one ends the order.
Fill(a) ==
  /\ order[a].status = "working"
  /\ LET n == order[a].filled + 1
     IN order' = [order EXCEPT ![a] =
                    [status |-> IF n = Quantity THEN "done" ELSE "working",
                     filled |-> n]]
  /\ UNCHANGED <<durable, me, pc, faults>>

\* Cancelled, on request or not, or rejected: nothing more will fill.
Die(a) ==
  /\ order[a].status = "working"
  /\ order' = [order EXCEPT ![a].status = "done"]
  /\ UNCHANGED <<durable, me, pc, faults>>

\* The reviewer approves a spec some pass has filed for review.
Approve(p) ==
  /\ answers[p] = None
  /\ \E w \in Worker :
       /\ pc[w] = "screened"
       /\ answers' = [answers EXCEPT ![p] = me[w].spec]
  /\ UNCHANGED <<spent, slots, outbox, binding, order, book, me, pc, faults>>

\* The client's callbacks run while the pass sleeps between polls.
Deliver(w) ==
  /\ pc[w] \in {"polling", "cancelling"}
  /\ me' = [me EXCEPT ![w].trade = order[me[w].attempt]]
  /\ UNCHANGED <<durable, order, pc, faults>>

\* The process dies, or an exception no handler names unwinds the pass.
Crash(w) ==
  /\ pc[w] # "idle"
  /\ Finish(w)
  /\ UNCHANGED <<durable, order, faults>>

-----------------------------------------------------------------------------
(* The entry gate *)

SymbolsAtBroker ==
  {Underlying[binding[a].spec.strategy] : a \in {b \in Attempt : order[b].filled > 0}}

LivePositions == {s \in Strategy : book[s].state # "NONE"}

\* Mutant of Reconciled: an opening in flight is no reason to wait.
ReconciledWithOpenings == SymbolsAtBroker \subseteq {Underlying[s] : s \in LivePositions}

\* ReconciliationOutcome.RECONCILED: nothing stranded, and the symbols held are
\* the symbols believed held.  A live order whose position was dropped is nobody
\* we know ("foreign"), so it is no disagreement.
Reconciled ==
  /\ \A s \in Strategy : book[s].state # "OPENING"
  /\ {Underlying[s] : s \in LivePositions} = SymbolsAtBroker

\* run_once: the outbox is clear, no position is uncertain, the book reconciles.
Begin(w, s) ==
  /\ pc[w] = "idle"
  /\ Clear
  /\ \A t \in Strategy : book[t].state # "UNCERTAIN"
  /\ Reconciled
  /\ book[s].state = "NONE"
  /\ me' = [me EXCEPT ![w].spec = [strategy |-> s, rung |-> 0]]
  /\ Goto(w, "screened")
  /\ UNCHANGED <<durable, order, faults>>

\* Awaiting review, refused by a gate (gate_armed comes after the review), or
\* (first send only) by before_transmit.
TurnAway(w) ==
  /\ \/ pc[w] \in {"screened", "approved"}
     \/ pc[w] = "licensed" /\ ~Replacing(w)
  /\ Finish(w)
  /\ UNCHANGED <<durable, order, faults>>

-----------------------------------------------------------------------------
(* authorize_open, authorize_reprice *)

\* assert_clear, then verifier.require: an unspent answer that covers this spec.
Require(w, p) ==
  /\ pc[w] = "screened"
  /\ Clear
  /\ answers[p] = me[w].spec
  /\ p \notin spent
  /\ me' = [me EXCEPT ![w].approval = p]
  /\ Goto(w, "approved")
  /\ UNCHANGED <<durable, order, faults>>

Prepare(w, a) ==
  /\ pc[w] = "approved"
  /\ outbox[a] = "NONE"
  /\ \E t \in Transition("NONE", "PREPARED") :
       /\ Fault(t.cost)
       /\ outbox' = [outbox EXCEPT ![a] = t.state]
       /\ binding' = [binding EXCEPT ![a] =
            IF t.state = "NONE" THEN NoBinding
            ELSE [spec |-> me[w].spec, approval |-> me[w].approval]]
       /\ IF t.raised THEN Finish(w)
          ELSE /\ me' = [me EXCEPT ![w].attempt = a]
               /\ Goto(w, "prepared")
  /\ UNCHANGED <<answers, spent, slots, order, book>>

\* Mutant of Reserve: the cap counts the slots that may be over it.
ReserveOneMore(w) ==
  /\ pc[w] = "prepared"
  /\ Cardinality(slots) <= Cap
  /\ slots' = slots \cup {me[w].attempt}
  /\ Goto(w, "reserved")
  /\ UNCHANGED <<answers, spent, outbox, binding, order, book, me, faults>>

Reserve(w) ==
  /\ pc[w] = "prepared"
  /\ Cardinality(slots) < Cap
  /\ slots' = slots \cup {me[w].attempt}
  /\ Goto(w, "reserved")
  /\ UNCHANGED <<answers, spent, outbox, binding, order, book, me, faults>>

\* The budget refuses (full, locked, unreadable): the attempt is aborted, or
\* stays PREPARED when the abort fails too.
ReserveRefused(w) ==
  /\ pc[w] = "prepared"
  /\ \E t \in Transition("PREPARED", "ABORTED") :
       /\ Fault(t.cost)
       /\ outbox' = [outbox EXCEPT ![me[w].attempt] = t.state]
  /\ Finish(w)
  /\ UNCHANGED <<answers, spent, slots, binding, order, book>>

\* consume: O_CREAT | O_EXCL on the marker of the answer.
Consume(w) ==
  /\ pc[w] = "reserved"
  /\ me[w].approval \notin spent
  /\ spent' = spent \cup {me[w].approval}
  /\ Goto(w, "consumed")
  /\ UNCHANGED <<answers, slots, outbox, binding, order, book, me, faults>>

\* Mutant of ConsumeRefused: the attempt is aborted instead of quarantined.
ConsumeRefusedAborts(w) ==
  /\ pc[w] = "reserved"
  /\ Fault(IF me[w].approval \in spent THEN 0 ELSE 1)
  /\ outbox' = [outbox EXCEPT ![me[w].attempt] = "ABORTED"]
  /\ spent' \in {spent, spent \cup {me[w].approval}}
  /\ Finish(w)
  /\ UNCHANGED <<answers, slots, binding, order, book>>

\* The marker exists already, or creating it raised, before or after it existed.
ConsumeRefused(w) ==
  /\ pc[w] = "reserved"
  /\ \E q \in Quarantine("PREPARED", IF me[w].approval \in spent THEN 0 ELSE 1) :
       /\ Fault(q.cost)
       /\ outbox' = [outbox EXCEPT ![me[w].attempt] = q.state]
  /\ spent' \in {spent, spent \cup {me[w].approval}}
  /\ Finish(w)
  /\ UNCHANGED <<answers, slots, binding, order, book>>

ApprovalConsumed(w) ==
  /\ pc[w] = "consumed"
  /\ \E t \in TransitionOrQuarantine("PREPARED", "APPROVAL_CONSUMED") :
       /\ Fault(t.cost)
       /\ outbox' = [outbox EXCEPT ![me[w].attempt] = t.state]
       /\ IF t.raised THEN Finish(w) ELSE Goto(w, "licensed") /\ UNCHANGED me
  /\ UNCHANGED <<answers, spent, slots, binding, order, book>>

-----------------------------------------------------------------------------
(* The corridor's record, place_combo up to the broker *)

\* record_open_submitted; if it raises, the exception unwinds the pass.
RecordSubmission(w) ==
  /\ pc[w] = "licensed"
  /\ \/ /\ book' = [book EXCEPT ![Strat(w)] = Submitted]
        /\ Goto(w, "recorded")
        /\ UNCHANGED <<me, faults>>
     \/ /\ Fault(1)
        /\ book' \in {book, [book EXCEPT ![Strat(w)] = Submitted]}
        /\ Finish(w)
  /\ UNCHANGED <<answers, spent, slots, outbox, binding, order>>

\* The session lease is no longer held: place_combo refuses.
LeaseLost(w) ==
  /\ pc[w] = "recorded"
  /\ SendFailed(w, book[Strat(w)])
  /\ UNCHANGED <<answers, spent, slots, outbox, binding, order, faults>>

SendIntent(w) ==
  /\ pc[w] = "recorded"
  /\ \E t \in Transition("APPROVAL_CONSUMED", "SEND_INTENT") :
       /\ Fault(t.cost)
       /\ outbox' = [outbox EXCEPT ![me[w].attempt] = t.state]
       /\ IF t.raised THEN SendFailed(w, book[Strat(w)])
          ELSE Goto(w, "intended") /\ UNCHANGED <<me, book>>
  /\ UNCHANGED <<answers, spent, slots, binding, order>>

\* Mutant of PlaceOrder: the order goes out before its intent is durable.
PlaceOrderEarly(w) ==
  /\ pc[w] \in {"recorded", "intended"}
  /\ order' = [order EXCEPT ![me[w].attempt].status = "working"]
  /\ me' = [me EXCEPT ![w].trade = [status |-> "working", filled |-> 0]]
  /\ Goto(w, "placed")
  /\ UNCHANGED <<durable, faults>>

PlaceOrder(w) ==
  /\ pc[w] = "intended"
  /\ order' = [order EXCEPT ![me[w].attempt].status = "working"]
  /\ \E status \in {"silent", "working"} :
       me' = [me EXCEPT ![w].trade = [status |-> status, filled |-> 0]]
  /\ Goto(w, "placed")
  /\ UNCHANGED <<durable, faults>>

\* placeOrder raised, and the broker may have the order all the same.
PlaceOrderRaises(w) ==
  /\ pc[w] = "intended"
  /\ order' \in {order, [order EXCEPT ![me[w].attempt].status = "working"]}
  /\ \E q \in Quarantine("SEND_INTENT", 1) :
       /\ Fault(q.cost)
       /\ outbox' = [outbox EXCEPT ![me[w].attempt] = q.state]
  /\ SendFailed(w, book[Strat(w)])
  /\ UNCHANGED <<answers, spent, slots, binding>>

\* budget.commit: the slot stays taken either way; a failure quarantines.
CommitSlot(w) ==
  /\ pc[w] = "placed"
  /\ \/ UNCHANGED <<outbox, faults>>
     \/ \E q \in Quarantine(outbox[me[w].attempt], 1) :
          /\ Fault(q.cost)
          /\ outbox' = [outbox EXCEPT ![me[w].attempt] = q.state]
  /\ Goto(w, "counted")
  /\ UNCHANGED <<answers, spent, slots, binding, order, book, me>>

-----------------------------------------------------------------------------
(* Observing the order: emit, the sink, the outcome *)

\* Mutant of View: an order lost sight of is reported cancelled.
ViewLostIsCancelled(trade, lost) ==
  [filled |-> trade.filled,
   state |-> IF trade.status = "silent" THEN "UNKNOWN"
             ELSE IF trade.filled = Quantity THEN "FILLED"
             ELSE IF lost \/ trade.status = "done" THEN "CANCELLED"
             ELSE IF trade.filled > 0 THEN "PARTIAL" ELSE "WORKING"]

\* snapshot_from_trade and classify.
View(trade, lost) ==
  [filled |-> trade.filled,
   state |-> IF lost \/ trade.status = "silent" THEN "UNKNOWN"
             ELSE IF trade.filled = Quantity THEN "FILLED"
             ELSE IF trade.status = "done" THEN "CANCELLED"
             ELSE IF trade.filled > 0 THEN "PARTIAL" ELSE "WORKING"]

Look(w, final, lost) ==
  me' = [me EXCEPT ![w].seen = View(me[w].trade, lost), ![w].final = final]

\* emit() in place_combo: once before the loop, in every turn of it, and once
\* after, when the loop ended by a done order, a timeout or a lost connection.
Emit(w, final, lost) ==
  /\ pc[w] \in {"counted", "polling"}
  /\ final => pc[w] = "polling"
  /\ lost => final
  /\ \E t \in TransitionOrQuarantine(outbox[me[w].attempt],
                                     "SUBMISSION_OBSERVED") :
       /\ Fault(t.cost)
       /\ outbox' = [outbox EXCEPT ![me[w].attempt] = t.state]
  /\ Look(w, final, lost)
  /\ Goto(w, "observed")
  /\ UNCHANGED <<answers, spent, slots, binding, order, book>>

\* emit() in cancel_combo, which has no outbox.
EmitCancel(w, final, lost) ==
  /\ pc[w] = "cancelling"
  /\ lost => final
  /\ Look(w, final, lost)
  /\ Goto(w, "pulled")
  /\ UNCHANGED <<durable, order, faults>>

\* LifecycleRecorder.observe writes exposure first; an event of a position that
\* is not in the book is an orphan.
Exposed(position, seen) ==
  IF position.state # "NONE" /\ seen.filled > position.filled
  THEN [state |-> "OPEN", filled |-> seen.filled]
  ELSE position

\* Then what it no longer knows, or a terminal refusal with nothing filled.
Settled(position, seen, known) ==
  IF position.state = "NONE" \/ seen.state = known THEN position
  ELSE IF seen.state = "UNKNOWN" THEN [position EXCEPT !.state = "UNCERTAIN"]
  ELSE IF seen.state = "CANCELLED" /\ seen.filled = 0 THEN Failed(position)
  ELSE position

SinkExposure(w) ==
  /\ pc[w] \in {"observed", "pulled"}
  /\ book' = [book EXCEPT ![Strat(w)] = Exposed(@, me[w].seen)]
  /\ Goto(w, IF pc[w] = "observed" THEN "filed" ELSE "pulledFiled")
  /\ UNCHANGED <<answers, spent, slots, outbox, binding, order, me, faults>>

SinkState(w) ==
  /\ pc[w] \in {"filed", "pulledFiled"}
  /\ book' = [book EXCEPT ![Strat(w)] = Settled(@, me[w].seen, me[w].known)]
  /\ me' = [me EXCEPT ![w].known = me[w].seen.state]
  /\ Goto(w, IF pc[w] = "filed" THEN IF me[w].final THEN "finished" ELSE "polling"
             ELSE IF me[w].final THEN "retracted" ELSE "cancelling")
  /\ UNCHANGED <<answers, spent, slots, outbox, binding, order, faults>>

\* The store raises under the sink, before or after the event reached the file.
\* Out of place_combo that is a failed send; out of cancel_combo the ladder
\* stops.
SinkRaises(w) ==
  /\ faults.count < MaxFaults
  /\ faults' = [count |-> faults.count + 1, store |-> TRUE]
  /\ LET old == book[Strat(w)]
         new == IF pc[w] \in {"observed", "pulled"} THEN Exposed(old, me[w].seen)
                ELSE Settled(old, me[w].seen, me[w].known)
     IN \/ /\ pc[w] \in {"observed", "filed"}
           /\ \E position \in {old, new} : SendFailed(w, position)
        \/ /\ pc[w] \in {"pulled", "pulledFiled"}
           /\ \E position \in {old, new} :
                book' = [book EXCEPT ![Strat(w)] = position]
           /\ Finish(w)
  /\ UNCHANGED <<answers, spent, slots, outbox, binding, order>>

\* outcome(): an UNKNOWN classification is a quarantine.
Outcome(w) ==
  /\ pc[w] = "finished"
  /\ \E t \in TransitionOrQuarantine(outbox[me[w].attempt],
                 IF me[w].seen.state = "UNKNOWN" THEN "AMBIGUOUS" ELSE "OUTCOME") :
       /\ Fault(t.cost)
       /\ outbox' = [outbox EXCEPT ![me[w].attempt] = t.state]
  /\ Goto(w, "judged")
  /\ UNCHANGED <<answers, spent, slots, binding, order, book, me>>

-----------------------------------------------------------------------------
(* work_order: the reprice ladder *)

\* _still_working for the first order, not _leave_alone for a replacement.
Workable(w) ==
  /\ me[w].seen.filled = 0
  /\ IF Replacing(w) THEN me[w].seen.state \notin TerminalSnapshot
     ELSE me[w].seen.state = "WORKING"

Pull(w) ==
  /\ pc[w] = "judged"
  /\ Workable(w)
  /\ Goto(w, "cancelling")
  /\ UNCHANGED <<durable, order, me, faults>>

\* Mutants of Reprice: the cancellation is not confirmed; one rung too many.
RepriceUnconfirmed(w) ==
  /\ pc[w] = "retracted"
  /\ me[w].seen.filled = 0
  /\ me[w].spec.rung < MaxRung
  /\ me' = [me EXCEPT ![w].spec.rung = @ + 1, ![w].approval = None,
                      ![w].attempt = None]
  /\ Goto(w, "screened")
  /\ UNCHANGED <<durable, order, faults>>

RepriceOnceMore(w) ==
  /\ pc[w] = "retracted"
  /\ me[w].seen.state \in TerminalSnapshot
  /\ me[w].seen.filled = 0
  /\ me[w].spec.rung <= MaxRung
  /\ me' = [me EXCEPT ![w].spec.rung = @ + 1, ![w].approval = None,
                      ![w].attempt = None]
  /\ Goto(w, "screened")
  /\ UNCHANGED <<durable, order, faults>>

\* A confirmed terminal cancellation with nothing filled, and a rung left: a new
\* spec that needs its own review, attempt and slot.
Reprice(w) ==
  /\ pc[w] = "retracted"
  /\ me[w].seen.state \in TerminalSnapshot
  /\ me[w].seen.filled = 0
  /\ me[w].spec.rung < MaxRung
  /\ me' = [me EXCEPT ![w].spec.rung = @ + 1, ![w].approval = None,
                      ![w].attempt = None]
  /\ Goto(w, "screened")
  /\ UNCHANGED <<durable, order, faults>>

\* The pass ends: nothing to work, the cancel was refused or not confirmed, the
\* deadline expired.  _record_open_outcome marks a fill without a price.
Conclude(w) ==
  /\ pc[w] \in {"judged", "retracted"}
  /\ book' \in {book} \cup
       (IF me[w].seen.filled > 0 /\ me[w].seen.state # "UNKNOWN"
        THEN {[book EXCEPT ![Strat(w)].state = "UNCERTAIN"]} ELSE {})
  /\ Finish(w)
  /\ UNCHANGED <<answers, spent, slots, outbox, binding, order, faults>>

-----------------------------------------------------------------------------
Environment == \E a \in Attempt : Fill(a) \/ Die(a)

\* What a running pass does next when nothing interrupts it.
Progress(w) ==
  \/ TurnAway(w)
  \/ \E p \in Approval : Require(w, p)
  \/ \E a \in Attempt : Prepare(w, a)
  \/ Reserve(w)
  \/ ReserveRefused(w)
  \/ Consume(w)
  \/ ConsumeRefused(w)
  \/ ApprovalConsumed(w)
  \/ RecordSubmission(w)
  \/ LeaseLost(w)
  \/ SendIntent(w)
  \/ PlaceOrder(w)
  \/ PlaceOrderRaises(w)
  \/ CommitSlot(w)
  \/ Emit(w, FALSE, FALSE)
  \/ EmitCancel(w, FALSE, FALSE)
  \/ SinkExposure(w)
  \/ SinkState(w)
  \/ SinkRaises(w)
  \/ Outcome(w)
  \/ Pull(w)
  \/ Reprice(w)
  \/ Conclude(w)

\* Mutant of Timeout: a poll loop that only a done order ends.
TimeoutWhenDone(w) ==
  /\ me[w].trade.status = "done"
  /\ Emit(w, TRUE, FALSE) \/ EmitCancel(w, TRUE, FALSE)

\* The poll loops count their own sleeps and end by themselves.
Timeout(w) == \E lost \in BOOLEAN : Emit(w, TRUE, lost) \/ EmitCancel(w, TRUE, lost)

Step(w) ==
  \/ \E s \in Strategy : Begin(w, s)
  \/ Deliver(w)
  \/ Crash(w)
  \/ Progress(w)
  \/ Timeout(w)

Next ==
  \/ Environment
  \/ \E p \in Approval : Approve(p)
  \/ \E w \in Worker : Step(w)

Spec == Init /\ [][Next]_vars

\* The pass is scheduled until it returns; the broker owes nothing.
FairSpec == Spec /\ \A w \in Worker : WF_vars(Progress(w)) /\ SF_vars(Timeout(w))

-----------------------------------------------------------------------------
(* Properties *)

Placed(a) == order[a].status # "none"
OrderOf(a) == binding[a].spec.strategy

\* An order at the broker was licensed: its approval answers exactly its spec and
\* is spent, a slot is held for it, and its attempt says on disk that the send
\* door was opened - whatever crashed or raised since.
SendIsBacked ==
  \A a \in Attempt : Placed(a) =>
    /\ binding[a].approval \in spent
    /\ answers[binding[a].approval] = binding[a].spec
    /\ a \in slots
    /\ outbox[a] \in {"SEND_INTENT", "SUBMISSION_OBSERVED", "AMBIGUOUS",
                      "OUTCOME", "RECONCILED"}

\* "An approval authorizes exactly one order" (approval.py, consume), also when
\* two processes require the same answer before either spends it.
OneOrderPerApproval ==
  \A a, b \in Attempt :
    Placed(a) /\ Placed(b) /\ binding[a].approval = binding[b].approval => a = b

\* A spent approval is accounted for by an attempt that is neither missing nor
\* aborted; if the broker never got that attempt's order, no opening passes the
\* gate ("a crash after consume but before placeOrder leaves an explicit
\* attempt", transmit.py).
SpentIsExplained ==
  \A p \in spent : \E a \in Attempt :
    /\ binding[a].approval = p
    /\ Placed(a) \/ outbox[a] \in Blocking

\* What the broker holds or may still fill of an attempt.
Exposure(a) ==
  IF order[a].status = "working" THEN Quantity ELSE order[a].filled

\* No two orders of one structure hold or may still fill contracts.
SingleExposure ==
  \A a, b \in Attempt :
    /\ Placed(a) /\ Exposure(a) > 0
    /\ Placed(b) /\ Exposure(b) > 0
    /\ OrderOf(a) = OrderOf(b)
    => a = b

\* The ladder never has two of them: a replacement goes out only once its predecessor is
\* dead and empty, although fills race the cancel and the Trade object lags - as long as
\* the position store has not raised under the sink.
NoDoubleExposure == faults.store \/ SingleExposure

\* An order that works or filled at the broker has its position in the book, or its
\* attempt blocks the next opening.
LiveIsRecorded ==
  \A a \in Attempt :
    Placed(a) /\ Exposure(a) > 0 =>
      book[OrderOf(a)].state # "NONE" \/ outbox[a] \in Blocking

\* No live risk is invisible, whatever raised or died, but for a store that raised under
\* the sink.
RiskIsVisible == faults.store \/ LiveIsRecorded

\* With one process per state directory and a store that has not raised, an order goes
\* out only when every earlier one is dead, or has fills the book knows: "opening
\* another on top of it is how one intended position becomes two" (runner.py).
SendsAlone ==
  [][ \A a \in Attempt :
        ~faults.store /\ ~Placed(a) /\ Placed(a)' =>
          \A b \in Attempt \ {a} :
            /\ outbox[b] \notin Blocking
            /\ order[b].status = "working" => book[OrderOf(b)].state = "OPEN" ]_vars

\* A quarantine is never lifted and a closed attempt never reopened by a late
\* observation, and no slot, marker or answer is ever taken back.
RecordsAreFinal ==
  [][ /\ \A a \in Attempt :
           outbox[a] \in Terminal \cup {"AMBIGUOUS"} => outbox'[a] = outbox[a]
      /\ spent \subseteq spent'
      /\ slots \subseteq slots' ]_vars

\* A pass ends although the broker never answers: every poll loop runs out and
\* the ladder has MaxRung rungs.
PassEnds == \A w \in Worker : pc[w] # "idle" ~> pc[w] = "idle"

-----------------------------------------------------------------------------
(* What all of this implements: licences spent and sent one to one. *)

Licence == INSTANCE OpeningLicence WITH
  answered <- {p \in Approval : answers[p] # None},
  sends <- {<<binding[a].approval, a>> : a \in {b \in Attempt : Placed(b)}}

\* Every behaviour of the corridor, with its crashes, retries and rungs, is a
\* behaviour of the licence: one answer, one marker, one slot, one order.
ImplementsLicence == Licence!Spec

=============================================================================
