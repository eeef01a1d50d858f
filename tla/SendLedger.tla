----------------------------- MODULE SendLedger -----------------------------
(***************************************************************************)
(* The receipts of one execution saga and the steps that processes take    *)
(* with it (execution_outbox.ReceiptJournal, ExecutionOutbox and           *)
(* authorize_after_intent), and what a later reconciliation says of the    *)
(* order it sent (broker_reconciliation.BrokerReconciler).                 *)
(***************************************************************************)
EXTENDS Integers, Sequences, FiniteSets

CONSTANTS
  Callers,     \* processes that work on the saga
  Approvals,   \* the approvals that they may bring along
  Quantity,    \* of the order
  MaxFaults,   \* bound: callers that die or give up
  None

VARIABLES
  journal,   \* the receipts of the saga, in order; the version is the length
  caller,    \* process -> what it is doing
  spent,     \* the approvals the verifier has consumed
  order,     \* the order at the broker
  verdict,   \* what the last reconciliation called it
  faults

vars == <<journal, caller, spent, order, verdict, faults>>

Kinds == {"intent", "consumed", "submitted", "outcome", "recovery", "cleared"}
Verdicts == {"UNKNOWN", "PARTIAL", "FILLED", "WORKING", "CANCELLED", "ABSENT"}

LedgerAssumption ==
  /\ Quantity \in Nat \ {0} /\ MaxFaults \in Nat
  /\ None \notin Kinds \cup Verdicts /\ None \notin Nat

\* _intent_from_records: the state is that of the last receipt.
Last(records) == IF records = <<>> THEN None ELSE records[Len(records)].kind
Has(kind) == \E i \in DOMAIN journal : journal[i].kind = kind

Resting == [pc |-> "idle", approval |-> None, call |-> None, version |-> 0, expected |-> 0]

Init ==
  /\ journal = <<>> /\ spent = {} /\ faults = 0
  /\ caller = [p \in Callers |-> Resting]
  /\ order = [sent |-> 0, status |-> "none", filled |-> 0]
  /\ verdict = None

-----------------------------------------------------------------------------
(* ReceiptJournal.append, under the file lock *)

\* Mutant of Appends: the version is not compared.
AppendsUnconditionally(kind, expected, approval) ==
  IF Has(kind) THEN UNCHANGED journal
  ELSE journal' = Append(journal, [kind |-> kind, approval |-> approval])

\* A receipt with a known key is the one already there; otherwise the version must
\* be the one the caller has read.
Appends(kind, expected, approval) ==
  IF Has(kind) THEN UNCHANGED journal
  ELSE /\ expected = None \/ Len(journal) = expected
       /\ journal' = Append(journal, [kind |-> kind, approval |-> approval])

\* The version the caller knows after an append.
Version(kind) == IF Has(kind) THEN Len(journal) ELSE Len(journal) + 1

-----------------------------------------------------------------------------
(* authorize_after_intent *)

\* prepare reads the saga before it appends: an intent that is there must name the
\* same facts.
StartPrepare(p, q) ==
  /\ caller[p].pc = "idle"
  /\ journal # <<>> => journal[1].approval = q
  /\ caller' = [caller EXCEPT ![p].approval = q,
                              ![p].pc = IF journal = <<>> THEN "preparing" ELSE "prepared",
                              ![p].version = Len(journal)]
  /\ UNCHANGED <<journal, spent, order, verdict, faults>>

Prepare(p) ==
  /\ caller[p].pc = "preparing"
  /\ Appends("intent", None, caller[p].approval)
  /\ caller' = [caller EXCEPT ![p].pc = "prepared", ![p].version = 1]
  /\ UNCHANGED <<spent, order, verdict, faults>>

\* Mutant of Consume: an approval may be consumed again.
ConsumeAgain(p) ==
  /\ caller[p].pc = "prepared"
  /\ spent' = spent \cup {caller[p].approval}
  /\ caller' = [caller EXCEPT ![p].pc = "reads", ![p].call = "consumed"]
  /\ UNCHANGED <<journal, order, verdict, faults>>

\* verifier.recheck and verifier.consume: an approval is spent once.
Consume(p) ==
  /\ caller[p].pc = "prepared"
  /\ caller[p].approval \notin spent
  /\ spent' = spent \cup {caller[p].approval}
  /\ caller' = [caller EXCEPT ![p].pc = "reads", ![p].call = "consumed"]
  /\ UNCHANGED <<journal, order, verdict, faults>>

-----------------------------------------------------------------------------
(* record_approval_consumed, record_broker_submission_observed,
   record_order_outcome, mark_recovery_required, clear_recovery *)

\* The state each call leaves, and those it takes for done.
From == [consumed |-> {"intent"}, submitted |-> {"consumed"}, outcome |-> {"submitted"},
         recovery |-> {"intent", "consumed", "submitted"}, cleared |-> {"recovery"}]
Done == [consumed |-> {"consumed", "submitted", "outcome"}, submitted |-> {"submitted", "outcome"},
         outcome |-> {"outcome"}, recovery |-> {"recovery", "outcome", "cleared"},
         cleared |-> {"cleared"}]

\* _require_intent: the caller has seen every receipt; a quarantine needs no such proof.
MayRecord(p, call) ==
  /\ Last(journal) \in From[call]
  /\ call # "recovery" => Len(journal) = caller[p].version

After(call) ==
  CASE call = "consumed" -> "licensed" [] call = "submitted" -> "sent" [] OTHER -> "idle"

\* The first half of a call: read, and return, refuse or go on to append.
ReadSaga(p) ==
  /\ caller[p].pc = "reads"
  /\ LET call == caller[p].call IN
     \/ /\ Last(journal) \in Done[call]
        /\ caller' = [caller EXCEPT ![p].pc = After(call), ![p].version = Len(journal)]
     \/ /\ Last(journal) \notin Done[call] /\ MayRecord(p, call)
        /\ caller' = [caller EXCEPT ![p].pc = "appends", ![p].expected = Len(journal)]
  /\ UNCHANGED <<journal, spent, order, verdict, faults>>

AppendReceipt(p) ==
  /\ caller[p].pc = "appends"
  /\ Appends(caller[p].call, caller[p].expected, journal[1].approval)
  /\ caller' = [caller EXCEPT ![p].pc = After(caller[p].call),
                              ![p].version = Version(caller[p].call)]
  /\ UNCHANGED <<spent, order, verdict, faults>>

\* placeOrder, and the receipt of it; then the outcome, once the order has ended.  Of a
\* second order under the saga only the count is kept.
Send(p) ==
  /\ caller[p].pc = "licensed"
  /\ order' = [order EXCEPT !.sent = @ + 1, !.status = IF @ = "none" THEN "working" ELSE @]
  /\ caller' = [caller EXCEPT ![p].pc = "reads", ![p].call = "submitted"]
  /\ UNCHANGED <<journal, spent, verdict, faults>>

Finish(p) ==
  /\ caller[p].pc = "sent" /\ order.status \in {"filled", "cancelled"}
  /\ caller' = [caller EXCEPT ![p].pc = "reads", ![p].call = "outcome"]
  /\ UNCHANGED <<journal, spent, order, verdict, faults>>

\* Anything that raises in between ends the call; a caller that is left alive
\* quarantines the saga, if it can (test_options_recovery_saga.py).
GiveUp(p) ==
  /\ caller[p].pc \notin {"idle"} /\ faults < MaxFaults
  /\ faults' = faults + 1
  /\ \/ caller' = [caller EXCEPT ![p] = Resting]
     \/ /\ journal # <<>> /\ caller[p].call # "recovery"
        /\ caller' = [caller EXCEPT ![p].pc = "reads", ![p].call = "recovery"]
  /\ UNCHANGED <<journal, spent, order, verdict>>

\* The append of a caller whose version was overtaken raises ReceiptConflict, and so
\* does its read.
Conflict(p) ==
  /\ \/ /\ caller[p].pc = "appends" /\ ~Has(caller[p].call)
        /\ Len(journal) # caller[p].expected
     \/ /\ caller[p].pc = "reads" /\ Last(journal) \notin Done[caller[p].call]
        /\ ~MayRecord(p, caller[p].call)
     \/ caller[p].pc = "prepared" /\ caller[p].approval \in spent
  /\ caller' = [caller EXCEPT ![p] = Resting]
  /\ UNCHANGED <<journal, spent, order, verdict, faults>>

\* The operator clears a quarantine with the result of a reconciliation.
Clear(p) ==
  /\ caller[p].pc = "idle" /\ Last(journal) = "recovery"
  /\ verdict \notin {None, "UNKNOWN"}
  /\ caller' = [caller EXCEPT ![p].pc = "reads", ![p].call = "cleared",
                              ![p].version = Len(journal)]
  /\ UNCHANGED <<journal, spent, order, verdict, faults>>

-----------------------------------------------------------------------------
(* The broker, and BrokerReconciler *)

Progress ==
  /\ order.status = "working"
  /\ \/ /\ order.filled < Quantity
        /\ order' = [order EXCEPT !.filled = @ + 1,
                                  !.status = IF order.filled + 1 = Quantity THEN "filled" ELSE @]
     \/ order' = [order EXCEPT !.status = "cancelled"]
  /\ UNCHANGED <<journal, caller, spent, verdict, faults>>

\* Mutant of State: the status first, as for an order that ended without a fill.
StateByStatus(filled, remaining, status) ==
  CASE status = "cancelled" -> "CANCELLED"
    [] status = "working" -> "WORKING"
    [] OTHER -> "FILLED"

\* _state: fills first, then the status.
State(filled, remaining, status) ==
  IF filled > 0
  THEN IF remaining > 0 \/ filled < Quantity THEN "PARTIAL" ELSE "FILLED"
  ELSE CASE status = "working" -> "WORKING"
         [] status = "cancelled" -> "CANCELLED"
         [] OTHER -> "UNKNOWN"

\* reconcile: an incomplete answer is no answer; an order that has left the list is
\* known by an execution id that was noted before, or absent.  A cancelled order
\* reports nothing remaining, or what was left.
Reconcile ==
  /\ \E complete, listed, noted \in BOOLEAN, lapsed \in {0, Quantity - order.filled} :
       /\ listed => order.status # "none"
       /\ order.status = "working" => listed
       /\ noted => order.filled > 0
       /\ verdict' = IF ~complete THEN "UNKNOWN"
                     ELSE IF listed
                     THEN State(order.filled,
                                IF order.status = "cancelled" THEN lapsed
                                ELSE Quantity - order.filled, order.status)
                     ELSE IF noted THEN "FILLED" ELSE "ABSENT"
  /\ UNCHANGED <<journal, caller, spent, order, faults>>

Next ==
  \/ \E p \in Callers :
       \/ \E q \in Approvals : StartPrepare(p, q)
       \/ Prepare(p) \/ Consume(p) \/ ReadSaga(p) \/ AppendReceipt(p) \/ Send(p) \/ Finish(p)
       \/ GiveUp(p) \/ Conflict(p) \/ Clear(p)
  \/ Progress
  \/ Reconcile

Spec == Init /\ [][Next]_vars

-----------------------------------------------------------------------------
(* Properties *)

TypeOK ==
  /\ \A i \in DOMAIN journal : journal[i].kind \in Kinds
  /\ \A p \in Callers : caller[p].version \in 0 .. Cardinality(Kinds)
  /\ spent \subseteq Approvals
  /\ order.filled \in 0 .. Quantity
  /\ verdict \in Verdicts \cup {None}
  /\ faults \in 0 .. MaxFaults

\* The receipts of a saga are in the one order that proves a send: the intent, the
\* consumed approval, the submission, the outcome, each at most once; after a
\* quarantine only its clearing (ExecutionOutbox: "intent then approval consumption
\* before broker work").
Position == [intent |-> 1, consumed |-> 2, submitted |-> 3, outcome |-> 4, recovery |-> 5,
             cleared |-> 6]

ReceiptsAreInOrder ==
  \A i, j \in DOMAIN journal :
    /\ i < j => Position[journal[i].kind] < Position[journal[j].kind]
    /\ j = i + 1 => Position[journal[j].kind] = Position[journal[i].kind] + 1
                    \/ journal[j].kind = "recovery"

\* An order goes out only on an approval consumed for it and on the receipt of that,
\* however many callers retry the saga and wherever they die ("intent then approval
\* consumption before broker work").
SendsAreApproved ==
  /\ order.sent <= Cardinality(spent)
  /\ order.sent > 0 => Has("consumed")

\* An order with fills that is still listed is never reported as cancelled or absent
\* ("it never treats an unavailable broker query as an empty account").
FillsAreSeen == verdict = "CANCELLED" => order.filled = 0

\* The ledger and the reconciler prove one send (execution_outbox.py,
\* broker_reconciliation.py).
SendIsProven == ReceiptsAreInOrder /\ SendsAreApproved /\ FillsAreSeen
=============================================================================
