--------------------------- MODULE OpeningLicence ---------------------------
(***************************************************************************)
(* What the opening corridor promises, without its processes, records and  *)
(* failures: an opening order goes to the broker against one reviewer's    *)
(* answer and one transmission slot, and neither is ever used again        *)
(* (approval.py, consume; order_outbox.py, TransmissionBudget.reserve).    *)
(***************************************************************************)
EXTENDS Integers, FiniteSets

CONSTANTS
  Approval,  \* reviewer answers
  Attempt,   \* slots are taken in the name of an attempt
  Cap        \* slots there are

VARIABLES
  answered,  \* approvals the reviewer has given
  spent,     \* approvals consumed
  slots,     \* slots taken
  sends      \* orders at the broker, as pairs of an approval and a slot

vars == <<answered, spent, slots, sends>>

Init ==
  /\ answered = {}
  /\ spent = {}
  /\ slots = {}
  /\ sends = {}

Answer(p) ==
  /\ p \notin answered
  /\ answered' = answered \cup {p}
  /\ UNCHANGED <<spent, slots, sends>>

Take(a) ==
  /\ a \notin slots
  /\ Cardinality(slots) < Cap
  /\ slots' = slots \cup {a}
  /\ UNCHANGED <<answered, spent, sends>>

\* An answer is spent once, whether or not an order follows.
Consume(p) ==
  /\ p \in answered \ spent
  /\ spent' = spent \cup {p}
  /\ UNCHANGED <<answered, slots, sends>>

Send(p, a) ==
  /\ p \in spent
  /\ a \in slots
  /\ \A s \in sends : s[1] # p /\ s[2] # a
  /\ sends' = sends \cup {<<p, a>>}
  /\ UNCHANGED <<answered, spent, slots>>

Next ==
  \/ \E p \in Approval : Answer(p) \/ Consume(p)
  \/ \E a \in Attempt : Take(a)
  \/ \E p \in Approval, a \in Attempt : Send(p, a)

Spec == Init /\ [][Next]_vars

=============================================================================
