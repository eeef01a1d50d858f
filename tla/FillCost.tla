------------------------------ MODULE FillCost ------------------------------
(***************************************************************************)
(* What an opening fill cost: executions and commission reports arrive     *)
(* leg by leg and late, `options-mark` captures what the session has of    *)
(* them, and the position store keeps the capture (executions.py,          *)
(* adapters.IBKRExecutionReportAdapter, cli.cmd_options_mark and the       *)
(* EXECUTIONS_RECORDED event of positions.py).  An execution is of one     *)
(* contract, of one leg and one order: the opening order, or its namesake, *)
(* an order of the same legs that bears the same order id in a later       *)
(* session.                                                                *)
(***************************************************************************)
EXTENDS Totals

CONSTANTS
  Legs,       \* of the structure, each in the ratio of one
  Quantity,   \* of the order
  Fee,        \* what a contract of each leg costs
  OtherFee,   \* what a contract of the namesake costs
  Namesakes,  \* bound: contracts of the namesake
  MaxDays,    \* bound
  MaxMarks    \* bound: captures

CostAssumption ==
  /\ {Quantity, MaxDays, MaxMarks} \subseteq Nat \ {0} /\ {OtherFee, Namesakes} \subseteq Nat
  /\ IsFiniteSet(Legs) /\ Fee \in [Legs -> Nat]

VARIABLES
  filled,     \* contracts the order has filled
  believed,   \* filled_quantity of the store
  reported,   \* the executions the session knows of, <<contract, leg, order>>, and of
              \* each whether its commission report has come
  recorded,   \* commission and commission_complete of the store
  evidence,   \* the last capture
  day, marks

vars == <<filled, believed, reported, recorded, evidence, day, marks>>

Nothing == [complete |-> FALSE, mixed |-> FALSE, total |-> 0, quantity |-> 0]

Init ==
  /\ filled = 0 /\ believed = 0 /\ reported = [e \in {} |-> FALSE]
  /\ recorded = [commission |-> 0, complete |-> FALSE]
  /\ evidence = Nothing /\ day = 1 /\ marks = 0

-----------------------------------------------------------------------------
(* The broker *)

Fill ==
  /\ filled < Quantity
  /\ filled' = filled + 1
  /\ UNCHANGED <<believed, reported, recorded, evidence, day, marks>>

\* A namesake trades in a session after the one of the opening order.
Executed ==
  ((1 .. filled) \X Legs \X {"own"})
  \cup (IF day = 1 THEN {} ELSE (1 .. Namesakes) \X Legs \X {"namesake"})

\* execDetails, and later commissionReport: executions_from_fills keeps the costed
\* record of an execution that was delivered twice.
Deliver ==
  /\ \E e \in Executed \ DOMAIN reported :
        reported' = [x \in DOMAIN reported \cup {e} |-> x # e /\ reported[x]]
  /\ UNCHANGED <<filled, believed, recorded, evidence, day, marks>>

Charge ==
  /\ \E e \in DOMAIN reported : ~reported[e] /\ reported' = [reported EXCEPT ![e] = TRUE]
  /\ UNCHANGED <<filled, believed, recorded, evidence, day, marks>>

\* The executions of another day are not served again.
NextDay ==
  /\ day < MaxDays
  /\ day' = day + 1
  /\ \E served \in SUBSET DOMAIN reported :
        reported' = [e \in served |-> reported[e]]
  /\ UNCHANGED <<filled, believed, recorded, evidence, marks>>

-----------------------------------------------------------------------------
(* The engine *)

\* The sink records the fills it hears of: OPEN_PARTIAL or OPEN_FILLED (replay).
Hear ==
  /\ believed < filled
  /\ believed' = filled
  /\ UNCHANGED <<filled, reported, recorded, evidence, day, marks>>

\* _belongs_to: the order's own reference and its permId are durable; its order id,
\* the evidence of last resort, is the namesake's too.
Durable(e) == e[3] = "own"
Namesake(e) == e[3] = "namesake"
Belongs(e) == Durable(e) \/ Namesake(e)

\* Mutant of Uncosted: the report that every execution carries is always read.
UncostedNever(executions) == {}

\* from_fill: an execution whose report does not name it has no commission.
Uncosted(executions) == {e \in executions : ~reported[e]}

Commission(e) == IF Durable(e) THEN Fee[e[2]] ELSE OtherFee

\* The sum of the reported commissions; an absent report presents as 0.0.
Paid(executions) ==
  Total([e \in executions |-> IF reported[e] THEN Commission(e) ELSE 0])

\* commission_evidence_for: every leg covered up to the filled quantity, and every
\* execution costed.
Covered(executions, quantity) ==
  \A leg \in Legs : Cardinality({e \in executions : e[2] = leg}) >= quantity

Whole(executions, quantity) ==
  /\ quantity > 0
  /\ Covered(executions, quantity)
  /\ Uncosted(executions) = {}

\* cmd_options_mark captures the cost of an open position, and record_executions
\* keeps it; the replay lets a completeness that was once proven stand.
Recorded(capture) ==
  [commission |-> IF capture.complete THEN capture.total ELSE recorded.commission,
   complete |-> recorded.complete \/ capture.complete]

Capture ==
  /\ filled > 0 /\ marks < MaxMarks
  /\ LET mine == {e \in DOMAIN reported : Belongs(e)}
         complete == Whole(mine, believed)
     IN /\ evidence' = [complete |-> complete, mixed |-> \E e \in mine : ~Durable(e),
                        total |-> IF complete THEN Paid(mine) ELSE 0, quantity |-> believed]
        /\ recorded' = Recorded(evidence')
  /\ marks' = marks + 1
  /\ UNCHANGED <<filled, believed, reported, day>>

Next == Fill \/ Deliver \/ Charge \/ NextDay \/ Hear \/ Capture

Spec == Init /\ [][Next]_vars

-----------------------------------------------------------------------------
(* Properties *)

TypeOK ==
  /\ filled \in 0 .. Quantity /\ believed \in 0 .. filled
  /\ DOMAIN reported \subseteq (1 .. filled) \X Legs \X {"own"}
                                \cup (1 .. Namesakes) \X Legs \X {"namesake"}
  /\ recorded.commission \in Nat /\ recorded.complete \in BOOLEAN
  /\ day \in 1 .. MaxDays /\ marks \in 0 .. MaxMarks

\* What the opening order pays for a quantity, leg by leg.
Price(quantity) == Total([x \in (1 .. quantity) \X Legs |-> Fee[x[2]]])

\* A capture that calls itself complete carries at least the cost of the quantity it
\* was asked about ("never a partial sum wearing a total's name", executions.py),
\* unless it took executions of a namesake for the order's: the order id "can name an
\* unrelated order" (_belongs_to).
CompleteIsATotal ==
  evidence.complete /\ ~evidence.mixed => evidence.total >= Price(evidence.quantity)

\* The same without the exception.
TotalIsOfTheOrder == evidence.complete => evidence.total >= Price(evidence.quantity)

\* What the store calls complete is "the whole cost of the opening fill, proven leg by
\* leg" (positions.OpenPosition.commission_complete).
CostIsWhole == recorded.complete => recorded.commission >= Price(believed)

=============================================================================
