--------------------------- MODULE CorridorProofs ---------------------------
(***************************************************************************)
(* Proofs about OpeningCorridor, for every set of workers, strategies,     *)
(* approvals and attempts, every cap, ladder and number of faults, and     *)
(* whether or not the position store fails under the sink.                 *)
(*                                                                         *)
(* The invariant says what a process may rely on between two of its steps  *)
(* although others run, raise and die: what it holds in memory (Recalls),  *)
(* how far its files are (Records), that its attempt is its own (Apart);   *)
(* and what outlives it: an approval serves one order, sent or still to be *)
(* sent (OneClaim), and a spent approval keeps a record (Explained).       *)
(*                                                                         *)
(* The last part is about one process on the ladder, as long as its store  *)
(* has not raised under the sink.                                          *)
(***************************************************************************)
EXTENDS OpeningCorridor, TLAPS

\* The steps at which a process works on an attempt of its own, those at which it has
\* spent its approval and not sent, and those after the order went out.
Holding == PCs \ {"idle", "screened", "approved"}
Licensed == {"consumed", "licensed", "recorded", "intended"}
Sent == Holding \ ({"prepared", "reserved"} \cup Licensed)

\* What the outbox may say of an attempt whose order went out.
SentState == {"SEND_INTENT", "SUBMISSION_OBSERVED", "AMBIGUOUS", "OUTCOME", "RECONCILED"}

\* What a Trade object, a snapshot of it and a replayed position look like.
Trades == [status : {"silent", "working", "done"}, filled : Fills]
Sights == [state : Snapshot, filled : Fills]
Position == [state : {"NONE", "OPENING", "OPEN", "UNCERTAIN"}, filled : Fills]

\* What a process holds in memory is a spec, an answer to it and the attempt whose
\* record names both.
Recalls(w) ==
  /\ pc[w] # "idle" => me[w].spec \in OrderSpec
  /\ pc[w] \notin {"idle", "screened"} =>
       me[w].approval \in Approval /\ answers[me[w].approval] = me[w].spec
  /\ pc[w] \in Holding =>
       /\ me[w].attempt \in Attempt
       /\ binding[me[w].attempt] = [spec |-> me[w].spec, approval |-> me[w].approval]

\* The files are as far as the process is.
Records(w) ==
  LET a == me[w].attempt
  IN /\ pc[w] \in {"prepared", "reserved", "consumed"} => outbox[a] = "PREPARED"
     /\ pc[w] \in {"licensed", "recorded"} => outbox[a] = "APPROVAL_CONSUMED"
     /\ pc[w] = "intended" => outbox[a] = "SEND_INTENT"
     /\ pc[w] \in Holding \ Sent => ~Placed(a)
     /\ pc[w] \in Sent => Placed(a)
     /\ pc[w] \in Holding \ {"prepared"} => a \in slots
     /\ pc[w] \in Licensed => me[w].approval \in spent

\* No two processes work on the same attempt.
Apart ==
  \A v, w \in Worker :
    pc[v] \in Holding /\ pc[w] \in Holding /\ me[v].attempt = me[w].attempt => v = w

\* An order exists only for an attempt on record; one that was not placed has no
\* fills, one that works has some left to fill.
OrderOK(a) ==
  /\ outbox[a] = "NONE" => ~Placed(a)
  /\ order[a].status = "none" => order[a].filled = 0
  /\ order[a].status = "working" => order[a].filled < Quantity

\* The record of an attempt names the spec it was prepared for.
Bound(a) == outbox[a] # "NONE" => binding[a].spec \in OrderSpec

\* An attempt that was sent, or whose process has spent its approval to send it, lays
\* claim to the approval; no other attempt does.
Claims(a) == Placed(a) \/ \E w \in Worker : pc[w] \in Licensed /\ me[w].attempt = a

OneClaim ==
  \A a, b \in Attempt :
    Claims(a) /\ Claims(b) /\ binding[a].approval = binding[b].approval => a = b

\* A spent approval is explained by its attempt's order, or by a blocking record that
\* no process can still abort.
Witness(a, p) ==
  /\ binding[a].approval = p
  /\ \/ Placed(a)
     \/ /\ outbox[a] \in Blocking
        /\ \A w \in Worker : pc[w] = "prepared" => me[w].attempt # a

Explained == \A p \in spent : \E a \in Attempt : Witness(a, p)

CorridorInv ==
  /\ TypeOK
  /\ \A w \in Worker : Recalls(w) /\ Records(w)
  /\ \A a \in Attempt : OrderOK(a) /\ Bound(a)
  /\ Apart
  /\ SendIsBacked
  /\ OneClaim
  /\ Explained

-----------------------------------------------------------------------------
(* The operators of the durable writes *)

\* A transition ends in the state asked for or stays; a refused one stays.
LEMMA TransitionStates ==
  ASSUME NEW from \in OutboxState, NEW to \in OutboxState, NEW t \in Transition(from, to)
  PROVE  /\ t.state \in {from, to}
         /\ t.cost \in Nat
         /\ ~t.raised => t.state = to
         /\ TransitionRefused(from, to) => t.state = from
<1>1. CASE TransitionRefused(from, to)
  <2>1. t = [state |-> from, raised |-> TRUE, cost |-> 0]
    BY <1>1 DEF Transition
  <2>2. t.raised = TRUE /\ t.cost = 0 /\ t.state = from
    BY <2>1
  <2>3. QED
    BY <1>1, <2>2
<1>2. CASE ~TransitionRefused(from, to)
  <2>1. \/ t = [state |-> to, raised |-> FALSE, cost |-> 0]
        \/ t = [state |-> from, raised |-> TRUE, cost |-> 1]
        \/ t = [state |-> to, raised |-> TRUE, cost |-> 1]
    BY <1>2 DEF Transition
  <2>2. \/ t.raised = FALSE /\ t.cost = 0 /\ t.state = to
        \/ t.raised = TRUE /\ t.cost = 1 /\ t.state = from
        \/ t.raised = TRUE /\ t.cost = 1 /\ t.state = to
    BY <2>1
  <2>3. QED
    BY <1>2, <2>2
<1>3. QED
  BY <1>1, <1>2

\* A quarantine always raises, and never reopens a closed attempt.
LEMMA QuarantineStates ==
  ASSUME NEW from \in OutboxState, NEW cost \in Nat, NEW q \in Quarantine(from, cost)
  PROVE  /\ q.state \in {from, "AMBIGUOUS"}
         /\ q.raised /\ q.cost \in Nat
         /\ from \in Terminal => q.state = from
<1>1. PICK t \in Transition(from, "AMBIGUOUS") :
        q = [state |-> t.state, raised |-> TRUE, cost |-> cost + t.cost]
  BY DEF Quarantine
<1>2. "AMBIGUOUS" \in OutboxState
  BY DEF OutboxState, Blocking
<1>3. QED
  BY <1>1, <1>2, TransitionStates DEF TransitionRefused

\* A failed transition is answered by a quarantine; a closed or quarantined attempt
\* stays what it is under either.
LEMMA TransitionOrQuarantineStates ==
  ASSUME NEW from \in OutboxState, NEW to \in OutboxState,
         NEW t \in TransitionOrQuarantine(from, to)
  PROVE  /\ t.state \in {from, to, "AMBIGUOUS"}
         /\ t.cost \in Nat
         /\ ~t.raised => t.state = to
         /\ from \in Terminal \cup {"AMBIGUOUS"} /\ to # "RECONCILED" => t.state = from
<1>1. PICK s \in Transition(from, to) :
        t \in IF s.raised THEN Quarantine(s.state, s.cost) ELSE {s}
  BY DEF TransitionOrQuarantine
<1>2. /\ s.state \in {from, to} /\ s.cost \in Nat
      /\ ~s.raised => s.state = to
      /\ TransitionRefused(from, to) => s.state = from
  BY TransitionStates
<1>3. CASE s.raised
  BY <1>1, <1>2, <1>3, QuarantineStates DEF TransitionRefused
<1>4. CASE ~s.raised
  BY <1>1, <1>2, <1>4 DEF TransitionRefused, Transition
<1>5. QED
  BY <1>2, <1>3, <1>4

-----------------------------------------------------------------------------
(* Types *)

\* Nothing is recorded, spent or sent at first.
LEMMA InitInv == Init => CorridorInv
<1> SUFFICES ASSUME Init PROVE CorridorInv
  OBVIOUS
<1>1. faults \in Faults
  BY CorridorAssumption DEF Init, Faults
<1>2. QED
  BY <1>1, CorridorAssumption
     DEF Init, CorridorInv, TypeOK, Recalls, Records, Apart, OrderOK, Bound, SendIsBacked,
         OneClaim, Claims, Explained, Placed, Holding, Licensed, Sent, PCs, OutboxState,
         Blocking, Terminal, NoBinding, NoOrder, Flat, Idle, NoTrade, NoSight, Memory, Fills,
         Snapshot

\* What an acting process has in memory.
LEMMA Acting ==
  ASSUME CorridorInv, NEW w \in Worker, pc[w] # "idle"
  PROVE  /\ TypeOK /\ me[w] \in Memory /\ Recalls(w) /\ Records(w)
         /\ me[w].spec \in OrderSpec /\ Strat(w) \in Strategy /\ me[w].spec.rung \in Rung
         /\ book[Strat(w)] \in [state : {"NONE", "OPENING", "OPEN", "UNCERTAIN"},
                                filled : Fills]
         /\ pc[w] \in Holding => /\ me[w].attempt \in Attempt
                                 /\ outbox[me[w].attempt] \in OutboxState
<1>1. TypeOK /\ Recalls(w) /\ Records(w)
  BY DEF CorridorInv
<1>2. me[w].spec \in OrderSpec /\ me[w] \in Memory
  BY <1>1 DEF Recalls, TypeOK
<1>3. Strat(w) \in Strategy /\ me[w].spec.rung \in Rung
  BY <1>2 DEF OrderSpec, Strat
<1>4. QED
  BY <1>1, <1>2, <1>3 DEF TypeOK, Recalls

\* A memory stays one when a part of it is replaced.
LEMMA Memorize ==
  ASSUME NEW m \in Memory
  PROVE  /\ \A s \in OrderSpec : [m EXCEPT !.spec = s] \in Memory
         /\ \A s \in OrderSpec :
              [m EXCEPT !.spec = s, !.approval = None, !.attempt = None] \in Memory
         /\ \A p \in Approval : [m EXCEPT !.approval = p] \in Memory
         /\ \A a \in Attempt : [m EXCEPT !.attempt = a] \in Memory
         /\ \A t \in Trades : [m EXCEPT !.trade = t] \in Memory
         /\ \A v \in Sights, final \in BOOLEAN : [m EXCEPT !.seen = v, !.final = final] \in Memory
         /\ \A k \in Snapshot : [m EXCEPT !.known = k] \in Memory
<1>1. \A s \in OrderSpec : [m EXCEPT !.spec = s] \in Memory
  BY DEF Memory
<1>2. \A s \in OrderSpec :
        [m EXCEPT !.spec = s, !.approval = None, !.attempt = None] \in Memory
  BY DEF Memory
<1>3. \A p \in Approval : [m EXCEPT !.approval = p] \in Memory
  BY DEF Memory
<1>4. \A a \in Attempt : [m EXCEPT !.attempt = a] \in Memory
  BY DEF Memory
<1>5. \A t \in Trades : [m EXCEPT !.trade = t] \in Memory
  BY DEF Memory, Trades
<1>6. \A v \in Sights, final \in BOOLEAN : [m EXCEPT !.seen = v, !.final = final] \in Memory
  BY Zenon DEF Memory, Sights
<1>7. \A k \in Snapshot : [m EXCEPT !.known = k] \in Memory
  BY DEF Memory
<1>8. QED
  BY <1>1, <1>2, <1>3, <1>4, <1>5, <1>6, <1>7

\* A process that returns holds nothing.
LEMMA FinishType ==
  ASSUME TypeOK, NEW w \in Worker, Finish(w)
  PROVE  me' \in [Worker -> Memory] /\ pc' \in [Worker -> PCs]
BY CorridorAssumption
   DEF Finish, Goto, TypeOK, Memory, Idle, NoTrade, NoSight, Snapshot, Fills, PCs

\* What a failed send leaves in the book is well typed.
LEMMA SendFailedType ==
  ASSUME TypeOK, NEW w \in Worker, NEW p \in Position, SendFailed(w, p)
  PROVE  /\ me' \in [Worker -> Memory] /\ pc' \in [Worker -> PCs]
         /\ book' \in [Strategy -> Position]
<1>1. Failed(p) \in Position
  BY CorridorAssumption DEF Failed, Flat, Position, Fills
<1>2. QED
  BY <1>1, FinishType DEF SendFailed, TypeOK, Position

\* The view of a Trade object is a snapshot.
LEMMA ViewType ==
  ASSUME NEW trade \in Trades, NEW lost \in BOOLEAN
  PROVE  View(trade, lost) \in Sights
BY DEF View, Snapshot, Trades, Sights

\* A process that looks at its order still has a memory.
LEMMA LookType ==
  ASSUME TypeOK, NEW w \in Worker, NEW final \in BOOLEAN, NEW lost \in BOOLEAN,
         Look(w, final, lost)
  PROVE  me' \in [Worker -> Memory]
<1>1. me[w] \in Memory
  BY DEF TypeOK
<1>2. View(me[w].trade, lost) \in Sights
  BY <1>1, ViewType DEF Memory, Trades
<1>3. [me[w] EXCEPT !.seen = View(me[w].trade, lost), !.final = final] \in Memory
  BY <1>1, <1>2, Memorize
<1>4. me' = [me EXCEPT ![w] = [me[w] EXCEPT !.seen = View(me[w].trade, lost),
                                            !.final = final]]
  BY DEF Look, TypeOK
<1>5. QED
  BY <1>3, <1>4 DEF TypeOK

\* What the sink makes of a position and a snapshot is a position.
LEMMA SinkType ==
  ASSUME NEW p \in Position, NEW seen \in Sights, NEW known
  PROVE  Exposed(p, seen) \in Position /\ Settled(p, seen, known) \in Position
<1>1. Failed(p) \in Position
  BY CorridorAssumption DEF Failed, Flat, Position, Fills
<1>2. QED
  BY <1>1 DEF Exposed, Settled, Position, Sights

\* The faults that happened stay within their bound.
LEMMA FaultType ==
  ASSUME TypeOK, NEW c \in Nat, Fault(c)
  PROVE  faults' \in Faults
BY CorridorAssumption DEF TypeOK, Fault, Faults

\* Every step keeps the state well typed.
LEMMA TypeStep == CorridorInv /\ [Next]_vars => TypeOK'
<1> SUFFICES ASSUME CorridorInv, [Next]_vars PROVE TypeOK'
  OBVIOUS
<1> USE DEF durable
<1>0. TypeOK
  BY DEF CorridorInv
<1>1. ASSUME NEW a \in Attempt, Fill(a) PROVE TypeOK'
  <2>1. order[a].filled + 1 \in Fills
    BY <1>1, <1>0, CorridorAssumption DEF CorridorInv, OrderOK, Fill, TypeOK, Fills
  <2>2. QED
    BY <1>1, <1>0, <2>1 DEF Fill, TypeOK
<1>2. ASSUME NEW a \in Attempt, Die(a) PROVE TypeOK'
  BY <1>2, <1>0 DEF Die, TypeOK
<1>3. ASSUME NEW p \in Approval, Approve(p) PROVE TypeOK'
  BY <1>3, <1>0 DEF Approve, TypeOK, Memory
<1>4. ASSUME NEW w \in Worker, Step(w) PROVE TypeOK'
  <2> USE <1>0
  <2> DEFINE a == me[w].attempt
  <2>1. ASSUME NEW s \in Strategy, Begin(w, s) PROVE TypeOK'
    <3>1. [strategy |-> s, rung |-> 0] \in OrderSpec
      BY CorridorAssumption DEF OrderSpec, Rung
    <3>2. QED
      BY <2>1, <3>1, Memorize DEF Begin, Goto, TypeOK, PCs
  <2>2. CASE Deliver(w)
    <3>1. pc[w] \in Sent
      BY <2>2 DEF Deliver, Sent, Holding, Licensed, PCs
    <3>2. a \in Attempt /\ order[a].status \in {"working", "done"}
      BY <3>1, Acting DEF Records, Placed, TypeOK, Sent, Holding
    <3>3. order[a] \in [status : {"silent", "working", "done"}, filled : Fills]
      BY <3>2 DEF TypeOK
    <3>4. QED
      BY <2>2, <3>3, Memorize DEF Deliver, TypeOK, Trades
  <2>3. CASE Crash(w)
    BY <2>3, FinishType DEF Crash, TypeOK
  <2>4. CASE TurnAway(w)
    BY <2>4, FinishType DEF TurnAway, TypeOK
  <2>5. ASSUME NEW p \in Approval, Require(w, p) PROVE TypeOK'
    BY <2>5, Memorize DEF Require, Goto, TypeOK, PCs
  <2>6. ASSUME NEW b \in Attempt, Prepare(w, b) PROVE TypeOK'
    <3>1. PICK t \in Transition("NONE", "PREPARED") :
            /\ Fault(t.cost)
            /\ outbox' = [outbox EXCEPT ![b] = t.state]
            /\ binding' = [binding EXCEPT ![b] =
                 IF t.state = "NONE" THEN NoBinding
                 ELSE [spec |-> me[w].spec, approval |-> me[w].approval]]
            /\ IF t.raised THEN Finish(w)
               ELSE /\ me' = [me EXCEPT ![w].attempt = b]
                    /\ Goto(w, "prepared")
      BY <2>6 DEF Prepare
    <3>2. t.state \in {"NONE", "PREPARED"} /\ t.cost \in Nat
      BY TransitionStates DEF OutboxState, Blocking
    <3>3. me' \in [Worker -> Memory] /\ pc' \in [Worker -> PCs]
      <4>1. CASE t.raised
        BY <3>1, <4>1, FinishType
      <4>2. CASE ~t.raised
        <5>1. [me[w] EXCEPT !.attempt = b] \in Memory
          BY Memorize DEF TypeOK
        <5>2. me' = [me EXCEPT ![w] = [me[w] EXCEPT !.attempt = b]] /\ Goto(w, "prepared")
          BY <3>1, <4>2 DEF TypeOK
        <5>3. QED
          BY <5>1, <5>2 DEF Goto, TypeOK, PCs
      <4>3. QED
        BY <4>1, <4>2
    <3>4. binding' \in [Attempt -> [spec : OrderSpec \cup {None},
                                    approval : Approval \cup {None}]]
      <4>1. me[w] \in Memory
        BY DEF TypeOK
      <4>2. QED
        BY <3>1, <4>1 DEF TypeOK, NoBinding, Memory
    <3>5. outbox' \in [Attempt -> OutboxState] /\ faults' \in Faults
      BY <3>1, <3>2, FaultType DEF TypeOK, OutboxState, Blocking
    <3>6. QED
      BY <2>6, <3>3, <3>4, <3>5 DEF Prepare, TypeOK
  <2>7. CASE Reserve(w)
    <3>1. a \in Attempt
      BY <2>7, Acting DEF Reserve, Holding, PCs
    <3>2. QED
      BY <2>7, <3>1 DEF Reserve, Goto, TypeOK, PCs
  <2>8. CASE ReserveRefused(w)
    <3>1. PICK t \in Transition("PREPARED", "ABORTED") :
            Fault(t.cost) /\ outbox' = [outbox EXCEPT ![a] = t.state]
      BY <2>8 DEF ReserveRefused
    <3>2. t.state \in OutboxState /\ t.cost \in Nat
      BY TransitionStates DEF OutboxState, Blocking, Terminal
    <3>3. QED
      BY <2>8, <3>1, <3>2, FaultType, FinishType DEF ReserveRefused, TypeOK
  <2>9. CASE Consume(w)
    <3>1. me[w].approval \in Approval
      BY <2>9, Acting DEF Consume, Recalls
    <3>2. QED
      BY <2>9, <3>1 DEF Consume, Goto, TypeOK, PCs
  <2>10. CASE ConsumeRefused(w)
    <3>1. me[w].approval \in Approval
      BY <2>10, Acting DEF ConsumeRefused, Recalls
    <3>2. PICK q \in Quarantine("PREPARED", IF me[w].approval \in spent THEN 0 ELSE 1) :
            Fault(q.cost) /\ outbox' = [outbox EXCEPT ![a] = q.state]
      BY <2>10 DEF ConsumeRefused
    <3>3. q.state \in OutboxState /\ q.cost \in Nat
      BY QuarantineStates DEF OutboxState, Blocking
    <3>4. QED
      BY <2>10, <3>1, <3>2, <3>3, FaultType, FinishType DEF ConsumeRefused, TypeOK
  <2>11. CASE ApprovalConsumed(w)
    <3>1. PICK t \in TransitionOrQuarantine("PREPARED", "APPROVAL_CONSUMED") :
            /\ Fault(t.cost)
            /\ outbox' = [outbox EXCEPT ![a] = t.state]
            /\ IF t.raised THEN Finish(w) ELSE Goto(w, "licensed") /\ UNCHANGED me
      BY <2>11 DEF ApprovalConsumed
    <3>2. t.state \in OutboxState /\ t.cost \in Nat
      BY TransitionOrQuarantineStates DEF OutboxState, Blocking
    <3>3. me' \in [Worker -> Memory] /\ pc' \in [Worker -> PCs]
      BY <3>1, FinishType DEF Goto, TypeOK, PCs
    <3>4. QED
      BY <2>11, <3>1, <3>2, <3>3, FaultType DEF ApprovalConsumed, TypeOK
  <2>12. CASE RecordSubmission(w)
    <3>1. [book EXCEPT ![Strat(w)] = Submitted] \in [Strategy -> Position]
      <4>1. Submitted \in Position
        BY CorridorAssumption DEF Submitted, Position, Fills
      <4>2. QED
        BY <4>1 DEF TypeOK, Position
    <3>2. QED
      BY <2>12, <3>1, FaultType, FinishType DEF RecordSubmission, Goto, TypeOK, PCs, Position
  <2>13. CASE LeaseLost(w)
    BY <2>13, Acting, SendFailedType DEF LeaseLost, TypeOK, Position
  <2>14. CASE SendIntent(w)
    <3>1. PICK t \in Transition("APPROVAL_CONSUMED", "SEND_INTENT") :
            /\ Fault(t.cost)
            /\ outbox' = [outbox EXCEPT ![a] = t.state]
            /\ IF t.raised THEN SendFailed(w, book[Strat(w)])
               ELSE Goto(w, "intended") /\ UNCHANGED <<me, book>>
      BY <2>14 DEF SendIntent
    <3>2. t.state \in OutboxState /\ t.cost \in Nat
      BY TransitionStates DEF OutboxState, Blocking
    <3>3. /\ me' \in [Worker -> Memory] /\ pc' \in [Worker -> PCs]
          /\ book' \in [Strategy -> Position]
      <4>1. book[Strat(w)] \in Position
        BY <2>14, Acting DEF SendIntent, Position
      <4>2. CASE t.raised
        BY <3>1, <4>1, <4>2, SendFailedType
      <4>3. CASE ~t.raised
        BY <3>1, <4>3 DEF Goto, TypeOK, PCs, Position
      <4>4. QED
        BY <4>2, <4>3
    <3>4. QED
      BY <2>14, <3>1, <3>2, <3>3, FaultType DEF SendIntent, TypeOK, Position
  <2>15. CASE PlaceOrder(w)
    <3>1. \A s \in {"silent", "working"} : [status |-> s, filled |-> 0] \in Trades
      BY CorridorAssumption DEF Trades, Fills
    <3>2. me' \in [Worker -> Memory]
      <4>1. PICK s \in {"silent", "working"} :
              me' = [me EXCEPT ![w] = [me[w] EXCEPT !.trade = [status |-> s, filled |-> 0]]]
        BY <2>15 DEF PlaceOrder, TypeOK
      <4>2. [me[w] EXCEPT !.trade = [status |-> s, filled |-> 0]] \in Memory
        BY <3>1, Memorize DEF TypeOK
      <4>3. QED
        BY <4>1, <4>2 DEF TypeOK
    <3>3. order' \in [Attempt -> [status : {"none", "working", "done"}, filled : Fills]]
      <4>1. order[a] \in [status : {"none", "working", "done"}, filled : Fills] /\ a \in Attempt
        BY <2>15, Acting DEF PlaceOrder, TypeOK, Holding, PCs
      <4>2. [order[a] EXCEPT !.status = "working"]
              \in [status : {"none", "working", "done"}, filled : Fills]
        BY <4>1
      <4>3. order' = [order EXCEPT ![a].status = "working"]
        BY <2>15 DEF PlaceOrder
      <4>4. QED
        BY <4>1, <4>2, <4>3 DEF TypeOK
    <3>4. pc' \in [Worker -> PCs]
      BY <2>15 DEF PlaceOrder, Goto, TypeOK, PCs
    <3>5. QED
      BY <2>15, <3>2, <3>3, <3>4 DEF PlaceOrder, durable, TypeOK
  <2>16. CASE PlaceOrderRaises(w)
    <3>1. PICK q \in Quarantine("SEND_INTENT", 1) :
            Fault(q.cost) /\ outbox' = [outbox EXCEPT ![a] = q.state]
      BY <2>16 DEF PlaceOrderRaises
    <3>2. q.state \in OutboxState /\ q.cost \in Nat
      BY QuarantineStates DEF OutboxState, Blocking
    <3>3. book[Strat(w)] \in Position
      BY <2>16, Acting DEF PlaceOrderRaises, Position
    <3>4. /\ me' \in [Worker -> Memory] /\ pc' \in [Worker -> PCs]
          /\ book' \in [Strategy -> Position]
      BY <2>16, <3>3, SendFailedType DEF PlaceOrderRaises
    <3>5. order' \in [Attempt -> [status : {"none", "working", "done"}, filled : Fills]]
      <4>1. order[a] \in [status : {"none", "working", "done"}, filled : Fills] /\ a \in Attempt
        BY <2>16, Acting DEF PlaceOrderRaises, TypeOK, Holding, PCs
      <4>2. [order[a] EXCEPT !.status = "working"]
              \in [status : {"none", "working", "done"}, filled : Fills]
        BY <4>1
      <4>3. order' \in {order, [order EXCEPT ![a].status = "working"]}
        BY <2>16 DEF PlaceOrderRaises
      <4>4. QED
        BY <4>1, <4>2, <4>3 DEF TypeOK
    <3>6. outbox' \in [Attempt -> OutboxState] /\ faults' \in Faults
      BY <3>1, <3>2, FaultType DEF TypeOK
    <3>7. QED
      BY <2>16, <3>4, <3>5, <3>6 DEF PlaceOrderRaises, TypeOK, Position
  <2>17. CASE CommitSlot(w)
    <3>1. outbox[a] \in OutboxState
      BY <2>17, Acting DEF CommitSlot, Holding, PCs
    <3>2. outbox' \in [Attempt -> OutboxState] /\ faults' \in Faults
      <4>1. CASE UNCHANGED <<outbox, faults>>
        BY <4>1 DEF TypeOK
      <4>2. ASSUME NEW q \in Quarantine(outbox[a], 1), Fault(q.cost),
                   outbox' = [outbox EXCEPT ![a] = q.state]
            PROVE  outbox' \in [Attempt -> OutboxState] /\ faults' \in Faults
        <5>1. q.state \in OutboxState /\ q.cost \in Nat
          BY <3>1, QuarantineStates DEF OutboxState, Blocking
        <5>2. QED
          BY <4>2, <5>1, FaultType DEF TypeOK
      <4>3. QED
        BY <2>17, <4>1, <4>2 DEF CommitSlot
    <3>3. QED
      BY <2>17, <3>2 DEF CommitSlot, Goto, TypeOK, PCs
  <2>18. ASSUME NEW final \in BOOLEAN, NEW lost \in BOOLEAN, Emit(w, final, lost)
         PROVE  TypeOK'
    <3>1. PICK t \in TransitionOrQuarantine(outbox[a], "SUBMISSION_OBSERVED") :
            Fault(t.cost) /\ outbox' = [outbox EXCEPT ![a] = t.state]
      BY <2>18 DEF Emit
    <3>2. outbox[a] \in OutboxState
      BY <2>18, Acting DEF Emit, Holding, PCs
    <3>3. t.state \in OutboxState /\ t.cost \in Nat
      BY <3>2, TransitionOrQuarantineStates DEF OutboxState, Blocking, Terminal
    <3>4. me' \in [Worker -> Memory]
      BY <2>18, LookType DEF Emit
    <3>5. QED
      BY <2>18, <3>1, <3>3, <3>4, FaultType DEF Emit, Goto, TypeOK, PCs
  <2>19. ASSUME NEW final \in BOOLEAN, NEW lost \in BOOLEAN, EmitCancel(w, final, lost)
         PROVE  TypeOK'
    <3>1. me' \in [Worker -> Memory]
      BY <2>19, LookType DEF EmitCancel
    <3>2. QED
      BY <2>19, <3>1 DEF EmitCancel, Goto, TypeOK, PCs
  <2>20. CASE SinkExposure(w)
    <3>1. Exposed(book[Strat(w)], me[w].seen) \in Position
      BY <2>20, Acting, SinkType DEF SinkExposure, Position, Memory, Sights
    <3>2. QED
      BY <2>20, <3>1 DEF SinkExposure, Goto, TypeOK, PCs, Position
  <2>21. CASE SinkState(w)
    <3>1. Settled(book[Strat(w)], me[w].seen, me[w].known) \in Position
      BY <2>21, Acting, SinkType DEF SinkState, Position, Memory, Sights
    <3>2. me[w].seen.state \in Snapshot
      BY DEF TypeOK, Memory
    <3>3. QED
      BY <2>21, <3>1, <3>2, Memorize DEF SinkState, Goto, TypeOK, PCs, Position
  <2>22. CASE SinkRaises(w)
    <3>1. /\ Exposed(book[Strat(w)], me[w].seen) \in Position
          /\ Settled(book[Strat(w)], me[w].seen, me[w].known) \in Position
          /\ book[Strat(w)] \in Position
      BY <2>22, Acting, SinkType DEF SinkRaises, Position, Memory, Sights
    <3>2. /\ me' \in [Worker -> Memory] /\ pc' \in [Worker -> PCs]
          /\ book' \in [Strategy -> Position]
      <4> DEFINE old == book[Strat(w)]
                 new == IF pc[w] \in {"observed", "pulled"} THEN Exposed(old, me[w].seen)
                        ELSE Settled(old, me[w].seen, me[w].known)
      <4>1. old \in Position /\ new \in Position
        BY <3>1
      <4>2. \/ \E position \in {old, new} : SendFailed(w, position)
            \/ /\ \E position \in {old, new} : book' = [book EXCEPT ![Strat(w)] = position]
               /\ Finish(w)
        BY <2>22 DEF SinkRaises
      <4> HIDE DEF old, new
      <4>3. ASSUME NEW position \in {old, new}, SendFailed(w, position)
            PROVE  /\ me' \in [Worker -> Memory] /\ pc' \in [Worker -> PCs]
                   /\ book' \in [Strategy -> Position]
        BY <4>1, <4>3, SendFailedType
      <4>4. ASSUME NEW position \in {old, new}, book' = [book EXCEPT ![Strat(w)] = position]
            PROVE  book' \in [Strategy -> Position]
        BY <4>1, <4>4 DEF TypeOK, Position
      <4>5. QED
        BY <4>2, <4>3, <4>4, FinishType
    <3>3. faults' \in Faults
      BY <2>22, CorridorAssumption DEF SinkRaises, TypeOK, Faults
    <3>4. QED
      BY <2>22, <3>2, <3>3 DEF SinkRaises, TypeOK, Position
  <2>23. CASE Outcome(w)
    <3>1. PICK t \in TransitionOrQuarantine(outbox[a],
                 IF me[w].seen.state = "UNKNOWN" THEN "AMBIGUOUS" ELSE "OUTCOME") :
            Fault(t.cost) /\ outbox' = [outbox EXCEPT ![a] = t.state]
      BY <2>23 DEF Outcome
    <3>2. outbox[a] \in OutboxState
      BY <2>23, Acting DEF Outcome, Holding, PCs
    <3>3. t.state \in OutboxState /\ t.cost \in Nat
      BY <3>2, TransitionOrQuarantineStates DEF OutboxState, Blocking, Terminal
    <3>4. QED
      BY <2>23, <3>1, <3>3, FaultType DEF Outcome, Goto, TypeOK, PCs
  <2>24. CASE Pull(w)
    BY <2>24 DEF Pull, Goto, TypeOK, PCs
  <2>25. CASE Reprice(w)
    <3>1. [me[w].spec EXCEPT !.rung = @ + 1] \in OrderSpec
      BY <2>25, Acting, CorridorAssumption DEF Reprice, OrderSpec, Rung
    <3>2. me' = [me EXCEPT ![w] = [me[w] EXCEPT
                   !.spec = [me[w].spec EXCEPT !.rung = @ + 1],
                   !.approval = None, !.attempt = None]]
      BY <2>25 DEF Reprice, TypeOK
    <3>3. [me[w] EXCEPT !.spec = [me[w].spec EXCEPT !.rung = @ + 1],
                        !.approval = None, !.attempt = None] \in Memory
      BY <3>1, Memorize DEF TypeOK
    <3>4. me' \in [Worker -> Memory]
      BY <3>2, <3>3 DEF TypeOK
    <3>5. QED
      BY <2>25, <3>4 DEF Reprice, Goto, TypeOK, PCs
  <2>26. CASE Conclude(w)
    <3>1. book' \in [Strategy -> Position]
      BY <2>26 DEF Conclude, TypeOK, Position
    <3>2. QED
      BY <2>26, <3>1, FinishType DEF Conclude, TypeOK, Position
  <2> HIDE <1>0
  <2>27. QED
    BY <1>4, <2>1, <2>2, <2>3, <2>4, <2>5, <2>6, <2>7, <2>8, <2>9, <2>10, <2>11, <2>12,
       <2>13, <2>14, <2>15, <2>16, <2>17, <2>18, <2>19, <2>20, <2>21, <2>22, <2>23,
       <2>24, <2>25, <2>26
       DEF Step, Progress, Timeout
<1>5. CASE UNCHANGED vars
  BY <1>5, <1>0 DEF vars, TypeOK
<1>6. QED
  BY <1>1, <1>2, <1>3, <1>4, <1>5 DEF Next, Environment

-----------------------------------------------------------------------------
(* What each kind of step keeps *)

\* What a claim rests on: its approval is spent.
LEMMA ClaimIsSpent ==
  ASSUME CorridorInv, NEW a \in Attempt, Claims(a)
  PROVE  binding[a].approval \in spent
<1>1. CASE Placed(a)
  BY <1>1 DEF CorridorInv, SendIsBacked
<1>2. ASSUME NEW v \in Worker, pc[v] \in Licensed, me[v].attempt = a
      PROVE  binding[a].approval \in spent
  <2>1. pc[v] \in Holding
    BY <1>2 DEF Licensed, Holding, PCs
  <2>2. Recalls(v) /\ Records(v)
    BY DEF CorridorInv
  <2>3. me[v].approval \in spent
    BY <1>2, <2>2 DEF Records
  <2>4. binding[a] = [spec |-> me[v].spec, approval |-> me[v].approval]
    BY <1>2, <2>1, <2>2 DEF Recalls
  <2>5. QED
    BY <2>3, <2>4
<1>3. QED
  BY <1>1, <1>2 DEF Claims

\* The attempt a process works on has a record.
LEMMA HeldIsFiled ==
  ASSUME CorridorInv, NEW v \in Worker, pc[v] \in Holding
  PROVE  outbox[me[v].attempt] # "NONE"
BY DEF CorridorInv, Recalls, Records, OrderOK, Holding, Sent, Licensed, PCs

\* A step that leaves every attempt's files alone.
LEMMA QuietStep ==
  ASSUME CorridorInv, TypeOK', NEW w \in Worker,
         UNCHANGED <<answers, spent, slots, outbox, binding, order>>,
         \A v \in Worker \ {w} : me'[v] = me[v] /\ pc'[v] = pc[v],
         pc'[w] \in {"idle", "screened", "approved"},
         Recalls(w)'
  PROVE  CorridorInv'
<1>0. \A a \in Attempt : Placed(a)' <=> Placed(a)
  BY DEF Placed
<1>1. \A v \in Worker : Recalls(v)' /\ Records(v)'
  <2>1. Records(w)'
    BY DEF Records, Holding, Licensed, Sent
  <2>2. ASSUME NEW v \in Worker \ {w} PROVE Recalls(v)' /\ Records(v)'
    BY <1>0 DEF CorridorInv, Recalls, Records, Placed
  <2>3. QED
    BY <2>1, <2>2
<1>2. \A a \in Attempt : OrderOK(a)' /\ Bound(a)'
  BY DEF CorridorInv, OrderOK, Bound, Placed
<1>3. Apart'
  BY DEF CorridorInv, Apart, Holding
<1>4. SendIsBacked'
  BY DEF CorridorInv, SendIsBacked, Placed
<1>5. OneClaim'
  <2>1. \A a \in Attempt : Claims(a)' => Claims(a)
    BY <1>0 DEF Claims, Licensed
  <2>2. QED
    BY <2>1 DEF CorridorInv, OneClaim
<1>6. Explained'
  <2>1. \A a \in Attempt, p \in Approval : Witness(a, p) => Witness(a, p)'
    BY <1>0 DEF Witness
  <2>2. QED
    BY <2>1 DEF CorridorInv, Explained, TypeOK
<1>7. QED
  BY <1>1, <1>2, <1>3, <1>4, <1>5, <1>6 DEF CorridorInv

\* A step of a process on the attempt it holds.
LEMMA OwnStep ==
  ASSUME CorridorInv, TypeOK', NEW w \in Worker, pc[w] \in Holding,
         NEW a \in Attempt, a = me[w].attempt,
         UNCHANGED <<answers, binding>>,
         \A v \in Worker \ {w} : me'[v] = me[v] /\ pc'[v] = pc[v],
         \A b \in Attempt \ {a} : outbox'[b] = outbox[b] /\ order'[b] = order[b],
         spent \subseteq spent', spent' \subseteq spent \cup {me[w].approval},
         slots \subseteq slots',
         \/ pc'[w] = "idle"
         \/ /\ pc'[w] \in Holding \ {"prepared"}
            /\ me'[w].spec = me[w].spec
            /\ me'[w].approval = me[w].approval
            /\ me'[w].attempt = a,
         Records(w)', OrderOK(a)',
         Placed(a) => Placed(a)',
         Placed(a)' => me[w].approval \in spent' /\ a \in slots' /\ outbox'[a] \in SentState,
         Claims(a)' => Claims(a) \/ me[w].approval \notin spent,
         outbox[a] \in Blocking /\ pc[w] # "prepared" => Placed(a)' \/ outbox'[a] \in Blocking,
         me[w].approval \in spent' \ spent => Placed(a)' \/ outbox'[a] \in Blocking
  PROVE  CorridorInv'
<1>0. /\ TypeOK /\ Apart /\ SendIsBacked /\ OneClaim /\ Explained
      /\ \A v \in Worker : Recalls(v) /\ Records(v)
      /\ \A b \in Attempt : OrderOK(b) /\ Bound(b)
  BY DEF CorridorInv
<1>1. /\ me[w].spec \in OrderSpec /\ me[w].approval \in Approval
      /\ answers[me[w].approval] = me[w].spec
      /\ binding[a] = [spec |-> me[w].spec, approval |-> me[w].approval]
  BY <1>0 DEF Recalls, Holding
<1>2. \A b \in Attempt \ {a} : Placed(b)' <=> Placed(b)
  BY DEF Placed
<1>3. \A v \in Worker \ {w} : pc[v] \in Holding => me[v].attempt \in Attempt \ {a}
  BY <1>0 DEF Recalls, Apart
<1>4. \A v \in Worker : Recalls(v)' /\ Records(v)'
  <2>1. Recalls(w)'
    BY <1>1 DEF Recalls, Holding
  <2>2. ASSUME NEW v \in Worker \ {w} PROVE Recalls(v)'
    BY <1>0, <2>2 DEF Recalls
  <2>3. ASSUME NEW v \in Worker \ {w} PROVE Records(v)'
    <3>1. pc'[v] = pc[v] /\ me'[v] = me[v]
      OBVIOUS
    <3>2. CASE pc[v] \in Holding
      <4>1. me[v].attempt \in Attempt \ {a}
        BY <1>3, <3>2
      <4>2. /\ outbox'[me[v].attempt] = outbox[me[v].attempt]
            /\ Placed(me[v].attempt)' <=> Placed(me[v].attempt)
        BY <4>1, <3>1, <1>2 DEF Placed
      <4>3. QED
        BY <1>0, <3>1, <4>2 DEF Records, Placed
    <3>3. CASE pc[v] \notin Holding
      BY <3>1, <3>3 DEF Records, Holding, Licensed, Sent, PCs
    <3>4. QED
      BY <3>2, <3>3
  <2>4. QED
    BY <2>1, <2>2, <2>3
<1>5. \A b \in Attempt : OrderOK(b)' /\ Bound(b)'
  <2>1. \A b \in Attempt \ {a} : OrderOK(b)'
    BY <1>0 DEF OrderOK, Placed
  <2>2. \A b \in Attempt : Bound(b)'
    BY <1>0, <1>1 DEF Bound
  <2>3. QED
    BY <2>1, <2>2
<1>6. Apart'
  BY <1>0 DEF Apart, Holding
<1>7. SendIsBacked'
  <2>1. ASSUME NEW b \in Attempt \ {a}, Placed(b)'
        PROVE  /\ binding'[b].approval \in spent'
               /\ answers'[binding'[b].approval] = binding'[b].spec
               /\ b \in slots'
               /\ outbox'[b] \in SentState
    BY <2>1, <1>0, <1>2 DEF SendIsBacked, SentState
  <2>2. QED
    BY <2>1, <1>1 DEF SendIsBacked, SentState, Placed
<1>8. OneClaim'
  <2>1. \A b \in Attempt \ {a} : Claims(b)' => Claims(b)
    BY <1>2 DEF Claims, Licensed
  <2>2. ASSUME NEW b \in Attempt \ {a}, Claims(b)', Claims(a)',
               binding[b].approval = binding[a].approval
        PROVE  FALSE
    <3>1. Claims(b) /\ binding[b].approval \in spent
      BY <2>1, <2>2, ClaimIsSpent
    <3>2. Claims(a)
      BY <3>1, <2>2, <1>1
    <3>3. QED
      BY <3>1, <3>2, <2>2, <1>0 DEF OneClaim
  <2>3. QED
    BY <2>1, <2>2, <1>0 DEF OneClaim
<1>9. Explained'
  <2>1. \A b \in Attempt \ {a}, p \in Approval : Witness(b, p) => Witness(b, p)'
    BY <1>2 DEF Witness, Holding
  <2>2. \A v \in Worker : pc'[v] = "prepared" => me'[v].attempt # a
    BY <1>3 DEF Holding, PCs
  <2>3. ASSUME NEW p \in Approval, Witness(a, p) PROVE Witness(a, p)'
    <3>1. Placed(a) \/ (outbox[a] \in Blocking /\ pc[w] # "prepared")
      BY <2>3 DEF Witness
    <3>2. Placed(a)' \/ outbox'[a] \in Blocking
      BY <3>1
    <3>3. QED
      BY <3>2, <2>2, <2>3 DEF Witness
  <2>4. ASSUME NEW p \in spent' \ spent, p = me[w].approval PROVE Witness(a, p)'
    BY <2>4, <2>2, <1>1 DEF Witness
  <2>5. ASSUME NEW p \in spent' PROVE \E b \in Attempt : Witness(b, p)'
    <3>1. CASE p \in spent
      <4>1. PICK b \in Attempt : Witness(b, p)
        BY <3>1, <1>0 DEF Explained
      <4>2. Witness(b, p)'
        BY <4>1, <2>1, <2>3, <3>1, <1>0 DEF TypeOK
      <4>3. QED
        BY <4>2
    <3>2. CASE p \notin spent
      <4>1. p = me[w].approval
        BY <3>2
      <4>2. Witness(a, p)'
        BY <4>1, <3>2, <2>4, <1>1 DEF Witness
      <4>3. QED
        BY <4>2
    <3>3. QED
      BY <3>1, <3>2
  <2>6. QED
    BY <2>5 DEF Explained
<1>10. QED
  BY <1>4, <1>5, <1>6, <1>7, <1>8, <1>9 DEF CorridorInv
\* Who else is where stays as it is when a process moves on or returns.
LEMMA GotoFrame ==
  ASSUME TypeOK, NEW w \in Worker, NEW to, Goto(w, to)
  PROVE  pc'[w] = to /\ \A v \in Worker \ {w} : pc'[v] = pc[v]
BY DEF Goto, TypeOK

\* A process that returns leaves the others alone.
LEMMA FinishFrame ==
  ASSUME TypeOK, NEW w \in Worker, Finish(w)
  PROVE  /\ pc'[w] = "idle" /\ me'[w] = Idle
         /\ \A v \in Worker \ {w} : me'[v] = me[v] /\ pc'[v] = pc[v]
BY DEF Finish, Goto, TypeOK

\* A process that returns leaves the rest to its files: it has nothing of its own to
\* be accounted for.
LEMMA ReturnStep ==
  ASSUME CorridorInv, TypeOK', NEW w \in Worker, Finish(w),
         UNCHANGED <<answers, spent, slots, outbox, binding, order>>
  PROVE  CorridorInv'
<1>1. TypeOK
  BY DEF CorridorInv
<1>2. pc'[w] = "idle" /\ \A v \in Worker \ {w} : me'[v] = me[v] /\ pc'[v] = pc[v]
  BY <1>1, FinishFrame
<1>3. Recalls(w)'
  BY <1>2 DEF Recalls, Holding
<1>4. QED
  BY <1>2, <1>3, QuietStep

\* A process whose order went out moves on, or returns, with its attempt in a state
\* that says so.
LEMMA SentStep ==
  ASSUME CorridorInv, TypeOK', NEW w \in Worker, pc[w] \in Sent,
         NEW a \in Attempt, a = me[w].attempt,
         UNCHANGED <<answers, binding, order, spent, slots>>,
         \A v \in Worker \ {w} : me'[v] = me[v] /\ pc'[v] = pc[v],
         \A b \in Attempt \ {a} : outbox'[b] = outbox[b],
         outbox'[a] \in SentState,
         \/ pc'[w] = "idle"
         \/ /\ pc'[w] \in Sent
            /\ me'[w].spec = me[w].spec
            /\ me'[w].approval = me[w].approval
            /\ me'[w].attempt = a
  PROVE  CorridorInv'
<1>1. pc[w] \in Holding
  BY DEF Sent
<1>2. /\ Placed(a) /\ Placed(a)' /\ Claims(a)
      /\ a \in slots /\ OrderOK(a)
  <2>1. Placed(a)
    BY DEF CorridorInv, Records
  <2>2. QED
    BY <2>1 DEF CorridorInv, SendIsBacked, Claims, Placed
<1>3. me[w].approval \in spent
  <2>1. binding[a].approval \in spent
    BY <1>2, ClaimIsSpent
  <2>2. binding[a] = [spec |-> me[w].spec, approval |-> me[w].approval]
    BY <1>1 DEF CorridorInv, Recalls
  <2>3. QED
    BY <2>1, <2>2
<1>4. Records(w)'
  BY <1>2 DEF Records, Sent, Licensed, Holding, PCs
<1>5. OrderOK(a)'
  BY <1>2 DEF OrderOK, SentState, Placed
<1>6. pc'[w] = "idle" \/ pc'[w] \in Holding \ {"prepared"}
  BY DEF Sent
<1>7. QED
  BY <1>1, <1>2, <1>3, <1>4, <1>5, <1>6, OwnStep

\* A process that holds an approval spent, or about to be, and has not sent.
LEMMA UnsentStep ==
  ASSUME CorridorInv, TypeOK', NEW w \in Worker, pc[w] \in Holding \ Sent,
         NEW a \in Attempt, a = me[w].attempt,
         UNCHANGED <<answers, binding, order, spent, slots>>,
         \A v \in Worker \ {w} : me'[v] = me[v] /\ pc'[v] = pc[v],
         \A b \in Attempt \ {a} : outbox'[b] = outbox[b],
         outbox'[a] # "NONE",
         pc[w] # "prepared" => outbox'[a] \in Blocking,
         \/ pc'[w] = "idle"
         \/ /\ pc[w] \in Licensed
            /\ \/ pc'[w] \in {"licensed", "recorded"} /\ outbox'[a] = "APPROVAL_CONSUMED"
               \/ pc'[w] = "intended" /\ outbox'[a] = "SEND_INTENT"
            /\ me'[w].spec = me[w].spec
            /\ me'[w].approval = me[w].approval
            /\ me'[w].attempt = a
  PROVE  CorridorInv'
<1>1. /\ ~Placed(a) /\ ~Placed(a)' /\ OrderOK(a)
      /\ pc[w] \in Holding \ {"prepared"} => a \in slots
      /\ pc[w] \in Licensed => me[w].approval \in spent /\ Claims(a)
  BY DEF CorridorInv, Records, Claims, Placed
<1>2. Claims(a)' => Claims(a)
  BY <1>1 DEF Claims, Licensed
<1>3. Records(w)'
  BY <1>1 DEF Records, Sent, Licensed, Holding, PCs
<1>4. OrderOK(a)'
  BY <1>1 DEF OrderOK, Placed
<1>5. pc'[w] = "idle" \/ pc'[w] \in Holding \ {"prepared"}
  BY DEF Holding, PCs
<1>6. QED
  BY <1>1, <1>2, <1>3, <1>4, <1>5, OwnStep
\* Fills and deaths at the broker change no record.
LEMMA BrokerStep ==
  ASSUME CorridorInv, TypeOK', NEW a \in Attempt, Fill(a) \/ Die(a)
  PROVE  CorridorInv'
<1>0. TypeOK /\ OrderOK(a)
  BY DEF CorridorInv
<1>1. /\ order[a].status = "working" /\ OrderOK(a)'
      /\ order'[a].status \in {"working", "done"}
      /\ \A b \in Attempt \ {a} : order'[b] = order[b]
      /\ UNCHANGED <<durable, me, pc>>
  <2>1. CASE Fill(a)
    <3>1. /\ order[a].status = "working" /\ UNCHANGED <<durable, me, pc>>
          /\ order[a].filled + 1 <= Quantity /\ order[a].filled \in Nat
          /\ outbox[a] # "NONE"
      BY <2>1, <1>0, CorridorAssumption DEF Fill, TypeOK, OrderOK, Fills, Placed
    <3>2. order'[a] = [status |-> IF order[a].filled + 1 = Quantity
                                  THEN "done" ELSE "working",
                       filled |-> order[a].filled + 1]
      BY <2>1, <1>0 DEF Fill, TypeOK
    <3>3. OrderOK(a)'
      BY <3>1, <3>2, CorridorAssumption DEF OrderOK, durable
    <3>4. \A b \in Attempt \ {a} : order'[b] = order[b]
      BY <2>1, <1>0 DEF Fill, TypeOK
    <3>5. QED
      BY <3>1, <3>2, <3>3, <3>4
  <2>2. CASE Die(a)
    BY <2>2, <1>0 DEF Die, TypeOK, OrderOK, durable, Placed
  <2>3. QED
    BY <2>1, <2>2
<1>2. UNCHANGED <<answers, spent, slots, outbox, binding, me, pc>>
  BY <1>1 DEF durable
<1>3. \A b \in Attempt : Placed(b)' <=> Placed(b)
  BY <1>1 DEF Placed
<1>4. \A v \in Worker : Recalls(v)' /\ Records(v)'
  <2>1. ASSUME NEW v \in Worker PROVE Recalls(v)'
    BY <1>2 DEF CorridorInv, Recalls
  <2>2. ASSUME NEW v \in Worker PROVE Records(v)'
    <3>1. CASE pc[v] \in Holding
      <4>1. Placed(me[v].attempt)' <=> Placed(me[v].attempt)
        BY <3>1, <1>2, <1>3 DEF CorridorInv, Recalls, Placed
      <4>2. QED
        BY <4>1, <1>2 DEF CorridorInv, Records, Placed
    <3>2. CASE pc[v] \notin Holding
      BY <3>2, <1>2 DEF Records, Holding, Licensed, Sent, PCs
    <3>3. QED
      BY <3>1, <3>2
  <2>3. QED
    BY <2>1, <2>2
<1>5. \A b \in Attempt : OrderOK(b)' /\ Bound(b)'
  BY <1>1, <1>2 DEF CorridorInv, OrderOK, Bound, Placed
<1>6. Apart' /\ SendIsBacked'
  BY <1>2, <1>3 DEF CorridorInv, Apart, SendIsBacked
<1>7. OneClaim'
  <2>1. \A b \in Attempt : Claims(b)' <=> Claims(b)
    BY <1>2, <1>3 DEF Claims
  <2>2. QED
    BY <1>2, <2>1 DEF CorridorInv, OneClaim
<1>8. Explained'
  <2>1. \A b \in Attempt, p \in Approval : Witness(b, p) => Witness(b, p)'
    BY <1>2, <1>3 DEF Witness
  <2>2. QED
    BY <1>0, <1>2, <2>1 DEF CorridorInv, Explained, TypeOK
<1>9. QED
  BY <1>4, <1>5, <1>6, <1>7, <1>8 DEF CorridorInv

\* A new answer disturbs nothing: what was approved before had an answer already.
LEMMA ApproveStep ==
  ASSUME CorridorInv, TypeOK', NEW p \in Approval, Approve(p)
  PROVE  CorridorInv'
<1>1. /\ answers[p] = None /\ \A q \in Approval \ {p} : answers'[q] = answers[q]
      /\ UNCHANGED <<spent, slots, outbox, binding, order, me, pc>>
      /\ TypeOK
  BY DEF Approve, CorridorInv, TypeOK
<1>2. None \notin OrderSpec
  BY CorridorAssumption
<1>3. \A a \in Attempt : Placed(a)' <=> Placed(a)
  BY <1>1 DEF Placed
<1>4. \A v \in Worker : Recalls(v)' /\ Records(v)'
  <2>1. ASSUME NEW v \in Worker PROVE Recalls(v)'
    BY <1>1, <1>2 DEF CorridorInv, Recalls
  <2>2. ASSUME NEW v \in Worker PROVE Records(v)'
    BY <1>1 DEF CorridorInv, Records, Placed
  <2>3. QED
    BY <2>1, <2>2
<1>5. \A a \in Attempt : OrderOK(a)' /\ Bound(a)'
  BY <1>1 DEF CorridorInv, OrderOK, Bound, Placed
<1>6. SendIsBacked'
  <2>1. \A a \in Attempt : Placed(a) =>
          binding[a].spec \in OrderSpec /\ binding[a].approval \in Approval
    BY <1>1 DEF CorridorInv, OrderOK, Bound, SendIsBacked, TypeOK
  <2>2. QED
    BY <1>1, <1>2, <1>3, <2>1 DEF CorridorInv, SendIsBacked
<1>7. Apart' /\ OneClaim'
  <2>1. \A a \in Attempt : Claims(a)' <=> Claims(a)
    BY <1>1, <1>3 DEF Claims
  <2>2. QED
    BY <1>1, <2>1 DEF CorridorInv, Apart, OneClaim
<1>8. Explained'
  <2>1. \A a \in Attempt, q \in Approval : Witness(a, q) => Witness(a, q)'
    BY <1>1, <1>3 DEF Witness
  <2>2. QED
    BY <1>1, <2>1 DEF CorridorInv, Explained, TypeOK
<1>9. QED
  BY <1>4, <1>5, <1>6, <1>7, <1>8 DEF CorridorInv

\* A new attempt is nobody's: the record is written, or not, and the process goes on
\* with it, or returns.
LEMMA PrepareStep ==
  ASSUME CorridorInv, TypeOK', NEW w \in Worker, NEW b \in Attempt, Prepare(w, b)
  PROVE  CorridorInv'
<1>0. TypeOK /\ Apart /\ pc[w] = "approved" /\ outbox[b] = "NONE"
  BY DEF CorridorInv, Prepare
<1>1. /\ UNCHANGED <<answers, spent, slots, order>>
      /\ outbox'[b] \in {"NONE", "PREPARED"}
      /\ outbox'[b] = "PREPARED" =>
           binding'[b] = [spec |-> me[w].spec, approval |-> me[w].approval]
      /\ \A c \in Attempt \ {b} : outbox'[c] = outbox[c] /\ binding'[c] = binding[c]
      /\ \A v \in Worker \ {w} : me'[v] = me[v] /\ pc'[v] = pc[v]
      /\ \/ pc'[w] = "idle"
         \/ /\ pc'[w] = "prepared" /\ me'[w] = [me[w] EXCEPT !.attempt = b]
            /\ outbox'[b] = "PREPARED"
  <2>1. PICK t \in Transition("NONE", "PREPARED") :
            /\ outbox' = [outbox EXCEPT ![b] = t.state]
            /\ binding' = [binding EXCEPT ![b] =
                 IF t.state = "NONE" THEN NoBinding
                 ELSE [spec |-> me[w].spec, approval |-> me[w].approval]]
            /\ IF t.raised THEN Finish(w)
               ELSE /\ me' = [me EXCEPT ![w].attempt = b]
                    /\ Goto(w, "prepared")
    BY DEF Prepare
  <2>2. t.state \in {"NONE", "PREPARED"} /\ (~t.raised => t.state = "PREPARED")
    BY TransitionStates DEF OutboxState, Blocking
  <2>3. /\ outbox'[b] = t.state
        /\ outbox'[b] = "PREPARED" =>
             binding'[b] = [spec |-> me[w].spec, approval |-> me[w].approval]
        /\ \A c \in Attempt \ {b} : outbox'[c] = outbox[c] /\ binding'[c] = binding[c]
    BY <2>1, <1>0 DEF TypeOK
  <2>4. CASE t.raised
    <3>1. Finish(w)
      BY <2>1, <2>4
    <3>2. QED
      BY <2>2, <2>3, <3>1, <1>0, FinishFrame DEF Prepare
  <2>5. CASE ~t.raised
    <3>1. me' = [me EXCEPT ![w].attempt = b] /\ Goto(w, "prepared")
      BY <2>1, <2>5
    <3>2. me'[w] = [me[w] EXCEPT !.attempt = b] /\ \A v \in Worker \ {w} : me'[v] = me[v]
      BY <3>1, <1>0 DEF TypeOK
    <3>3. QED
      BY <2>2, <2>3, <2>5, <3>1, <3>2, <1>0, GotoFrame DEF Prepare
  <2>6. QED
    BY <2>4, <2>5
<1>2. /\ me[w].spec \in OrderSpec /\ me[w].approval \in Approval
      /\ answers[me[w].approval] = me[w].spec
  BY <1>0 DEF CorridorInv, Recalls
<1>3. \A v \in Worker : pc[v] \in Holding => me[v].attempt \in Attempt \ {b}
  BY <1>0, HeldIsFiled DEF CorridorInv, Recalls
<1>4. ~Placed(b) /\ \A c \in Attempt : Placed(c)' <=> Placed(c)
  BY <1>0, <1>1 DEF CorridorInv, OrderOK, Placed
<1>5. pc'[w] = "prepared" => /\ me'[w].attempt = b /\ me'[w].spec = me[w].spec
                             /\ me'[w].approval = me[w].approval
  <2>1. me[w] \in Memory
    BY <1>0 DEF TypeOK
  <2>2. QED
    BY <1>1, <2>1 DEF Memory
<1>6. \A v \in Worker : Recalls(v)' /\ Records(v)'
  <2>1. Recalls(w)'
    BY <1>1, <1>2, <1>5 DEF Recalls, Holding
  <2>2. Records(w)'
    BY <1>1, <1>4, <1>5 DEF Records, Holding, Sent, Licensed, Placed
  <2>3. ASSUME NEW v \in Worker \ {w} PROVE Recalls(v)'
    BY <1>1, <1>3 DEF CorridorInv, Recalls
  <2>4. ASSUME NEW v \in Worker \ {w} PROVE Records(v)'
    <3>1. CASE pc[v] \in Holding
      <4>1. me[v].attempt \in Attempt \ {b}
        BY <1>3, <3>1
      <4>2. /\ outbox'[me[v].attempt] = outbox[me[v].attempt]
            /\ Placed(me[v].attempt)' <=> Placed(me[v].attempt)
        BY <4>1, <1>1 DEF Placed
      <4>3. QED
        BY <4>2, <1>1 DEF CorridorInv, Records, Placed
    <3>2. CASE pc[v] \notin Holding
      BY <3>2, <1>1 DEF Records, Holding, Licensed, Sent, PCs
    <3>3. QED
      BY <3>1, <3>2
  <2>5. QED
    BY <2>1, <2>2, <2>3, <2>4
<1>7. \A c \in Attempt : OrderOK(c)' /\ Bound(c)'
  BY <1>1, <1>2, <1>4 DEF CorridorInv, OrderOK, Bound, Placed
<1>8. Apart'
  BY <1>0, <1>1, <1>3, <1>5 DEF Apart, Holding
<1>9. SendIsBacked'
  BY <1>1, <1>4 DEF CorridorInv, SendIsBacked
<1>10. OneClaim'
  <2>1. ~Claims(b)'
    BY <1>1, <1>3, <1>4 DEF Claims, Licensed, Holding, PCs
  <2>2. \A c \in Attempt \ {b} : Claims(c)' => Claims(c)
    BY <1>1, <1>4 DEF Claims, Licensed
  <2>3. QED
    BY <1>1, <2>1, <2>2 DEF CorridorInv, OneClaim
<1>11. Explained'
  <2>1. \A c \in Attempt, p \in Approval : Witness(c, p) => c # b /\ Witness(c, p)'
    BY <1>0, <1>1, <1>4, <1>5 DEF Witness, Blocking
  <2>2. QED
    BY <1>0, <1>1, <2>1 DEF CorridorInv, Explained, TypeOK
<1>12. QED
  BY <1>6, <1>7, <1>8, <1>9, <1>10, <1>11 DEF CorridorInv
\* Looking at the order leaves what the process works on alone.
LEMMA LookFrame ==
  ASSUME TypeOK, NEW w \in Worker, NEW final, NEW lost, Look(w, final, lost)
  PROVE  /\ me'[w].spec = me[w].spec /\ me'[w].approval = me[w].approval
         /\ me'[w].attempt = me[w].attempt
         /\ \A v \in Worker \ {w} : me'[v] = me[v]
<1>1. me[w] \in Memory
  BY DEF TypeOK
<1>2. /\ me'[w] = [me[w] EXCEPT !.seen = View(me[w].trade, lost), !.final = final]
      /\ \A v \in Worker \ {w} : me'[v] = me[v]
  BY DEF Look, TypeOK
<1>3. QED
  BY <1>1, <1>2 DEF Memory

\* Every step keeps the invariant.
LEMMA InvStep == CorridorInv /\ [Next]_vars => CorridorInv'
<1> SUFFICES ASSUME CorridorInv, [Next]_vars PROVE CorridorInv'
  OBVIOUS
<1>0. TypeOK /\ TypeOK'
  BY TypeStep DEF CorridorInv
<1>1. ASSUME NEW a \in Attempt, Fill(a) \/ Die(a) PROVE CorridorInv'
  BY <1>0, <1>1, BrokerStep
<1>2. ASSUME NEW p \in Approval, Approve(p) PROVE CorridorInv'
  BY <1>0, <1>2, ApproveStep
<1>3. ASSUME NEW w \in Worker, Step(w) PROVE CorridorInv'
  <2> USE <1>0
  <2> PICK a : a = me[w].attempt
    OBVIOUS
  <2>0. pc[w] # "idle" =>
          /\ me[w] \in Memory /\ Recalls(w) /\ Records(w) /\ me[w].spec \in OrderSpec
          /\ me[w].spec.rung \in Rung
          /\ pc[w] \in Holding => a \in Attempt /\ outbox[a] \in OutboxState
          /\ pc[w] \in Sent => outbox[a] \in SentState
    <3>1. pc[w] \in Sent => outbox[a] \in SentState
      BY DEF CorridorInv, Recalls, Records, SendIsBacked, SentState, Sent
    <3>2. QED
      BY <3>1, Acting
  <2>1. ASSUME NEW s \in Strategy, Begin(w, s) PROVE CorridorInv'
    <3>1. me[w] \in Memory /\ [strategy |-> s, rung |-> 0] \in OrderSpec
      BY CorridorAssumption DEF TypeOK, OrderSpec, Rung
    <3>2. me'[w].spec \in OrderSpec /\ \A v \in Worker \ {w} : me'[v] = me[v]
      BY <2>1, <3>1 DEF Begin, TypeOK, Memory
    <3>3. Recalls(w)'
      BY <2>1, <3>2, GotoFrame DEF Begin, Recalls, Holding
    <3>4. QED
      BY <2>1, <3>2, <3>3, GotoFrame, QuietStep DEF Begin, durable
  <2>2. CASE Deliver(w)
    <3>1. pc[w] \in Sent /\ pc'[w] \in Sent
      BY <2>2 DEF Deliver, Sent, Holding, Licensed, PCs
    <3>2. /\ me'[w] = [me[w] EXCEPT !.trade = order[a]]
          /\ \A v \in Worker \ {w} : me'[v] = me[v]
      BY <2>2 DEF Deliver, TypeOK
    <3>3. /\ me'[w].spec = me[w].spec /\ me'[w].approval = me[w].approval
          /\ me'[w].attempt = a
      BY <3>2, <2>0, <2>2 DEF Deliver, Memory
    <3>4. QED
      BY <2>0, <2>2, <3>1, <3>2, <3>3, SentStep DEF Deliver, durable, Sent, Holding
  <2>3. CASE Crash(w)
    BY <2>3, ReturnStep DEF Crash, durable
  <2>4. CASE TurnAway(w)
    BY <2>4, ReturnStep DEF TurnAway, durable
  <2>5. ASSUME NEW p \in Approval, Require(w, p) PROVE CorridorInv'
    <3>1. me'[w] = [me[w] EXCEPT !.approval = p] /\ \A v \in Worker \ {w} : me'[v] = me[v]
      BY <2>5 DEF Require, TypeOK
    <3>2. me'[w].spec = me[w].spec /\ me'[w].approval = p
      BY <2>0, <2>5, <3>1 DEF Require, Memory
    <3>3. Recalls(w)'
      BY <2>0, <2>5, <3>2, GotoFrame DEF Require, Recalls, Holding, durable
    <3>4. QED
      BY <2>5, <3>1, <3>3, GotoFrame, QuietStep DEF Require, durable
  <2>6. ASSUME NEW b \in Attempt, Prepare(w, b) PROVE CorridorInv'
    BY <2>6, PrepareStep
  <2>7. CASE Reserve(w)
    <3>1. pc[w] \in Holding /\ pc'[w] = "reserved" /\ ~Placed(a) /\ OrderOK(a)
      BY <2>0, <2>7, GotoFrame DEF Reserve, Holding, PCs, Records, Sent, CorridorInv
    <3>2. UNCHANGED <<answers, spent, outbox, binding, order, me>> /\ slots' = slots \cup {a}
      BY <2>7 DEF Reserve
    <3>3. Records(w)' /\ OrderOK(a)' /\ ~Placed(a)'
      BY <2>0, <2>7, <3>1, <3>2
         DEF Reserve, Records, OrderOK, Placed, Sent, Licensed, Holding, PCs
    <3>4. ~Claims(a)'
      BY <2>0, <2>7, <3>1, <3>2, <3>3, GotoFrame
         DEF Reserve, Claims, Licensed, CorridorInv, Apart, Holding, PCs
    <3>5. QED
      BY <2>0, <2>7, <3>1, <3>2, <3>3, <3>4, GotoFrame, OwnStep DEF Reserve, Holding, PCs
  <2>8. CASE ReserveRefused(w)
    <3>1. PICK t \in Transition("PREPARED", "ABORTED") : outbox' = [outbox EXCEPT ![a] = t.state]
      BY <2>8 DEF ReserveRefused
    <3>2. t.state # "NONE"
      BY TransitionStates DEF OutboxState, Blocking, Terminal
    <3>3. pc[w] = "prepared" /\ a \in Attempt
      BY <2>0, <2>8 DEF ReserveRefused, Holding, PCs
    <3>4. outbox'[a] # "NONE" /\ \A b \in Attempt \ {a} : outbox'[b] = outbox[b]
      BY <3>1, <3>2, <3>3 DEF TypeOK
    <3>5. QED
      BY <2>8, <3>3, <3>4, FinishFrame, UnsentStep
         DEF ReserveRefused, Holding, Sent, PCs
  <2>9. CASE Consume(w)
    <3>1. pc[w] \in Holding /\ pc'[w] = "consumed" /\ ~Placed(a) /\ OrderOK(a) /\ a \in slots
      BY <2>0, <2>9, GotoFrame DEF Consume, Holding, PCs, Records, Sent, CorridorInv
    <3>2. /\ UNCHANGED <<answers, slots, outbox, binding, order, me>>
          /\ spent' = spent \cup {me[w].approval} /\ me[w].approval \notin spent
          /\ outbox[a] = "PREPARED"
      BY <2>0, <2>9 DEF Consume, Records
    <3>3. Records(w)' /\ OrderOK(a)' /\ ~Placed(a)'
      BY <3>1, <3>2 DEF Records, OrderOK, Placed, Sent, Licensed, Holding, PCs
    <3>4. QED
      BY <2>0, <2>9, <3>1, <3>2, <3>3, GotoFrame, OwnStep
         DEF Consume, Holding, PCs, Blocking
  <2>10. CASE ConsumeRefused(w)
    <3>1. PICK q \in Quarantine("PREPARED", IF me[w].approval \in spent THEN 0 ELSE 1) :
            outbox' = [outbox EXCEPT ![a] = q.state]
      BY <2>10 DEF ConsumeRefused
    <3>2. q.state \in {"PREPARED", "AMBIGUOUS"}
      BY QuarantineStates DEF OutboxState, Blocking
    <3>3. /\ pc[w] = "reserved" /\ a \in Attempt /\ pc[w] \in Holding
          /\ ~Placed(a) /\ OrderOK(a)
      BY <2>0, <2>10 DEF ConsumeRefused, Holding, PCs, Records, Sent, CorridorInv
    <3>4. outbox'[a] \in Blocking /\ \A b \in Attempt \ {a} : outbox'[b] = outbox[b]
      BY <3>1, <3>2, <3>3 DEF TypeOK, Blocking
    <3>5. /\ UNCHANGED <<answers, slots, binding, order>> /\ pc'[w] = "idle"
          /\ \A v \in Worker \ {w} : me'[v] = me[v] /\ pc'[v] = pc[v]
          /\ spent \subseteq spent' /\ spent' \subseteq spent \cup {me[w].approval}
      BY <2>10, FinishFrame DEF ConsumeRefused
    <3>6. Records(w)' /\ OrderOK(a)' /\ ~Placed(a)'
      <4>1. Records(w)'
        BY <3>5 DEF Records, Sent, Licensed, Holding
      <4>2. ~Placed(a)' /\ OrderOK(a)'
        BY <3>3, <3>5 DEF OrderOK, Placed
      <4>3. QED
        BY <4>1, <4>2
    <3>7. ~Claims(a)'
      <4>1. ASSUME NEW v \in Worker, pc'[v] \in Licensed, me'[v].attempt = a PROVE FALSE
        <5>1. v # w
          BY <4>1, <3>5 DEF Licensed
        <5>2. pc[v] \in Holding /\ me[v].attempt = me[w].attempt
          BY <4>1, <5>1, <3>5 DEF Licensed, Holding, PCs
        <5>3. QED
          BY <5>1, <5>2, <3>3 DEF CorridorInv, Apart
      <4>2. QED
        BY <4>1, <3>6 DEF Claims
    <3>8. me[w].approval \in spent' \ spent => outbox'[a] \in Blocking
      BY <3>4
    <3>9. QED
      BY <3>3, <3>4, <3>5, <3>6, <3>7, <3>8, OwnStep
  <2>11. CASE ApprovalConsumed(w)
    <3>1. PICK t \in TransitionOrQuarantine("PREPARED", "APPROVAL_CONSUMED") :
            /\ outbox' = [outbox EXCEPT ![a] = t.state]
            /\ IF t.raised THEN Finish(w) ELSE Goto(w, "licensed") /\ UNCHANGED me
      BY <2>11 DEF ApprovalConsumed
    <3>2. /\ t.state \in {"PREPARED", "APPROVAL_CONSUMED", "AMBIGUOUS"}
          /\ ~t.raised => t.state = "APPROVAL_CONSUMED"
      BY TransitionOrQuarantineStates DEF OutboxState, Blocking
    <3>3. pc[w] = "consumed" /\ a \in Attempt
      BY <2>0, <2>11 DEF ApprovalConsumed, Holding, PCs
    <3>4. outbox'[a] = t.state /\ \A b \in Attempt \ {a} : outbox'[b] = outbox[b]
      BY <3>1, <3>3 DEF TypeOK
    <3>5. /\ \A v \in Worker \ {w} : me'[v] = me[v] /\ pc'[v] = pc[v]
          /\ pc'[w] = "idle" \/ (pc'[w] = "licensed" /\ me' = me /\ ~t.raised)
      BY <3>1, FinishFrame, GotoFrame
    <3>6. QED
      BY <2>11, <3>2, <3>3, <3>4, <3>5, UnsentStep
         DEF ApprovalConsumed, Holding, Sent, Licensed, PCs, Blocking
  <2>12. CASE RecordSubmission(w)
    <3>1. pc[w] = "licensed" /\ a \in Attempt /\ outbox[a] = "APPROVAL_CONSUMED"
      BY <2>0, <2>12 DEF RecordSubmission, Holding, PCs, Records
    <3>2. /\ UNCHANGED <<answers, spent, slots, outbox, binding, order>>
          /\ \A v \in Worker \ {w} : me'[v] = me[v] /\ pc'[v] = pc[v]
          /\ pc'[w] = "idle" \/ (pc'[w] = "recorded" /\ me' = me)
      BY <2>12, FinishFrame, GotoFrame DEF RecordSubmission
    <3>3. QED
      BY <3>1, <3>2, UnsentStep DEF Holding, Sent, Licensed, PCs, Blocking
  <2>13. CASE LeaseLost(w)
    BY <2>13, ReturnStep DEF LeaseLost, SendFailed
  <2>14. CASE SendIntent(w)
    <3>1. PICK t \in Transition("APPROVAL_CONSUMED", "SEND_INTENT") :
            /\ outbox' = [outbox EXCEPT ![a] = t.state]
            /\ IF t.raised THEN SendFailed(w, book[Strat(w)])
               ELSE Goto(w, "intended") /\ UNCHANGED <<me, book>>
      BY <2>14 DEF SendIntent
    <3>2. /\ t.state \in {"APPROVAL_CONSUMED", "SEND_INTENT"}
          /\ ~t.raised => t.state = "SEND_INTENT"
      BY TransitionStates DEF OutboxState, Blocking
    <3>3. pc[w] = "recorded" /\ a \in Attempt
      BY <2>0, <2>14 DEF SendIntent, Holding, PCs
    <3>4. outbox'[a] = t.state /\ \A b \in Attempt \ {a} : outbox'[b] = outbox[b]
      BY <3>1, <3>3 DEF TypeOK
    <3>5. /\ \A v \in Worker \ {w} : me'[v] = me[v] /\ pc'[v] = pc[v]
          /\ pc'[w] = "idle" \/ (pc'[w] = "intended" /\ me' = me /\ ~t.raised)
      BY <3>1, FinishFrame, GotoFrame DEF SendFailed
    <3>6. QED
      BY <2>14, <3>2, <3>3, <3>4, <3>5, UnsentStep
         DEF SendIntent, Holding, Sent, Licensed, PCs, Blocking
  <2>15. CASE PlaceOrder(w)
    <3>1. /\ pc[w] = "intended" /\ pc[w] \in Holding /\ a \in Attempt /\ a \in slots
          /\ outbox[a] = "SEND_INTENT" /\ me[w].approval \in spent
          /\ OrderOK(a) /\ ~Placed(a) /\ pc[w] \in Licensed
      BY <2>0, <2>15 DEF PlaceOrder, Records, CorridorInv, Holding, Licensed, Sent, PCs
    <3>2. UNCHANGED <<answers, spent, slots, outbox, binding>>
      BY <2>15 DEF PlaceOrder, durable
    <3>3. /\ order'[a] = [order[a] EXCEPT !.status = "working"]
          /\ \A b \in Attempt \ {a} : order'[b] = order[b]
      BY <2>15, <3>1 DEF PlaceOrder, TypeOK
    <3>4. OrderOK(a)' /\ Placed(a)'
      <4>1. order[a].status = "none" /\ order[a].filled = 0
        BY <3>1 DEF OrderOK, Placed
      <4>2. order'[a].status = "working" /\ order'[a].filled = 0
        BY <3>1, <3>3, <4>1 DEF TypeOK
      <4>3. QED
        BY <3>1, <3>2, <4>2, CorridorAssumption DEF OrderOK, Placed
    <3>5. /\ me'[w].spec = me[w].spec /\ me'[w].approval = me[w].approval
          /\ me'[w].attempt = a /\ \A v \in Worker \ {w} : me'[v] = me[v]
      <4>1. PICK s \in {"silent", "working"} :
              me' = [me EXCEPT ![w].trade = [status |-> s, filled |-> 0]]
        BY <2>15 DEF PlaceOrder
      <4>2. /\ me'[w] = [me[w] EXCEPT !.trade = [status |-> s, filled |-> 0]]
            /\ \A v \in Worker \ {w} : me'[v] = me[v]
        BY <4>1 DEF TypeOK
      <4>3. QED
        BY <2>0, <3>1, <4>2 DEF Memory
    <3>6. pc'[w] = "placed" /\ \A v \in Worker \ {w} : pc'[v] = pc[v]
      BY <2>15, GotoFrame DEF PlaceOrder
    <3>7. Records(w)'
      BY <3>1, <3>2, <3>4, <3>5, <3>6 DEF Records, Sent, Licensed, Holding, PCs
    <3>8. Claims(a) /\ pc'[w] \in Holding \ {"prepared"} /\ outbox'[a] \in SentState
      BY <3>1, <3>2, <3>6 DEF Claims, Holding, PCs, SentState
    <3>9. QED
      BY <3>1, <3>2, <3>3, <3>4, <3>5, <3>6, <3>7, <3>8, OwnStep
  <2>16. CASE PlaceOrderRaises(w)
    <3>1. /\ pc[w] = "intended" /\ pc[w] \in Holding /\ a \in Attempt /\ a \in slots
          /\ outbox[a] = "SEND_INTENT" /\ me[w].approval \in spent
          /\ OrderOK(a) /\ ~Placed(a) /\ pc[w] \in Licensed
      BY <2>0, <2>16 DEF PlaceOrderRaises, Records, CorridorInv, Holding, Licensed, Sent, PCs
    <3>2. /\ UNCHANGED <<answers, spent, slots, binding>> /\ pc'[w] = "idle"
          /\ \A v \in Worker \ {w} : me'[v] = me[v] /\ pc'[v] = pc[v]
      BY <2>16, FinishFrame DEF PlaceOrderRaises, SendFailed
    <3>3. PICK q \in Quarantine("SEND_INTENT", 1) : outbox' = [outbox EXCEPT ![a] = q.state]
      BY <2>16 DEF PlaceOrderRaises
    <3>4. q.state \in {"SEND_INTENT", "AMBIGUOUS"}
      BY QuarantineStates DEF OutboxState, Blocking
    <3>5. /\ outbox'[a] \in SentState /\ outbox'[a] \in Blocking
          /\ \A b \in Attempt \ {a} : outbox'[b] = outbox[b]
      BY <3>1, <3>3, <3>4 DEF TypeOK, SentState, Blocking
    <3>6. /\ order'[a] = order[a] \/ order'[a] = [order[a] EXCEPT !.status = "working"]
          /\ \A b \in Attempt \ {a} : order'[b] = order[b]
      BY <2>16, <3>1 DEF PlaceOrderRaises, TypeOK
    <3>7. OrderOK(a)'
      <4>1. order[a].status = "none" /\ order[a].filled = 0
        BY <3>1 DEF OrderOK, Placed
      <4>2. order'[a].status \in {"none", "working"} /\ order'[a].filled = 0
        BY <3>1, <3>6, <4>1 DEF TypeOK
      <4>3. QED
        BY <3>5, <4>2, CorridorAssumption DEF OrderOK, SentState
    <3>8. Records(w)' /\ Claims(a)
      BY <3>1, <3>2 DEF Records, Claims, Sent, Licensed, Holding
    <3>9. QED
      BY <3>1, <3>2, <3>5, <3>6, <3>7, <3>8, OwnStep
  <2>17. CASE CommitSlot(w)
    <3>1. pc[w] \in Sent /\ pc[w] \in Holding
      BY <2>17 DEF CommitSlot, Sent, Holding, Licensed, PCs
    <3>2. a \in Attempt /\ outbox[a] \in SentState /\ outbox[a] \in OutboxState
      BY <2>0, <3>1 DEF Sent, Holding
    <3>3. outbox'[a] \in SentState /\ \A b \in Attempt \ {a} : outbox'[b] = outbox[b]
      <4>1. ASSUME NEW q \in Quarantine(outbox[a], 1), outbox' = [outbox EXCEPT ![a] = q.state]
            PROVE  outbox'[a] \in SentState /\ \A b \in Attempt \ {a} : outbox'[b] = outbox[b]
        <5>1. q.state \in SentState
          BY <3>2, QuarantineStates DEF SentState
        <5>2. QED
          BY <3>2, <4>1, <5>1 DEF TypeOK
      <4>2. QED
        BY <2>17, <3>2, <4>1 DEF CommitSlot
    <3>4. /\ UNCHANGED <<answers, spent, slots, binding, order, me>>
          /\ pc'[w] = "counted" /\ \A v \in Worker \ {w} : pc'[v] = pc[v]
      BY <2>17, GotoFrame DEF CommitSlot
    <3>5. QED
      BY <3>1, <3>2, <3>3, <3>4, SentStep DEF Sent, Holding, Licensed, PCs
  <2>18. ASSUME NEW final \in BOOLEAN, NEW lost \in BOOLEAN, Emit(w, final, lost)
         PROVE  CorridorInv'
    <3>1. pc[w] \in Sent /\ pc[w] \in Holding
      BY <2>18 DEF Emit, Sent, Holding, Licensed, PCs
    <3>2. a \in Attempt /\ outbox[a] \in SentState /\ outbox[a] \in OutboxState
      BY <2>0, <3>1 DEF Sent, Holding
    <3>3. PICK t \in TransitionOrQuarantine(outbox[a], "SUBMISSION_OBSERVED") :
            outbox' = [outbox EXCEPT ![a] = t.state]
      BY <2>18 DEF Emit
    <3>4. t.state \in SentState
      BY <3>2, TransitionOrQuarantineStates DEF SentState, OutboxState, Blocking, Terminal
    <3>5. /\ me'[w].spec = me[w].spec /\ me'[w].approval = me[w].approval
          /\ me'[w].attempt = a /\ \A v \in Worker \ {w} : me'[v] = me[v]
      BY <2>0, <2>18, <3>1, LookFrame DEF Emit, Holding
    <3>6. /\ UNCHANGED <<answers, spent, slots, binding, order>>
          /\ pc'[w] = "observed" /\ \A v \in Worker \ {w} : pc'[v] = pc[v]
      BY <2>18, GotoFrame DEF Emit
    <3>7. outbox'[a] \in SentState /\ \A b \in Attempt \ {a} : outbox'[b] = outbox[b]
      BY <3>2, <3>3, <3>4 DEF TypeOK
    <3>8. QED
      BY <3>1, <3>2, <3>5, <3>6, <3>7, SentStep DEF Sent, Holding, Licensed, PCs
  <2>19. ASSUME NEW final \in BOOLEAN, NEW lost \in BOOLEAN, EmitCancel(w, final, lost)
         PROVE  CorridorInv'
    <3>1. pc[w] \in Sent /\ pc[w] \in Holding
      BY <2>19 DEF EmitCancel, Sent, Holding, Licensed, PCs
    <3>2. /\ me'[w].spec = me[w].spec /\ me'[w].approval = me[w].approval
          /\ me'[w].attempt = a /\ \A v \in Worker \ {w} : me'[v] = me[v]
      BY <2>0, <2>19, <3>1, LookFrame DEF EmitCancel, Holding
    <3>3. /\ UNCHANGED <<answers, spent, slots, outbox, binding, order>>
          /\ pc'[w] = "pulled" /\ \A v \in Worker \ {w} : pc'[v] = pc[v]
      BY <2>19, GotoFrame DEF EmitCancel, durable
    <3>4. QED
      BY <2>0, <3>1, <3>2, <3>3, SentStep DEF Sent, Holding, Licensed, PCs
  <2>20. CASE SinkExposure(w)
    <3>1. pc[w] \in Sent /\ pc'[w] \in Sent
      BY <2>20, GotoFrame DEF SinkExposure, Sent, Holding, Licensed, PCs
    <3>2. /\ UNCHANGED <<answers, spent, slots, outbox, binding, order, me>>
          /\ \A v \in Worker \ {w} : pc'[v] = pc[v]
      BY <2>20, GotoFrame DEF SinkExposure
    <3>3. QED
      BY <2>0, <3>1, <3>2, SentStep DEF Sent, Holding
  <2>21. CASE SinkState(w)
    <3>1. pc[w] \in Sent /\ pc'[w] \in Sent
      BY <2>21, GotoFrame DEF SinkState, Sent, Holding, Licensed, PCs
    <3>2. /\ UNCHANGED <<answers, spent, slots, outbox, binding, order>>
          /\ \A v \in Worker \ {w} : pc'[v] = pc[v]
      BY <2>21, GotoFrame DEF SinkState
    <3>3. /\ me'[w] = [me[w] EXCEPT !.known = me[w].seen.state]
          /\ \A v \in Worker \ {w} : me'[v] = me[v]
      BY <2>21 DEF SinkState, TypeOK
    <3>4. /\ me'[w].spec = me[w].spec /\ me'[w].approval = me[w].approval
          /\ me'[w].attempt = a
      BY <2>0, <3>1, <3>3 DEF Memory, Sent, Holding
    <3>5. QED
      BY <2>0, <3>1, <3>2, <3>3, <3>4, SentStep DEF Sent, Holding
  <2>22. CASE SinkRaises(w)
    BY <2>22, ReturnStep DEF SinkRaises, SendFailed
  <2>23. CASE Outcome(w)
    <3>1. pc[w] \in Sent /\ pc[w] \in Holding
      BY <2>23 DEF Outcome, Sent, Holding, Licensed, PCs
    <3>2. a \in Attempt /\ outbox[a] \in SentState /\ outbox[a] \in OutboxState
      BY <2>0, <3>1 DEF Sent, Holding
    <3>3. PICK t \in TransitionOrQuarantine(outbox[a],
                 IF me[w].seen.state = "UNKNOWN" THEN "AMBIGUOUS" ELSE "OUTCOME") :
            outbox' = [outbox EXCEPT ![a] = t.state]
      BY <2>23 DEF Outcome
    <3>4. t.state \in SentState
      BY <3>2, TransitionOrQuarantineStates DEF SentState, OutboxState, Blocking, Terminal
    <3>5. /\ UNCHANGED <<answers, spent, slots, binding, order, me>>
          /\ pc'[w] = "judged" /\ \A v \in Worker \ {w} : pc'[v] = pc[v]
      BY <2>23, GotoFrame DEF Outcome
    <3>6. outbox'[a] \in SentState /\ \A b \in Attempt \ {a} : outbox'[b] = outbox[b]
      BY <3>2, <3>3, <3>4 DEF TypeOK
    <3>7. QED
      BY <3>1, <3>2, <3>5, <3>6, SentStep DEF Sent, Holding, Licensed, PCs
  <2>24. CASE Pull(w)
    <3>1. pc[w] \in Sent /\ pc'[w] \in Sent
      BY <2>24, GotoFrame DEF Pull, Sent, Holding, Licensed, PCs
    <3>2. /\ UNCHANGED <<answers, spent, slots, outbox, binding, order, me>>
          /\ \A v \in Worker \ {w} : pc'[v] = pc[v]
      BY <2>24, GotoFrame DEF Pull, durable
    <3>3. QED
      BY <2>0, <3>1, <3>2, SentStep DEF Sent, Holding
  <2>25. CASE Reprice(w)
    <3>1. pc[w] = "retracted" /\ [me[w].spec EXCEPT !.rung = @ + 1] \in OrderSpec
      BY <2>0, <2>25, CorridorAssumption DEF Reprice, OrderSpec, Rung
    <3>2. /\ me'[w] = [me[w] EXCEPT !.spec = [me[w].spec EXCEPT !.rung = @ + 1],
                                    !.approval = None, !.attempt = None]
          /\ \A v \in Worker \ {w} : me'[v] = me[v]
      BY <2>25 DEF Reprice, TypeOK
    <3>3. me'[w].spec = [me[w].spec EXCEPT !.rung = @ + 1]
      BY <2>0, <3>1, <3>2 DEF Memory
    <3>4. pc'[w] = "screened" /\ \A v \in Worker \ {w} : pc'[v] = pc[v]
      BY <2>25, GotoFrame DEF Reprice
    <3>5. Recalls(w)'
      BY <3>1, <3>3, <3>4 DEF Recalls, Holding
    <3>6. QED
      BY <2>25, <3>2, <3>4, <3>5, QuietStep DEF Reprice, durable
  <2>26. CASE Conclude(w)
    BY <2>26, ReturnStep DEF Conclude
  <2> HIDE <1>0
  <2>27. QED
    BY <1>3, <2>1, <2>2, <2>3, <2>4, <2>5, <2>6, <2>7, <2>8, <2>9, <2>10, <2>11, <2>12,
       <2>13, <2>14, <2>15, <2>16, <2>17, <2>18, <2>19, <2>20, <2>21, <2>22, <2>23,
       <2>24, <2>25, <2>26
       DEF Step, Progress, Timeout
<1>4. CASE UNCHANGED vars
  <2>1. UNCHANGED <<answers, spent, slots, outbox, binding, order, me, pc>>
    BY <1>4 DEF vars
  <2>2. \A a \in Attempt : (Placed(a)' <=> Placed(a)) /\ (Claims(a)' <=> Claims(a))
    BY <2>1 DEF Placed, Claims
  <2>3. /\ \A v \in Worker : Recalls(v)' /\ Records(v)'
        /\ \A a \in Attempt : OrderOK(a)' /\ Bound(a)'
    BY <2>1 DEF CorridorInv, Recalls, Records, OrderOK, Bound, Placed
  <2>4. Apart' /\ SendIsBacked' /\ OneClaim'
    BY <2>1, <2>2 DEF CorridorInv, Apart, SendIsBacked, OneClaim
  <2>5. Explained'
    BY <2>1 DEF CorridorInv, Explained, Witness, Placed
  <2>6. QED
    BY <1>0, <2>3, <2>4, <2>5 DEF CorridorInv
<1>5. QED
  BY <1>1, <1>2, <1>3, <1>4 DEF Next, Environment
-----------------------------------------------------------------------------
(* What follows from the invariant *)

\* The invariant holds in every state the corridor can reach.
THEOREM CorridorInvariant == Spec => []CorridorInv
<1>1. QED
  BY InitInv, InvStep, PTL DEF Spec

\* Every record, order, position and memory always has its type.
THEOREM TypeCorrect == Spec => []TypeOK
<1>1. CorridorInv => TypeOK
  BY DEF CorridorInv
<1>2. QED
  BY <1>1, CorridorInvariant, PTL

\* However many processes run and wherever they raise or die, an order at the broker
\* has an answer to exactly its spec, spent, a slot, and a record that says it was sent.
THEOREM SendIsAlwaysBacked == Spec => []SendIsBacked
<1>1. CorridorInv => SendIsBacked
  BY DEF CorridorInv
<1>2. QED
  BY <1>1, CorridorInvariant, PTL

\* "An approval authorizes exactly one order", also when processes race for it.
THEOREM OneOrderPerAnswer == Spec => []OneOrderPerApproval
<1>1. CorridorInv => OneOrderPerApproval
  BY DEF CorridorInv, OneClaim, Claims, OneOrderPerApproval
<1>2. QED
  BY <1>1, CorridorInvariant, PTL

\* A spent approval always has its order at the broker or a record that blocks the next
\* opening, whatever raised or died between the two writes.
THEOREM SpentIsAlwaysExplained == Spec => []SpentIsExplained
<1>1. CorridorInv => SpentIsExplained
  BY DEF CorridorInv, Explained, Witness, SpentIsExplained
<1>2. QED
  BY <1>1, CorridorInvariant, PTL

\* A closed or quarantined attempt stays what it is.
Kept == \A b \in Attempt :
  outbox[b] \in Terminal \cup {"AMBIGUOUS"} => outbox'[b] = outbox[b]

\* A write keeps it that way if it respects its own attempt.
LEMMA KeptByWrite ==
  ASSUME TypeOK, NEW a \in Attempt, NEW new, outbox' = [outbox EXCEPT ![a] = new],
         outbox[a] \in Terminal \cup {"AMBIGUOUS"} => new = outbox[a]
  PROVE  Kept
BY DEF Kept, TypeOK

\* No step reopens a closed attempt or lifts a quarantine.
LEMMA KeptStep == CorridorInv /\ [Next]_vars => Kept
<1> SUFFICES ASSUME CorridorInv, [Next]_vars PROVE Kept
  OBVIOUS
<1>0. TypeOK
  BY DEF CorridorInv
<1>1. CASE UNCHANGED outbox
  BY <1>1 DEF Kept
<1>2. ASSUME NEW w \in Worker, NEW b \in Attempt, Prepare(w, b) PROVE Kept
  <2>1. outbox[b] = "NONE" /\ \E new : outbox' = [outbox EXCEPT ![b] = new]
    BY <1>2 DEF Prepare
  <2>2. QED
    BY <1>0, <2>1, KeptByWrite DEF Terminal
<1>3. ASSUME NEW w \in Worker, pc[w] \in {"prepared", "reserved", "consumed", "recorded",
                                          "intended"},
             \E new : outbox' = [outbox EXCEPT ![me[w].attempt] = new]
      PROVE  Kept
  <2>1. /\ me[w].attempt \in Attempt
        /\ outbox[me[w].attempt] \in {"PREPARED", "APPROVAL_CONSUMED", "SEND_INTENT"}
    BY <1>3 DEF CorridorInv, Recalls, Records, Holding, PCs
  <2>2. QED
    BY <1>0, <1>3, <2>1, KeptByWrite DEF Terminal
<1>4. ASSUME NEW w \in Worker,
             CommitSlot(w) \/ Outcome(w) \/
               \E final, lost \in BOOLEAN : Emit(w, final, lost)
      PROVE  Kept
  <2>1. me[w].attempt \in Attempt /\ outbox[me[w].attempt] \in OutboxState
    BY <1>4, Acting DEF CommitSlot, Outcome, Emit, Holding, PCs
  <2>2. \/ UNCHANGED outbox
        \/ \E q \in Quarantine(outbox[me[w].attempt], 1) :
             outbox' = [outbox EXCEPT ![me[w].attempt] = q.state]
        \/ \E to \in {"SUBMISSION_OBSERVED", "AMBIGUOUS", "OUTCOME"} :
             \E t \in TransitionOrQuarantine(outbox[me[w].attempt], to) :
               outbox' = [outbox EXCEPT ![me[w].attempt] = t.state]
    BY <1>4 DEF CommitSlot, Outcome, Emit
  <2>3. ASSUME NEW q \in Quarantine(outbox[me[w].attempt], 1),
               outbox' = [outbox EXCEPT ![me[w].attempt] = q.state]
        PROVE  Kept
    <3>1. outbox[me[w].attempt] \in Terminal \cup {"AMBIGUOUS"} =>
            q.state = outbox[me[w].attempt]
      BY <2>1, QuarantineStates
    <3>2. QED
      BY <1>0, <2>1, <2>3, <3>1, KeptByWrite
  <2>4. ASSUME NEW to \in {"SUBMISSION_OBSERVED", "AMBIGUOUS", "OUTCOME"},
               NEW t \in TransitionOrQuarantine(outbox[me[w].attempt], to),
               outbox' = [outbox EXCEPT ![me[w].attempt] = t.state]
        PROVE  Kept
    <3>1. outbox[me[w].attempt] \in Terminal \cup {"AMBIGUOUS"} =>
            t.state = outbox[me[w].attempt]
      BY <2>1, TransitionOrQuarantineStates DEF OutboxState, Blocking, Terminal
    <3>2. QED
      BY <1>0, <2>1, <2>4, <3>1, KeptByWrite
  <2>5. QED
    BY <2>2, <2>3, <2>4, <1>1
<1>5. ASSUME NEW w \in Worker, Step(w) PROVE Kept
  <2>1. \/ UNCHANGED outbox
        \/ \E b \in Attempt : Prepare(w, b)
        \/ /\ pc[w] \in {"prepared", "reserved", "consumed", "recorded", "intended"}
           /\ \E new : outbox' = [outbox EXCEPT ![me[w].attempt] = new]
        \/ CommitSlot(w) \/ Outcome(w)
        \/ \E final, lost \in BOOLEAN : Emit(w, final, lost)
    BY <1>5 DEF Step, Progress, Timeout, Begin, Deliver, Crash, TurnAway, Require,
                Reserve, ReserveRefused, Consume, ConsumeRefused, ApprovalConsumed,
                RecordSubmission, LeaseLost, SendIntent, PlaceOrder, PlaceOrderRaises,
                EmitCancel, SinkExposure, SinkState, SinkRaises, Pull, Reprice, Conclude,
                durable
  <2>2. QED
    BY <2>1, <1>1, <1>2, <1>3, <1>4
<1>6. QED
  BY <1>1, <1>5 DEF Next, Environment, Fill, Die, Approve, durable, vars

\* The only steps of a process that touch more than the outbox and the book.
LEMMA Footprint ==
  ASSUME NEW w \in Worker, Step(w)
  PROVE  \/ UNCHANGED <<answers, spent, slots, binding, order>>
         \/ \E b \in Attempt : Prepare(w, b)
         \/ Reserve(w) \/ Consume(w) \/ ConsumeRefused(w)
         \/ PlaceOrder(w) \/ PlaceOrderRaises(w)
BY DEF Step, Progress, Timeout, Begin, Deliver, Crash, TurnAway, Require, ReserveRefused,
       ApprovalConsumed, RecordSubmission, LeaseLost, SendIntent, CommitSlot, Emit,
       EmitCancel, SinkExposure, SinkState, SinkRaises, Outcome, Pull, Reprice, Conclude,
       durable

\* Markers and slots are only ever added.
LEMMA GrowStep == [Next]_vars => spent \subseteq spent' /\ slots \subseteq slots'
<1> SUFFICES ASSUME [Next]_vars PROVE spent \subseteq spent' /\ slots \subseteq slots'
  OBVIOUS
<1>1. CASE UNCHANGED <<spent, slots>>
  BY <1>1
<1>2. ASSUME NEW w \in Worker, Step(w)
      PROVE  spent \subseteq spent' /\ slots \subseteq slots'
  BY <1>1, <1>2, Footprint
     DEF Prepare, Reserve, Consume, ConsumeRefused, PlaceOrder, PlaceOrderRaises, durable
<1>3. QED
  BY <1>1, <1>2 DEF Next, Environment, Fill, Die, Approve, durable, vars

\* A quarantine is never lifted, a closed attempt never reopened, and no marker or slot
\* is taken back, however late an observation comes.
THEOREM RecordsStayFinal == Spec => RecordsAreFinal
<1>1. CorridorInv /\ [Next]_vars =>
        [ /\ \A a \in Attempt :
               outbox[a] \in Terminal \cup {"AMBIGUOUS"} => outbox'[a] = outbox[a]
          /\ spent \subseteq spent'
          /\ slots \subseteq slots' ]_vars
  BY KeptStep, GrowStep DEF Kept
<1>2. QED
  BY <1>1, CorridorInvariant, PTL DEF Spec, RecordsAreFinal

-----------------------------------------------------------------------------
(* The corridor implements the licence *)

\* The licence's state, as the corridor's files and the broker hold it.
Answered == {p \in Approval : answers[p] # None}
Sends == {<<binding[a].approval, a>> : a \in {b \in Attempt : Placed(b)}}

\* The corridor starts with no licence given.
LEMMA LicenceInit == Init => Licence!Init
BY DEF Init, Licence!Init, Placed, NoOrder

\* A step that is none of the licence's business.
LEMMA LicenceStutter ==
  ASSUME UNCHANGED <<answers, spent, slots>>,
         \A a \in Attempt : Placed(a)' <=> Placed(a),
         \A a \in Attempt : Placed(a) => binding'[a] = binding[a]
  PROVE  UNCHANGED Licence!vars
<1>1. Sends' = Sends
  BY DEF Sends
<1>2. Answered' = Answered
  BY DEF Answered
<1>3. QED
  BY <1>1, <1>2 DEF Licence!vars, Sends, Answered
\* The order of the acting process's attempt goes out.
LEMMA LicenceSend ==
  ASSUME CorridorInv, NEW w \in Worker, pc[w] = "intended",
         UNCHANGED <<answers, spent, slots, binding>>,
         order' = [order EXCEPT ![me[w].attempt].status = "working"]
  PROVE  \E p \in Approval, a \in Attempt : Licence!Send(p, a)
<1> PICK a : a = me[w].attempt
  OBVIOUS
<1>1. /\ a \in Attempt /\ ~Placed(a) /\ a \in slots /\ me[w].approval \in spent
      /\ me[w].approval \in Approval /\ pc[w] \in Licensed
      /\ binding[a] = [spec |-> me[w].spec, approval |-> me[w].approval]
      /\ TypeOK
  BY DEF CorridorInv, Recalls, Records, Holding, Sent, Licensed, PCs
<1>2. binding[a].approval \in spent /\ binding[a].approval \in Approval /\ Claims(a)
  BY <1>1 DEF Claims
<1>3. \A b \in Attempt : Placed(b)' <=> Placed(b) \/ b = a
  BY <1>1 DEF Placed, TypeOK
<1>4. Sends' = Sends \cup {<<binding[a].approval, a>>}
  BY <1>1, <1>3 DEF Sends
<1>5. \A s \in Sends : s[1] # binding[a].approval /\ s[2] # a
  <2>1. ASSUME NEW s \in Sends PROVE s[1] # binding[a].approval /\ s[2] # a
    <3>1. PICK b \in Attempt : Placed(b) /\ s = <<binding[b].approval, b>>
      BY DEF Sends
    <3>2. b # a /\ Claims(b)
      BY <1>1, <3>1 DEF Claims
    <3>3. binding[b].approval # binding[a].approval
      BY <1>1, <1>2, <3>2 DEF CorridorInv, OneClaim
    <3>4. QED
      BY <3>1, <3>2, <3>3
  <2>2. QED
    BY <2>1
<1>6. Licence!Send(binding[a].approval, a)
  BY <1>1, <1>2, <1>4, <1>5 DEF Licence!Send, Sends
<1>7. QED
  BY <1>1, <1>2, <1>6

\* The acting process spends its approval.
LEMMA LicenceConsume ==
  ASSUME CorridorInv, NEW w \in Worker, pc[w] = "reserved",
         UNCHANGED <<answers, slots, binding, order>>,
         spent' = spent \cup {me[w].approval}, me[w].approval \notin spent
  PROVE  \E p \in Approval : Licence!Consume(p)
<1>1. /\ me[w].approval \in Approval /\ answers[me[w].approval] = me[w].spec
      /\ me[w].spec \in OrderSpec
  BY DEF CorridorInv, Recalls
<1>2. answers[me[w].approval] # None
  BY <1>1, CorridorAssumption
<1>3. Licence!Consume(me[w].approval)
  BY <1>1, <1>2 DEF Licence!Consume, Placed
<1>4. QED
  BY <1>1, <1>3

\* Every step of the corridor is a step of the licence or leaves it alone.
LEMMA LicenceStep == CorridorInv /\ [Next]_vars => [Licence!Next]_(Licence!vars)
<1> SUFFICES ASSUME CorridorInv, [Next]_vars PROVE [Licence!Next]_(Licence!vars)
  OBVIOUS
<1>0. TypeOK
  BY DEF CorridorInv
<1>1. CASE UNCHANGED <<answers, spent, slots, binding, order>>
  <2>1. \A a \in Attempt : (Placed(a)' <=> Placed(a)) /\ binding'[a] = binding[a]
    BY <1>1 DEF Placed
  <2>2. QED
    BY <1>1, <2>1, LicenceStutter
<1>2. ASSUME NEW a \in Attempt, Fill(a) \/ Die(a) PROVE [Licence!Next]_(Licence!vars)
  <2>1. /\ UNCHANGED <<answers, spent, slots, binding>>
        /\ \A b \in Attempt : Placed(b)' <=> Placed(b)
    BY <1>0, <1>2 DEF Fill, Die, durable, Placed, TypeOK
  <2>2. QED
    BY <2>1, LicenceStutter
<1>3. ASSUME NEW p \in Approval, Approve(p) PROVE [Licence!Next]_(Licence!vars)
  <2>1. PICK w \in Worker : pc[w] = "screened" /\ answers' = [answers EXCEPT ![p] = me[w].spec]
    BY <1>3 DEF Approve
  <2>2. me[w].spec # None
    BY <2>1, CorridorAssumption DEF CorridorInv, Recalls
  <2>3. answers[p] = None /\ UNCHANGED <<spent, slots, binding, order>>
    BY <1>3 DEF Approve
  <2>4. Answered' = Answered \cup {p} /\ p \notin Answered
    BY <1>0, <2>1, <2>2, <2>3 DEF Answered, TypeOK
  <2>5. Sends' = Sends
    BY <2>3 DEF Sends, Placed
  <2>6. Licence!Answer(p)
    BY <2>3, <2>4, <2>5 DEF Licence!Answer, Answered, Sends
  <2>7. QED
    BY <2>6 DEF Licence!Next
<1>4. ASSUME NEW w \in Worker, Step(w) PROVE [Licence!Next]_(Licence!vars)
  <2>1. ASSUME NEW b \in Attempt, Prepare(w, b) PROVE [Licence!Next]_(Licence!vars)
    <3>1. ~Placed(b) /\ UNCHANGED <<answers, spent, slots, order>>
      BY <2>1 DEF Prepare, CorridorInv, OrderOK
    <3>2. \A c \in Attempt \ {b} : binding'[c] = binding[c]
      BY <1>0, <2>1 DEF Prepare, TypeOK
    <3>3. QED
      BY <3>1, <3>2, LicenceStutter DEF Placed
  <2>2. CASE Reserve(w)
    <3>1. /\ Cardinality(slots) < Cap /\ slots' = slots \cup {me[w].attempt}
          /\ UNCHANGED <<answers, spent, binding, order>> /\ me[w].attempt \in Attempt
      BY <2>2, Acting DEF Reserve, Holding, PCs
    <3>2. CASE me[w].attempt \in slots
      BY <3>1, <3>2, <1>1
    <3>3. CASE me[w].attempt \notin slots
      <4>1. Answered' = Answered /\ Sends' = Sends
        BY <3>1 DEF Answered, Sends, Placed
      <4>2. Licence!Take(me[w].attempt)
        <5>1. Licence!Cardinality(slots) = Cardinality(slots)
          BY DEF Licence!Cardinality, Cardinality
        <5>2. QED
          BY <3>1, <3>3, <4>1, <5>1 DEF Licence!Take, Answered, Sends
      <4>3. QED
        BY <3>1, <4>2 DEF Licence!Next
    <3>4. QED
      BY <3>2, <3>3
  <2>3. CASE Consume(w) \/ ConsumeRefused(w)
    <3>1. /\ pc[w] = "reserved" /\ UNCHANGED <<answers, slots, binding, order>>
          /\ spent' = spent \/ spent' = spent \cup {me[w].approval}
      BY <2>3 DEF Consume, ConsumeRefused
    <3>2. CASE spent' = spent
      BY <3>1, <3>2, <1>1
    <3>3. CASE spent' # spent
      <4>1. spent' = spent \cup {me[w].approval} /\ me[w].approval \notin spent
        BY <3>1, <3>3
      <4>2. QED
        BY <3>1, <4>1, LicenceConsume DEF Licence!Next
    <3>4. QED
      BY <3>2, <3>3
  <2>4. CASE PlaceOrder(w) \/ PlaceOrderRaises(w)
    <3>1. /\ pc[w] = "intended" /\ UNCHANGED <<answers, spent, slots, binding>>
          /\ \/ order' = order
             \/ order' = [order EXCEPT ![me[w].attempt].status = "working"]
      BY <2>4 DEF PlaceOrder, PlaceOrderRaises, durable
    <3>2. CASE order' = order
      BY <3>1, <3>2, <1>1
    <3>3. CASE order' = [order EXCEPT ![me[w].attempt].status = "working"]
      BY <3>1, <3>3, LicenceSend DEF Licence!Next
    <3>4. QED
      BY <3>1, <3>2, <3>3
  <2>5. QED
    BY <1>1, <1>4, <2>1, <2>2, <2>3, <2>4, Footprint
<1>5. QED
  BY <1>1, <1>2, <1>3, <1>4 DEF Next, Environment, vars

\* With all its processes, failures and rungs the corridor spends answers and slots one
\* to one with the orders it sends, and never one of them again.
THEOREM Refinement == Spec => ImplementsLicence
<1>1. QED
  BY LicenceInit, LicenceStep, CorridorInvariant, PTL DEF Spec, ImplementsLicence, Licence!Spec

-----------------------------------------------------------------------------
(* One process that works its orders up the reprice ladder: what it knows  *)
(* of its order, how stale that may be, and why no structure is ever held  *)
(* twice, no live order goes unseen and no order joins one in flight.      *)
(* This holds with one process per state directory, until the position     *)
(* store first raises under the sink: from then on LiveIsRecorded may      *)
(* fail.                                                                   *)

\* One process runs over the state directory.
OneProcess == \A v, w \in Worker : v = w

\* An order that holds or may still fill contracts.
Live(a) == Placed(a) /\ Exposure(a) > 0

\* The attempts other than the one a process works on.
Others(w) == {b \in Attempt : pc[w] \in Holding => b # me[w].attempt}

\* Nothing else that is live belongs to the structure a pass works on, and what still
\* works is a position that the book holds open.
Bare(w) ==
  pc[w] # "idle" =>
    \A b \in Others(w) : Live(b) =>
      /\ OrderOf(b) # Strat(w)
      /\ order[b].status = "working" => book[OrderOf(b)].state = "OPEN"

\* Between the second look at the outbox and the send, nothing else blocks.
Quiet(w) ==
  pc[w] \notin {"idle", "screened"} \cup Sent =>
    \A b \in Others(w) : outbox[b] \notin Blocking

\* The book has the position before the order goes out, and keeps it while the order
\* is live.
InBook(w) ==
  \/ pc[w] \in {"recorded", "intended"}
  \/ pc[w] \in Sent /\ Live(me[w].attempt)
  => book[Strat(w)].state # "NONE"

\* A Trade object lags behind the broker, but what it says of a done order is final.
Lags(w) ==
  pc[w] \in Sent /\ me[w].trade.status = "done" => order[me[w].attempt] = me[w].trade

\* So is a snapshot that says cancelled; one that says filled counts every contract.
Sees(w) ==
  pc[w] \in Sent \ {"placed", "counted"} =>
    /\ me[w].seen.state = "CANCELLED" =>
         order[me[w].attempt] = [status |-> "done", filled |-> me[w].seen.filled]
    /\ me[w].seen.state = "FILLED" => me[w].seen.filled = Quantity

\* What holds between two steps of a lone process whose store has not raised.
LadderInv ==
  /\ CorridorInv
  /\ SingleExposure
  /\ LiveIsRecorded
  /\ \A w \in Worker : Bare(w) /\ Quiet(w) /\ InBook(w) /\ Lags(w) /\ Sees(w)

-----------------------------------------------------------------------------
(* What each kind of step keeps *)

\* Live is what works or filled.
LEMMA LiveIs ==
  ASSUME CorridorInv, NEW b \in Attempt
  PROVE  /\ Live(b) <=> order[b].status = "working" \/ order[b].filled > 0
         /\ order[b].filled \in Nat
BY CorridorAssumption DEF CorridorInv, TypeOK, OrderOK, Live, Placed, Exposure, Fills

\* A process's attempt is an order of the structure it works on.
LEMMA OwnOrder ==
  ASSUME CorridorInv, NEW w \in Worker, pc[w] \in Holding
  PROVE  me[w].attempt \in Attempt /\ OrderOf(me[w].attempt) = Strat(w)
<1>1. /\ me[w].attempt \in Attempt
      /\ binding[me[w].attempt] = [spec |-> me[w].spec, approval |-> me[w].approval]
  BY DEF CorridorInv, Recalls
<1>2. QED
  BY <1>1 DEF OrderOf, Strat

\* Nothing is live at first.
LEMMA LadderInit == Init => LadderInv
<1> SUFFICES ASSUME Init PROVE LadderInv
  OBVIOUS
<1>1. CorridorInv
  BY InitInv
<1>2. \A a \in Attempt : ~Placed(a) /\ ~Live(a)
  BY DEF Init, Placed, Live, NoOrder
<1>3. \A w \in Worker : pc[w] = "idle"
  BY DEF Init
<1>4. QED
  BY <1>1, <1>2, <1>3 DEF LadderInv, SingleExposure, LiveIsRecorded, Bare, Quiet, InBook,
       Lags, Sees, Sent, Holding

\* Orders only come nearer their end, and nobody acts.
LEMMA BrokerKeeps ==
  ASSUME LadderInv, CorridorInv', UNCHANGED <<outbox, binding, book, me, pc>>,
         \A b \in Attempt : /\ Live(b)' => Live(b)
                            /\ order'[b].status = "working" => order[b].status = "working"
                            /\ order[b].status = "done" => order'[b] = order[b]
  PROVE  LadderInv'
<1>1. SingleExposure'
  BY DEF LadderInv, SingleExposure, Live, OrderOf
<1>2. LiveIsRecorded'
  BY DEF LadderInv, LiveIsRecorded, Live, OrderOf
<1>3. ASSUME NEW w \in Worker
      PROVE  Bare(w)' /\ Quiet(w)' /\ InBook(w)' /\ Lags(w)' /\ Sees(w)'
  <2>0. Bare(w) /\ Quiet(w) /\ InBook(w) /\ Lags(w) /\ Sees(w) /\ TypeOK
    BY DEF LadderInv, CorridorInv
  <2>1. Others(w)' = Others(w) /\ Others(w) \subseteq Attempt
    BY DEF Others
  <2>2. Bare(w)' /\ Quiet(w)'
    BY <2>0, <2>1 DEF Bare, Quiet, OrderOf, Strat
  <2>3. pc[w] \in Sent => me[w].attempt \in Attempt
    BY OwnOrder DEF LadderInv, Sent
  <2>4. InBook(w)'
    BY <2>0, <2>3 DEF InBook, Strat
  <2>5. Lags(w)'
    <3>1. ASSUME pc[w] \in Sent, me[w].trade.status = "done"
          PROVE  order'[me[w].attempt] = me[w].trade
      BY <2>0, <2>3, <3>1 DEF Lags
    <3>2. QED
      BY <3>1 DEF Lags
  <2>6. Sees(w)'
    <3>1. ASSUME pc[w] \in Sent \ {"placed", "counted"}, me[w].seen.state = "CANCELLED"
          PROVE  order'[me[w].attempt] = order[me[w].attempt]
      <4>1. order[me[w].attempt] = [status |-> "done", filled |-> me[w].seen.filled]
        BY <2>0, <3>1 DEF Sees
      <4>2. order[me[w].attempt].status = "done"
        BY <4>1
      <4>3. QED
        BY <2>3, <3>1, <4>2
    <3>2. QED
      BY <2>0, <3>1 DEF Sees
  <2>7. QED
    BY <2>2, <2>4, <2>5, <2>6
<1>4. QED
  BY <1>1, <1>2, <1>3 DEF LadderInv

\* A step of a process on its own attempt, outbox record and position.
LEMMA WorkKeeps ==
  ASSUME LadderInv, CorridorInv', OneProcess, NEW w \in Worker, pc[w] # "idle",
         UNCHANGED <<order, binding>>,
         \A b \in Others(w) : outbox'[b] = outbox[b],
         \A s \in Strategy \ {Strat(w)} : book'[s] = book[s],
         pc[w] \in Holding /\ Live(me[w].attempt) => book'[Strat(w)].state # "NONE",
         \/ pc'[w] = "idle"
         \/ /\ pc[w] \in Holding <=> pc'[w] \in Holding
            /\ me'[w].spec = me[w].spec /\ me'[w].attempt = me[w].attempt
            /\ Quiet(w)' /\ InBook(w)' /\ Lags(w)' /\ Sees(w)'
  PROVE  LadderInv'
<1>0. /\ CorridorInv /\ Bare(w) /\ Quiet(w) /\ LiveIsRecorded
      /\ \A v \in Worker : v = w
  BY DEF LadderInv, OneProcess
<1>1. \A b \in Attempt : Live(b)' <=> Live(b)
  BY DEF Live, Placed, Exposure
<1>2. SingleExposure'
  BY DEF LadderInv, SingleExposure, Placed, Exposure, OrderOf
<1>3. \A b \in Others(w) : Live(b) =>
        b \in Attempt /\ OrderOf(b) \in Strategy \ {Strat(w)}
  <2>1. ASSUME NEW b \in Others(w), Live(b) PROVE OrderOf(b) \in Strategy \ {Strat(w)}
    <3>1. b \in Attempt /\ OrderOf(b) # Strat(w)
      BY <1>0, <2>1 DEF Others, Bare
    <3>2. binding[b].spec \in OrderSpec
      BY <1>0, <2>1, <3>1 DEF CorridorInv, OrderOK, Bound, Live
    <3>3. QED
      BY <3>1, <3>2 DEF OrderOf, OrderSpec
  <2>2. QED
    BY <2>1 DEF Others
<1>4. LiveIsRecorded'
  <2>1. ASSUME NEW b \in Attempt, Live(b)'
        PROVE  book'[OrderOf(b)'].state # "NONE" \/ outbox'[b] \in Blocking
    <3>1. Live(b) /\ OrderOf(b)' = OrderOf(b)
      BY <1>1, <2>1 DEF OrderOf
    <3>2. CASE b \in Others(w)
      BY <1>0, <1>3, <3>1, <3>2 DEF LiveIsRecorded, Live
    <3>3. CASE b \notin Others(w)
      <4>1. pc[w] \in Holding /\ b = me[w].attempt
        BY <3>3 DEF Others
      <4>2. QED
        BY <1>0, <3>1, <4>1, OwnOrder
    <3>4. QED
      BY <3>2, <3>3
  <2>2. QED
    BY <2>1 DEF LiveIsRecorded, Live
<1>5. Bare(w)'
  <2>1. CASE pc'[w] = "idle"
    BY <2>1 DEF Bare
  <2>2. CASE pc'[w] # "idle"
    <3>1. Others(w)' = Others(w) /\ Strat(w)' = Strat(w)
      BY <2>2 DEF Others, Strat
    <3>2. ASSUME NEW b \in Others(w), Live(b)
          PROVE  /\ OrderOf(b)' # Strat(w)
                 /\ order'[b].status = "working" => book'[OrderOf(b)'].state = "OPEN"
      <4>1. OrderOf(b)' = OrderOf(b) /\ b \in Attempt
        BY DEF OrderOf, Others
      <4>2. QED
        BY <1>0, <1>3, <3>2, <4>1 DEF Bare
    <3>3. QED
      BY <1>1, <3>1, <3>2 DEF Bare, Others
  <2>3. QED
    BY <2>1, <2>2
<1>6. Quiet(w)' /\ InBook(w)' /\ Lags(w)' /\ Sees(w)'
  BY DEF Quiet, InBook, Lags, Sees, Sent, Holding
<1>7. QED
  BY <1>0, <1>2, <1>4, <1>5, <1>6 DEF LadderInv
\* The entry gate lets a pass start only when nothing blocks, nothing is half known and
\* the book holds no position of the structure: every live order is another position's,
\* open in the book.
LEMMA BeginKeeps ==
  ASSUME LadderInv, CorridorInv', OneProcess, NEW w \in Worker, NEW s \in Strategy, Begin(w, s)
  PROVE  LadderInv'
<1>0. /\ CorridorInv /\ TypeOK /\ LiveIsRecorded /\ SingleExposure
      /\ \A v \in Worker : v = w
  BY DEF LadderInv, CorridorInv, OneProcess
<1>1. /\ pc[w] = "idle" /\ Clear /\ book[s].state = "NONE"
      /\ \A t \in Strategy : book[t].state \notin {"UNCERTAIN", "OPENING"}
      /\ UNCHANGED <<outbox, binding, order, book>>
      /\ pc'[w] = "screened"
  BY <1>0, GotoFrame DEF Begin, Reconciled, durable
<1>2. Strat(w)' = s
  <2>1. me'[w] = [me[w] EXCEPT !.spec = [strategy |-> s, rung |-> 0]] /\ me[w] \in Memory
    BY <1>0 DEF Begin, TypeOK
  <2>2. me'[w].spec = [strategy |-> s, rung |-> 0]
    BY <2>1 DEF Memory
  <2>3. QED
    BY <2>2 DEF Strat
<1>3. ASSUME NEW b \in Attempt, Live(b)
      PROVE  OrderOf(b) # s /\ book[OrderOf(b)].state = "OPEN"
  <2>1. book[OrderOf(b)].state # "NONE"
    BY <1>0, <1>1, <1>3 DEF LiveIsRecorded, Live, Clear
  <2>2. OrderOf(b) \in Strategy
    BY <1>0, <1>3 DEF CorridorInv, OrderOK, Bound, Live, OrderOf, OrderSpec
  <2>3. book[OrderOf(b)].state \in {"NONE", "OPENING", "OPEN", "UNCERTAIN"}
    BY <1>0, <2>2 DEF TypeOK
  <2>4. QED
    BY <1>1, <2>1, <2>2, <2>3
<1>4. Bare(w)'
  <2>1. \A b \in Attempt : (Live(b)' <=> Live(b)) /\ OrderOf(b)' = OrderOf(b)
    BY <1>1 DEF Live, Placed, Exposure, OrderOf
  <2>2. QED
    BY <1>1, <1>2, <1>3, <2>1 DEF Bare, Others
<1>5. Quiet(w)' /\ InBook(w)' /\ Lags(w)' /\ Sees(w)'
  BY <1>1 DEF Quiet, InBook, Lags, Sees, Sent, Holding
<1>6. SingleExposure' /\ LiveIsRecorded'
  BY <1>0, <1>1 DEF SingleExposure, LiveIsRecorded, Placed, Exposure, OrderOf
<1>7. QED
  BY <1>0, <1>4, <1>5, <1>6 DEF LadderInv

\* A new attempt is not live, whether its record was written or not.
LEMMA PrepareKeeps ==
  ASSUME LadderInv, CorridorInv', OneProcess, NEW w \in Worker, NEW a \in Attempt, Prepare(w, a)
  PROVE  LadderInv'
<1>0. /\ CorridorInv /\ TypeOK /\ LiveIsRecorded /\ SingleExposure
      /\ Bare(w) /\ Quiet(w) /\ \A v \in Worker : v = w
  BY DEF LadderInv, CorridorInv, OneProcess
<1>1. /\ pc[w] = "approved" /\ outbox[a] = "NONE" /\ UNCHANGED <<order, book>>
      /\ \A b \in Attempt \ {a} : outbox'[b] = outbox[b] /\ binding'[b] = binding[b]
  BY <1>0 DEF Prepare, TypeOK
<1>2. ~Placed(a)
  BY <1>0, <1>1 DEF CorridorInv, OrderOK
<1>3. \A b \in Attempt : /\ Live(b)' <=> Live(b)
                         /\ Live(b) => b # a /\ OrderOf(b)' = OrderOf(b)
  BY <1>1, <1>2 DEF Live, Placed, Exposure, OrderOf
<1>4. SingleExposure' /\ LiveIsRecorded'
  <2>1. SingleExposure'
    BY <1>0, <1>3 DEF SingleExposure, Live
  <2>2. LiveIsRecorded'
    BY <1>0, <1>1, <1>3 DEF LiveIsRecorded, Live
  <2>3. QED
    BY <2>1, <2>2
<1>5. \/ pc'[w] = "idle"
      \/ pc'[w] = "prepared" /\ me'[w].attempt = a /\ me'[w].spec = me[w].spec
  <2>1. \/ Finish(w)
        \/ me' = [me EXCEPT ![w].attempt = a] /\ Goto(w, "prepared")
    BY DEF Prepare
  <2>2. ASSUME me' = [me EXCEPT ![w].attempt = a], Goto(w, "prepared")
        PROVE  pc'[w] = "prepared" /\ me'[w].attempt = a /\ me'[w].spec = me[w].spec
    <3>1. me'[w] = [me[w] EXCEPT !.attempt = a] /\ me[w] \in Memory
      BY <1>0, <2>2 DEF TypeOK
    <3>2. QED
      BY <1>0, <2>2, <3>1, GotoFrame DEF Memory
  <2>3. QED
    BY <1>0, <2>1, <2>2, FinishFrame
<1>6. Others(w) = Attempt
  BY <1>1 DEF Others, Holding
<1>7. Bare(w)' /\ Quiet(w)'
  <2>1. CASE pc'[w] = "idle"
    BY <2>1 DEF Bare, Quiet
  <2>2. CASE pc'[w] = "prepared"
    <3>1. Others(w)' = Attempt \ {a} /\ Strat(w)' = Strat(w)
      BY <1>5, <2>2 DEF Others, Strat, Holding, PCs
    <3>2. Bare(w)'
      BY <1>0, <1>1, <1>3, <1>6, <3>1 DEF Bare
    <3>3. Quiet(w)'
      BY <1>0, <1>1, <1>6, <3>1 DEF Quiet, Sent, Holding
    <3>4. QED
      BY <3>2, <3>3
  <2>3. QED
    BY <1>5, <2>1, <2>2
<1>8. InBook(w)' /\ Lags(w)' /\ Sees(w)'
  BY <1>5 DEF InBook, Lags, Sees, Sent, Holding, Licensed
<1>9. QED
  BY <1>0, <1>4, <1>7, <1>8 DEF LadderInv

\* The order that goes out is the only live one of its structure; the book has its
\* position, or its record blocks.
LEMMA PlaceKeeps ==
  ASSUME LadderInv, CorridorInv', OneProcess, NEW w \in Worker, pc[w] = "intended",
         NEW a \in Attempt, a = me[w].attempt, UNCHANGED binding,
         order' \in {order, [order EXCEPT ![a].status = "working"]},
         \A b \in Attempt \ {a} : outbox'[b] = outbox[b],
         \A s \in Strategy \ {Strat(w)} : book'[s] = book[s],
         \/ pc'[w] = "idle" /\ outbox'[a] \in Blocking
         \/ /\ pc'[w] = "placed" /\ book' = book
            /\ me'[w].spec = me[w].spec /\ me'[w].attempt = a
            /\ me'[w].trade.status # "done"
  PROVE  LadderInv'
<1>0. /\ CorridorInv /\ TypeOK /\ LiveIsRecorded /\ SingleExposure
      /\ Bare(w) /\ InBook(w) /\ \A v \in Worker : v = w
  BY DEF LadderInv, CorridorInv, OneProcess
<1>1. pc[w] \in Holding /\ OrderOf(a) = Strat(w) /\ Others(w) = Attempt \ {a}
  BY OwnOrder, <1>0 DEF Holding, PCs, Others
<1>2. \A b \in Attempt \ {a} : order'[b] = order[b] /\ (Live(b)' <=> Live(b))
  BY <1>0 DEF TypeOK, Live, Placed, Exposure
<1>3. \A b \in Attempt : OrderOf(b)' = OrderOf(b)
  BY DEF OrderOf
<1>4. \A b \in Attempt \ {a} : Live(b) =>
        /\ OrderOf(b) \in Strategy \ {Strat(w)}
        /\ order[b].status = "working" => book[OrderOf(b)].state = "OPEN"
  <2>1. ASSUME NEW b \in Attempt \ {a}, Live(b)
        PROVE  /\ OrderOf(b) \in Strategy \ {Strat(w)}
               /\ order[b].status = "working" => book[OrderOf(b)].state = "OPEN"
    <3>1. binding[b].spec \in OrderSpec
      BY <1>0, <2>1 DEF CorridorInv, OrderOK, Bound, Live
    <3>2. QED
      BY <1>0, <1>1, <2>1, <3>1 DEF Bare, OrderOf, OrderSpec
  <2>2. QED
    BY <2>1
<1>5. SingleExposure'
  <2>1. ASSUME NEW b \in Attempt, NEW c \in Attempt, Live(b)', Live(c)',
               OrderOf(b) = OrderOf(c), b # c
        PROVE  FALSE
    <3>1. CASE b = a
      BY <1>1, <1>2, <1>4, <2>1, <3>1
    <3>2. CASE c = a
      BY <1>1, <1>2, <1>4, <2>1, <3>2
    <3>3. CASE b # a /\ c # a
      BY <1>0, <1>2, <2>1, <3>3 DEF SingleExposure, Live
    <3>4. QED
      BY <3>1, <3>2, <3>3
  <2>2. QED
    BY <1>3, <2>1 DEF SingleExposure, Live
<1>6. LiveIsRecorded'
  <2>1. ASSUME NEW b \in Attempt, Live(b)'
        PROVE  book'[OrderOf(b)].state # "NONE" \/ outbox'[b] \in Blocking
    <3>1. CASE b = a
      BY <1>0, <1>1, <3>1 DEF InBook
    <3>2. CASE b # a
      BY <1>0, <1>2, <1>4, <2>1, <3>2 DEF LiveIsRecorded, Live
    <3>3. QED
      BY <3>1, <3>2
  <2>2. QED
    BY <1>3, <2>1 DEF LiveIsRecorded, Live
<1>7. Bare(w)' /\ Quiet(w)' /\ InBook(w)' /\ Lags(w)' /\ Sees(w)'
  <2>1. CASE pc'[w] = "idle"
    BY <2>1 DEF Bare, Quiet, InBook, Lags, Sees, Sent, Holding
  <2>2. CASE pc'[w] = "placed" /\ book' = book /\ me'[w].spec = me[w].spec
             /\ me'[w].attempt = a /\ me'[w].trade.status # "done"
    <3>1. Others(w)' = Attempt \ {a} /\ Strat(w)' = Strat(w)
      BY <2>2 DEF Others, Strat, Holding, PCs
    <3>2. Bare(w)'
      BY <1>2, <1>3, <1>4, <2>2, <3>1 DEF Bare
    <3>3. InBook(w)'
      BY <1>0, <2>2, <3>1 DEF InBook
    <3>4. Quiet(w)' /\ Lags(w)' /\ Sees(w)'
      BY <2>2 DEF Quiet, Lags, Sees, Sent, Holding, Licensed, PCs
    <3>5. QED
      BY <3>2, <3>3, <3>4
  <2>3. QED
    BY <2>1, <2>2
<1>8. QED
  BY <1>0, <1>5, <1>6, <1>7 DEF LadderInv

\* The predecessor of a replacement is dead and empty.
LEMMA RepriceKeeps ==
  ASSUME LadderInv, CorridorInv', OneProcess, NEW w \in Worker, Reprice(w)
  PROVE  LadderInv'
<1> PICK a : a = me[w].attempt
  OBVIOUS
<1>0. /\ CorridorInv /\ TypeOK /\ LiveIsRecorded /\ SingleExposure
      /\ Bare(w) /\ Sees(w) /\ \A v \in Worker : v = w
  BY DEF LadderInv, CorridorInv, OneProcess
<1>1. /\ pc[w] = "retracted" /\ pc'[w] = "screened" /\ UNCHANGED <<order, binding, outbox, book>>
      /\ me[w].seen.state \in {"FILLED", "CANCELLED"} /\ me[w].seen.filled = 0
  BY <1>0, GotoFrame DEF Reprice, durable, TerminalSnapshot
<1>2. a \in Attempt /\ pc[w] \in Holding /\ Others(w) = Attempt \ {a}
  BY <1>0, <1>1, OwnOrder DEF Holding, PCs, Others
<1>3. ~Live(a)
  <2>1. order[a] = [status |-> "done", filled |-> 0]
    BY <1>0, <1>1, CorridorAssumption DEF Sees, Sent, Holding, Licensed, PCs
  <2>2. QED
    BY <2>1 DEF Live, Exposure
<1>4. Strat(w)' = Strat(w)
  <2>1. /\ me'[w] = [me[w] EXCEPT !.spec = [me[w].spec EXCEPT !.rung = @ + 1],
                                  !.approval = None, !.attempt = None]
        /\ me[w] \in Memory
    BY <1>0 DEF Reprice, TypeOK
  <2>2. me[w].spec \in OrderSpec
    BY <1>0, <1>1 DEF CorridorInv, Recalls
  <2>3. me'[w].spec = [me[w].spec EXCEPT !.rung = @ + 1]
    BY <2>1 DEF Memory
  <2>4. QED
    BY <2>2, <2>3 DEF OrderSpec, Strat
<1>5. \A b \in Attempt : (Live(b)' <=> Live(b)) /\ OrderOf(b)' = OrderOf(b)
  BY <1>1 DEF Live, Placed, Exposure, OrderOf
<1>6. Bare(w)'
  BY <1>0, <1>1, <1>2, <1>3, <1>4, <1>5 DEF Bare, Others
<1>7. Quiet(w)' /\ InBook(w)' /\ Lags(w)' /\ Sees(w)'
  BY <1>1 DEF Quiet, InBook, Lags, Sees, Sent, Holding
<1>8. SingleExposure' /\ LiveIsRecorded'
  BY <1>0, <1>1 DEF SingleExposure, LiveIsRecorded, Placed, Exposure, OrderOf
<1>9. QED
  BY <1>0, <1>6, <1>7, <1>8 DEF LadderInv

\* A step of a process that has sent nothing yet.
LEMMA UnsentKeeps ==
  ASSUME LadderInv, CorridorInv', OneProcess, NEW w \in Worker,
         pc[w] \in Holding \ Sent, UNCHANGED <<order, binding>>,
         \A b \in Attempt \ {me[w].attempt} : outbox'[b] = outbox[b],
         \A s \in Strategy \ {Strat(w)} : book'[s] = book[s],
         \/ pc'[w] = "idle"
         \/ /\ pc'[w] \in Holding \ Sent
            /\ me'[w].spec = me[w].spec /\ me'[w].attempt = me[w].attempt
            /\ pc'[w] \in {"recorded", "intended"} => book'[Strat(w)].state # "NONE"
  PROVE  LadderInv'
<1>1. /\ Quiet(w) /\ \A b \in Others(w) : b \in Attempt \ {me[w].attempt}
      /\ pc[w] # "idle"
  BY DEF LadderInv, Others, Holding
<1>2. ~Live(me[w].attempt)
  BY DEF LadderInv, CorridorInv, Records, Live
<1>3. CASE pc'[w] = "idle"
  BY <1>1, <1>2, <1>3, WorkKeeps
<1>4. CASE pc'[w] # "idle"
  <2>1. Others(w)' = Others(w) /\ Strat(w)' = Strat(w)
    BY <1>4 DEF Others, Strat
  <2>2. Quiet(w)'
    BY <1>1, <2>1 DEF Quiet, Holding
  <2>3. InBook(w)' /\ Lags(w)' /\ Sees(w)'
    BY <1>4, <2>1 DEF InBook, Lags, Sees, Sent
  <2>4. QED
    BY <1>1, <1>2, <1>4, <2>2, <2>3, WorkKeeps
<1>5. QED
  BY <1>3, <1>4

\* A step of a process whose order went out.
LEMMA SentKeeps ==
  ASSUME LadderInv, CorridorInv', OneProcess, NEW w \in Worker,
         pc[w] \in Sent, UNCHANGED <<order, binding>>,
         \A b \in Attempt \ {me[w].attempt} : outbox'[b] = outbox[b],
         \A s \in Strategy \ {Strat(w)} : book'[s] = book[s],
         Live(me[w].attempt) => book'[Strat(w)].state # "NONE",
         \/ pc'[w] = "idle"
         \/ /\ pc'[w] \in Sent
            /\ me'[w].spec = me[w].spec /\ me'[w].attempt = me[w].attempt
            /\ Lags(w)' /\ Sees(w)'
  PROVE  LadderInv'
<1>1. /\ \A b \in Others(w) : b \in Attempt \ {me[w].attempt}
      /\ pc[w] # "idle" /\ pc[w] \in Holding
  BY DEF Others, Sent, Holding
<1>2. CASE pc'[w] = "idle"
  BY <1>1, <1>2, WorkKeeps
<1>3. CASE pc'[w] # "idle"
  <2>1. Strat(w)' = Strat(w) /\ (Live(me[w].attempt)' <=> Live(me[w].attempt))
    BY <1>3 DEF Strat, Live, Placed, Exposure
  <2>2. Quiet(w)' /\ InBook(w)'
    <3>1. Quiet(w)'
      BY <1>3 DEF Quiet
    <3>2. pc'[w] \notin {"recorded", "intended"}
      BY <1>3 DEF Sent, Licensed
    <3>3. InBook(w)'
      BY <1>3, <2>1, <3>2 DEF InBook
    <3>4. QED
      BY <3>1, <3>3
  <2>3. pc'[w] \in Holding
    BY <1>3 DEF Sent
  <2>4. QED
    BY <1>1, <1>3, <2>2, <2>3, WorkKeeps
<1>4. QED
  BY <1>2, <1>3

\* What a failed send does to the book concerns its own strategy.
LEMMA OwnPosition ==
  ASSUME TypeOK, NEW s \in Strategy, NEW p, book' = [book EXCEPT ![s] = p]
  PROVE  book'[s] = p /\ \A t \in Strategy \ {s} : book'[t] = book[t]
BY DEF TypeOK

\* A process that returns without a word leaves what it had.
LEMMA QuitKeeps ==
  ASSUME LadderInv, CorridorInv', OneProcess, NEW w \in Worker, pc[w] # "idle",
         Finish(w), UNCHANGED <<order, binding, outbox, book>>
  PROVE  LadderInv'
<1>1. pc'[w] = "idle"
  BY FinishFrame DEF LadderInv, CorridorInv
<1>2. pc[w] \in Holding /\ Live(me[w].attempt) => book[Strat(w)].state # "NONE"
  BY DEF LadderInv, CorridorInv, InBook, Records, Live
<1>3. QED
  BY <1>1, <1>2, WorkKeeps

\* What a process sees of its order when it looks.
LEMMA LookSees ==
  ASSUME LadderInv, NEW w \in Worker, NEW final, NEW lost \in BOOLEAN, pc[w] \in Sent,
         Look(w, final, lost), UNCHANGED order
  PROVE  Lags(w)' /\ Sees(w)'
<1> PICK a : a = me[w].attempt
  OBVIOUS
<1>0. TypeOK /\ Lags(w) /\ me[w] \in Memory /\ me[w].trade \in Trades
  BY DEF LadderInv, CorridorInv, TypeOK, Memory, Trades
<1>1. /\ me'[w] = [me[w] EXCEPT !.seen = View(me[w].trade, lost), !.final = final]
      /\ me'[w].attempt = a
  BY <1>0, LookFrame DEF Look, TypeOK
<1>2. me'[w].trade = me[w].trade /\ me'[w].seen = View(me[w].trade, lost)
  BY <1>0, <1>1 DEF Memory
<1>3. me[w].trade.status = "done" =>
        order[a] = [status |-> "done", filled |-> me[w].trade.filled]
  BY <1>0 DEF Lags, Trades
<1>4. Lags(w)'
  BY <1>0, <1>1, <1>2 DEF Lags
<1>5. Sees(w)'
  <2>1. /\ me'[w].seen.filled = me[w].trade.filled
        /\ me'[w].seen.state = "CANCELLED" => me[w].trade.status = "done"
        /\ me'[w].seen.state = "FILLED" => me[w].trade.filled = Quantity
    BY <1>2 DEF View
  <2>2. QED
    BY <1>1, <1>3, <2>1 DEF Sees
<1>6. QED
  BY <1>4, <1>5

\* Every step of a lone process under which the store does not raise keeps the invariant.
LEMMA LadderStep ==
  ASSUME OneProcess, LadderInv, [Next]_vars, ~faults'.store
  PROVE  LadderInv'
<1>0. CorridorInv /\ TypeOK /\ CorridorInv'
  BY InvStep DEF LadderInv, CorridorInv
<1>1. ASSUME NEW a \in Attempt, Fill(a) \/ Die(a) PROVE LadderInv'
  <2>1. order[a].status = "working" /\ UNCHANGED <<outbox, binding, book, me, pc>>
    BY <1>1 DEF Fill, Die, durable
  <2>2. \A b \in Attempt \ {a} : order'[b] = order[b]
    BY <1>0, <1>1 DEF Fill, Die, TypeOK
  <2>3. \A b \in Attempt \ {a} : Live(b)' <=> Live(b)
    BY <2>2 DEF Live, Placed, Exposure
  <2>4. Live(a)
    BY <1>0, <2>1, LiveIs
  <2>5. QED
    BY <1>0, <2>1, <2>2, <2>3, <2>4, BrokerKeeps
<1>2. ASSUME UNCHANGED <<outbox, binding, book, me, pc, order>> PROVE LadderInv'
  <2>1. \A b \in Attempt : Live(b)' <=> Live(b)
    BY <1>2 DEF Live, Placed, Exposure
  <2>2. QED
    BY <1>0, <1>2, <2>1, BrokerKeeps
<1>3. ASSUME NEW w \in Worker, Step(w) PROVE LadderInv'
  <2> USE <1>0
  <2> PICK a : a = me[w].attempt
    OBVIOUS
  <2>0. /\ pc[w] # "idle" => Strat(w) \in Strategy
        /\ pc[w] \in Holding => a \in Attempt
        /\ Lags(w) /\ Sees(w) /\ InBook(w) /\ Bare(w) /\ Quiet(w)
    <3>1. pc[w] # "idle" => Strat(w) \in Strategy
      BY Acting
    <3>2. pc[w] \in Holding => a \in Attempt
      BY OwnOrder
    <3>3. QED
      BY <3>1, <3>2 DEF LadderInv
  <2>1. ASSUME NEW s \in Strategy, Begin(w, s) PROVE LadderInv'
    BY <2>1, BeginKeeps
  <2>2. CASE Deliver(w)
    <3>1. pc[w] \in Sent /\ pc[w] \in Holding
      BY <2>2 DEF Deliver, Sent, Holding, Licensed, PCs
    <3>2. me'[w] = [me[w] EXCEPT !.trade = order[a]] /\ me[w] \in Memory
      BY <2>2 DEF Deliver, TypeOK
    <3>3. /\ me'[w].spec = me[w].spec /\ me'[w].attempt = a /\ me'[w].seen = me[w].seen
          /\ me'[w].trade = order[a]
      BY <3>2 DEF Memory
    <3>4. Lags(w)' /\ Sees(w)'
      BY <2>0, <2>2, <3>3 DEF Lags, Sees, Deliver
    <3>5. QED
      BY <2>0, <2>2, <3>1, <3>3, <3>4, SentKeeps DEF Deliver, durable, InBook
  <2>3. CASE Crash(w)
    BY <2>3, QuitKeeps DEF Crash, durable
  <2>4. CASE TurnAway(w)
    BY <2>4, QuitKeeps DEF TurnAway, durable
  <2>5. ASSUME NEW p \in Approval, Require(w, p) PROVE LadderInv'
    <3>1. me'[w] = [me[w] EXCEPT !.approval = p] /\ me[w] \in Memory
      BY <2>5 DEF Require, TypeOK
    <3>2. me'[w].spec = me[w].spec /\ me'[w].attempt = a
      BY <3>1 DEF Memory
    <3>3. pc[w] = "screened" /\ pc'[w] = "approved" /\ UNCHANGED <<order, binding, outbox, book>>
      BY <2>5, GotoFrame DEF Require, durable
    <3>4. Quiet(w)'
      BY <2>5, <3>3 DEF Require, Clear, Quiet, Others
    <3>5. InBook(w)' /\ Lags(w)' /\ Sees(w)'
      BY <3>3 DEF InBook, Lags, Sees, Sent, Holding
    <3>6. QED
      BY <3>2, <3>3, <3>4, <3>5, WorkKeeps DEF Holding
  <2>6. ASSUME NEW b \in Attempt, Prepare(w, b) PROVE LadderInv'
    BY <2>6, PrepareKeeps
  <2>7. CASE Reserve(w) \/ Consume(w)
    <3>1. /\ pc[w] \in Holding \ Sent
          /\ pc'[w] \in {"reserved", "consumed"} /\ pc'[w] \in Holding \ Sent
          /\ UNCHANGED <<order, binding, outbox, book, me>>
      BY <2>7, GotoFrame DEF Reserve, Consume, Sent, Holding, Licensed, PCs
    <3>2. QED
      BY <3>1, UnsentKeeps
  <2>8. CASE ReserveRefused(w) \/ ConsumeRefused(w)
    <3>1. /\ pc[w] \in Holding \ Sent /\ pc'[w] = "idle"
          /\ UNCHANGED <<order, binding, book>>
          /\ \E new : outbox' = [outbox EXCEPT ![a] = new]
      BY <2>8, FinishFrame DEF ReserveRefused, ConsumeRefused, Sent, Holding, Licensed, PCs
    <3>2. \A b \in Attempt \ {a} : outbox'[b] = outbox[b]
      BY <3>1 DEF TypeOK
    <3>3. QED
      BY <3>1, <3>2, UnsentKeeps
  <2>9. CASE ApprovalConsumed(w)
    <3>1. /\ pc[w] \in Holding \ Sent /\ UNCHANGED <<order, binding, book>>
          /\ \E new : outbox' = [outbox EXCEPT ![a] = new]
          /\ Finish(w) \/ (Goto(w, "licensed") /\ UNCHANGED me)
      BY <2>9 DEF ApprovalConsumed, Sent, Holding, Licensed, PCs
    <3>2. \A b \in Attempt \ {a} : outbox'[b] = outbox[b]
      BY <3>1 DEF TypeOK
    <3>3. \/ pc'[w] = "idle"
          \/ pc'[w] = "licensed" /\ pc'[w] \in Holding \ Sent /\ UNCHANGED me
      BY <3>1, FinishFrame, GotoFrame DEF Sent, Holding, Licensed, PCs
    <3>4. QED
      BY <3>1, <3>2, <3>3, UnsentKeeps
  <2>10. CASE RecordSubmission(w)
    <3>1. /\ pc[w] \in Holding \ Sent /\ UNCHANGED <<order, binding, outbox>>
          /\ pc[w] # "idle"
      BY <2>10 DEF RecordSubmission, Sent, Holding, Licensed, PCs
    <3>2. \/ Finish(w) /\ (book' = book \/ book' = [book EXCEPT ![Strat(w)] = Submitted])
          \/ Goto(w, "recorded") /\ UNCHANGED me /\ book' = [book EXCEPT ![Strat(w)] = Submitted]
      BY <2>10 DEF RecordSubmission
    <3>3. \A s \in Strategy \ {Strat(w)} : book'[s] = book[s]
      BY <2>0, <3>1, <3>2, OwnPosition
    <3>4. \/ pc'[w] = "idle"
          \/ /\ pc'[w] = "recorded" /\ pc'[w] \in Holding \ Sent /\ UNCHANGED me
             /\ book'[Strat(w)].state # "NONE"
      BY <2>0, <3>1, <3>2, FinishFrame, GotoFrame, OwnPosition
         DEF Sent, Holding, Licensed, PCs, Submitted
    <3>5. QED
      BY <3>1, <3>3, <3>4, UnsentKeeps
  <2>11. CASE LeaseLost(w) \/ SendIntent(w)
    <3>1. /\ pc[w] = "recorded" /\ UNCHANGED <<order, binding>>
          /\ outbox' = outbox \/ \E new : outbox' = [outbox EXCEPT ![a] = new]
          /\ \/ SendFailed(w, book[Strat(w)])
             \/ Goto(w, "intended") /\ UNCHANGED <<me, book>>
      BY <2>11 DEF LeaseLost, SendIntent
    <3>2. pc[w] \in Holding \ Sent /\ Strat(w) \in Strategy
      BY <2>0, <3>1 DEF Sent, Holding, Licensed, PCs
    <3>3. \A b \in Attempt \ {a} : outbox'[b] = outbox[b]
      BY <3>1 DEF TypeOK
    <3>4. \A s \in Strategy \ {Strat(w)} : book'[s] = book[s]
      BY <3>1, <3>2, OwnPosition DEF SendFailed
    <3>5. \/ pc'[w] = "idle"
          \/ /\ pc'[w] = "intended" /\ pc'[w] \in Holding \ Sent /\ UNCHANGED <<me, book>>
      BY <3>1, FinishFrame, GotoFrame DEF SendFailed, Sent, Holding, Licensed, PCs
    <3>6. book[Strat(w)].state # "NONE"
      BY <2>0, <3>1 DEF InBook
    <3>7. QED
      BY <3>1, <3>2, <3>3, <3>4, <3>5, <3>6, UnsentKeeps
  <2>12. CASE PlaceOrder(w)
    <3>1. PICK s \in {"silent", "working"} :
            me' = [me EXCEPT ![w].trade = [status |-> s, filled |-> 0]]
      BY <2>12 DEF PlaceOrder
    <3>2. /\ me'[w] = [me[w] EXCEPT !.trade = [status |-> s, filled |-> 0]]
          /\ me[w] \in Memory
      BY <3>1 DEF TypeOK
    <3>3. /\ me'[w].spec = me[w].spec /\ me'[w].attempt = a
          /\ me'[w].trade = [status |-> s, filled |-> 0]
      BY <3>2 DEF Memory
    <3>4. me'[w].trade.status # "done"
      BY <3>3
    <3>5. /\ pc[w] = "intended" /\ pc'[w] = "placed" /\ a \in Attempt
          /\ UNCHANGED <<binding, outbox, book>>
          /\ order' = [order EXCEPT ![a].status = "working"]
      BY <2>0, <2>12, GotoFrame DEF PlaceOrder, durable, Holding, PCs
    <3>6. QED
      BY <3>3, <3>4, <3>5, PlaceKeeps
  <2>13. CASE PlaceOrderRaises(w)
    <3>1. PICK q \in Quarantine("SEND_INTENT", 1) : outbox' = [outbox EXCEPT ![a] = q.state]
      BY <2>13 DEF PlaceOrderRaises
    <3>2. q.state \in Blocking
      BY QuarantineStates DEF OutboxState, Blocking
    <3>3. /\ pc[w] = "intended" /\ pc[w] # "idle" /\ pc'[w] = "idle" /\ UNCHANGED binding
          /\ order' \in {order, [order EXCEPT ![a].status = "working"]}
      BY <2>13, FinishFrame DEF PlaceOrderRaises, SendFailed
    <3>4. a \in Attempt /\ Strat(w) \in Strategy
      BY <2>0, <3>3 DEF Holding, PCs
    <3>5. outbox'[a] \in Blocking /\ \A b \in Attempt \ {a} : outbox'[b] = outbox[b]
      BY <3>1, <3>2, <3>4 DEF TypeOK
    <3>6. \A s \in Strategy \ {Strat(w)} : book'[s] = book[s]
      BY <2>13, <3>4, OwnPosition DEF PlaceOrderRaises, SendFailed
    <3>7. QED
      BY <3>3, <3>4, <3>5, <3>6, PlaceKeeps
  <2>14. CASE CommitSlot(w)
    <3>1. /\ pc[w] \in Sent /\ pc[w] \in Holding /\ pc'[w] = "counted" /\ pc'[w] \in Sent
          /\ UNCHANGED <<order, binding, book, me>>
          /\ outbox' = outbox \/ \E new : outbox' = [outbox EXCEPT ![a] = new]
      BY <2>14, GotoFrame DEF CommitSlot, Sent, Holding, Licensed, PCs
    <3>2. \A b \in Attempt \ {a} : outbox'[b] = outbox[b]
      BY <3>1 DEF TypeOK
    <3>3. Lags(w)' /\ Sees(w)'
      BY <2>0, <3>1 DEF Lags, Sees
    <3>4. QED
      BY <2>0, <3>1, <3>2, <3>3, SentKeeps DEF InBook
  <2>15. ASSUME NEW final \in BOOLEAN, NEW lost \in BOOLEAN,
                Emit(w, final, lost) \/ EmitCancel(w, final, lost)
         PROVE  LadderInv'
    <3>1. /\ pc[w] \in Sent /\ pc[w] \in Holding
          /\ pc'[w] \in {"observed", "pulled"} /\ pc'[w] \in Sent
          /\ UNCHANGED <<order, binding, book>>
          /\ outbox' = outbox \/ \E new : outbox' = [outbox EXCEPT ![a] = new]
          /\ Look(w, final, lost)
      BY <2>15, GotoFrame DEF Emit, EmitCancel, durable, Sent, Holding, Licensed, PCs
    <3>2. \A b \in Attempt \ {a} : outbox'[b] = outbox[b]
      BY <3>1 DEF TypeOK
    <3>3. Lags(w)' /\ Sees(w)' /\ me'[w].spec = me[w].spec /\ me'[w].attempt = a
      BY <3>1, LookSees, LookFrame
    <3>4. QED
      BY <2>0, <3>1, <3>2, <3>3, SentKeeps DEF InBook
  <2>16. CASE SinkExposure(w)
    <3>1. /\ pc[w] \in Sent \ {"placed", "counted"} /\ pc'[w] \in Sent /\ pc[w] \in Holding
          /\ UNCHANGED <<order, binding, outbox, me>>
          /\ book' = [book EXCEPT ![Strat(w)] = Exposed(book[Strat(w)], me[w].seen)]
          /\ Strat(w) \in Strategy
      BY <2>0, <2>16, GotoFrame DEF SinkExposure, Sent, Holding, Licensed, PCs
    <3>2. /\ book'[Strat(w)] = Exposed(book[Strat(w)], me[w].seen)
          /\ \A s \in Strategy \ {Strat(w)} : book'[s] = book[s]
      BY <3>1, OwnPosition
    <3>3. book[Strat(w)].state # "NONE" => book'[Strat(w)].state # "NONE"
      BY <3>2 DEF Exposed
    <3>4. Lags(w)' /\ Sees(w)'
      BY <2>0, <3>1 DEF Lags, Sees
    <3>5. QED
      BY <2>0, <3>1, <3>2, <3>3, <3>4, SentKeeps DEF InBook
  <2>17. CASE SinkState(w)
    <3>1. /\ pc[w] \in Sent \ {"placed", "counted"} /\ pc'[w] \in Sent /\ pc[w] \in Holding
          /\ UNCHANGED <<order, binding, outbox>>
          /\ book' = [book EXCEPT ![Strat(w)] =
                        Settled(book[Strat(w)], me[w].seen, me[w].known)]
          /\ Strat(w) \in Strategy
      BY <2>0, <2>17, GotoFrame DEF SinkState, Sent, Holding, Licensed, PCs
    <3>2. /\ book'[Strat(w)] = Settled(book[Strat(w)], me[w].seen, me[w].known)
          /\ \A s \in Strategy \ {Strat(w)} : book'[s] = book[s]
      BY <3>1, OwnPosition
    <3>3. me'[w] = [me[w] EXCEPT !.known = me[w].seen.state] /\ me[w] \in Memory
      BY <2>17 DEF SinkState, TypeOK
    <3>4. /\ me'[w].spec = me[w].spec /\ me'[w].attempt = a /\ me'[w].seen = me[w].seen
          /\ me'[w].trade = me[w].trade
      BY <3>3 DEF Memory
    <3>5. Lags(w)' /\ Sees(w)'
      BY <2>0, <3>1, <3>4 DEF Lags, Sees
    <3>6. ASSUME Live(a) PROVE book'[Strat(w)].state # "NONE"
      <4>1. book[Strat(w)].state # "NONE"
        BY <2>0, <3>1, <3>6 DEF InBook
      <4>2. ~(me[w].seen.state = "CANCELLED" /\ me[w].seen.filled = 0)
        BY <2>0, <3>1, <3>6 DEF Sees, Live, Exposure
      <4>3. book[Strat(w)] \in Position
        BY <3>1 DEF TypeOK, Position
      <4>4. QED
        BY <3>2, <4>1, <4>2, <4>3 DEF Settled, Position
    <3>7. QED
      BY <3>1, <3>2, <3>4, <3>5, <3>6, SentKeeps
  <2>18. CASE SinkRaises(w)
    BY <2>18 DEF SinkRaises
  <2>19. CASE Outcome(w)
    <3>1. /\ pc[w] \in Sent \ {"placed", "counted"} /\ pc[w] \in Holding
          /\ pc'[w] = "judged" /\ pc'[w] \in Sent
          /\ UNCHANGED <<order, binding, book, me>>
      BY <2>19, GotoFrame DEF Outcome, Sent, Holding, Licensed, PCs
    <3>2. \A b \in Attempt \ {a} : outbox'[b] = outbox[b]
      BY <2>19 DEF Outcome, TypeOK
    <3>3. Lags(w)' /\ Sees(w)'
      BY <2>0, <3>1 DEF Lags, Sees
    <3>4. QED
      BY <2>0, <3>1, <3>2, <3>3, SentKeeps DEF InBook
  <2>20. CASE Pull(w)
    <3>1. /\ pc[w] \in Sent \ {"placed", "counted"} /\ pc[w] \in Holding
          /\ pc'[w] = "cancelling" /\ pc'[w] \in Sent
          /\ UNCHANGED <<order, binding, outbox, book, me>>
      BY <2>20, GotoFrame DEF Pull, durable, Sent, Holding, Licensed, PCs
    <3>2. Lags(w)' /\ Sees(w)'
      BY <2>0, <3>1 DEF Lags, Sees
    <3>3. QED
      BY <2>0, <3>1, <3>2, SentKeeps DEF InBook
  <2>21. CASE Reprice(w)
    BY <2>21, RepriceKeeps
  <2>22. CASE Conclude(w)
    <3>1. /\ pc[w] \in Sent /\ pc[w] \in Holding /\ pc'[w] = "idle"
          /\ UNCHANGED <<order, binding, outbox>> /\ Strat(w) \in Strategy
          /\ \/ book' = book
             \/ book' = [book EXCEPT ![Strat(w)].state = "UNCERTAIN"]
      BY <2>0, <2>22, FinishFrame DEF Conclude, Sent, Holding, Licensed, PCs
    <3>2. /\ \A s \in Strategy \ {Strat(w)} : book'[s] = book[s]
          /\ book[Strat(w)].state # "NONE" => book'[Strat(w)].state # "NONE"
      BY <3>1 DEF TypeOK
    <3>3. QED
      BY <2>0, <3>1, <3>2, SentKeeps DEF InBook
  <2> HIDE <1>0
  <2>23. QED
    BY <1>3, <2>1, <2>2, <2>3, <2>4, <2>5, <2>6, <2>7, <2>8, <2>9, <2>10, <2>11, <2>12,
       <2>13, <2>14, <2>15, <2>16, <2>17, <2>18, <2>19, <2>20, <2>21, <2>22
       DEF Step, Progress, Timeout
<1>4. QED
  BY <1>1, <1>2, <1>3 DEF Next, Environment, Approve, vars

-----------------------------------------------------------------------------
(* What follows for one process *)

\* What a step of a process does to the record of what has raised.
LEMMA FaultsOf ==
  ASSUME NEW w \in Worker, Step(w)
  PROVE  UNCHANGED faults \/ (\E cost : Fault(cost)) \/ faults'.store
<1>1. CASE (\E s \in Strategy : Begin(w, s)) \/ Deliver(w) \/ Crash(w) \/ TurnAway(w)
           \/ (\E p \in Approval : Require(w, p))
  BY <1>1 DEF Begin, Deliver, Crash, TurnAway, Require
<1>2. CASE Reserve(w) \/ Consume(w) \/ LeaseLost(w) \/ PlaceOrder(w) \/ SinkExposure(w)
           \/ SinkState(w) \/ Pull(w) \/ Reprice(w) \/ Conclude(w)
  BY <1>2 DEF Reserve, Consume, LeaseLost, PlaceOrder, SinkExposure, SinkState, Pull,
       Reprice, Conclude
<1>3. ASSUME NEW a \in Attempt, Prepare(w, a) PROVE \E cost : Fault(cost)
  BY <1>3 DEF Prepare
<1>4. CASE ReserveRefused(w) \/ ConsumeRefused(w) \/ ApprovalConsumed(w) \/ SendIntent(w)
           \/ PlaceOrderRaises(w) \/ Outcome(w)
  BY <1>4 DEF ReserveRefused, ConsumeRefused, ApprovalConsumed, SendIntent,
       PlaceOrderRaises, Outcome
<1>5. CASE RecordSubmission(w) \/ CommitSlot(w)
  BY <1>5 DEF RecordSubmission, CommitSlot
<1>6. ASSUME NEW final, NEW lost, Emit(w, final, lost) \/ EmitCancel(w, final, lost)
      PROVE  UNCHANGED faults \/ \E cost : Fault(cost)
  BY <1>6 DEF Emit, EmitCancel
<1>7. CASE SinkRaises(w)
  <2>1. faults' = [count |-> faults.count + 1, store |-> TRUE]
    BY <1>7 DEF SinkRaises
  <2>2. QED
    BY <2>1
<1>8. QED
  BY <1>1, <1>2, <1>3, <1>4, <1>5, <1>6, <1>7 DEF Step, Progress, Timeout

\* That the store has raised is never forgotten.
LEMMA StoreIsRemembered ==
  ASSUME TypeOK, [Next]_vars, faults.store
  PROVE  faults'.store
<1>1. ASSUME NEW cost, Fault(cost) PROVE faults'.store
  <2>1. faults' = [faults EXCEPT !.count = @ + cost] /\ faults \in Faults
    BY <1>1 DEF Fault, TypeOK
  <2>2. faults'.store = faults.store
    BY <2>1 DEF Faults
  <2>3. QED
    BY <2>2
<1>2. ASSUME NEW w \in Worker, Step(w) PROVE faults'.store
  BY <1>1, <1>2, FaultsOf
<1>3. QED
  BY <1>2 DEF Next, Environment, Approve, Fill, Die, vars

\* The invariant of one process, until the store raises.
LoneInv == CorridorInv /\ (faults.store \/ LadderInv)

\* The invariant holds in every state one process can reach.
THEOREM LadderInvariant ==
  ASSUME OneProcess
  PROVE  Spec => []LoneInv
<1>1. Init => LoneInv
  BY InitInv, LadderInit DEF LoneInv
<1>2. LoneInv /\ [Next]_vars => LoneInv'
  <2> SUFFICES ASSUME LoneInv, [Next]_vars, ~faults'.store PROVE LadderInv'
    BY InvStep DEF LoneInv
  <2>1. ~faults.store
    BY StoreIsRemembered DEF LoneInv, CorridorInv
  <2>2. LadderInv
    BY <2>1 DEF LoneInv
  <2>3. QED
    BY OneProcess, <2>2, LadderStep
<1>3. QED
  BY <1>1, <1>2, PTL DEF Spec

\* The ladder never has two orders of one structure that hold or may still fill
\* contracts, however fills race its cancels and its view of the order lags, until the
\* store raises.
THEOREM NeverDoublyExposed ==
  ASSUME OneProcess
  PROVE  Spec => []NoDoubleExposure
<1>1. LoneInv => NoDoubleExposure
  BY DEF LoneInv, LadderInv, NoDoubleExposure
<1>2. QED
  BY OneProcess, <1>1, LadderInvariant, PTL

\* A live order always has its position in the book or a record that blocks the next
\* opening, wherever the pass raised or died, but for a store that raised under the sink.
THEOREM RiskStaysVisible ==
  ASSUME OneProcess
  PROVE  Spec => []RiskIsVisible
<1>1. LoneInv => RiskIsVisible
  BY DEF LoneInv, LadderInv, RiskIsVisible
<1>2. QED
  BY OneProcess, <1>1, LadderInvariant, PTL

\* Only the process that works on an attempt places its order.
LEMMA PlacedByOwner ==
  ASSUME LadderInv, [Next]_vars, NEW a \in Attempt, ~Placed(a), Placed(a)'
  PROVE  \E w \in Worker : pc[w] = "intended" /\ me[w].attempt = a
<1>0. TypeOK /\ CorridorInv
  BY DEF LadderInv, CorridorInv
<1>1. order'[a] # order[a] /\ order[a].status = "none"
  BY DEF Placed
<1>2. ASSUME NEW b \in Attempt, Fill(b) \/ Die(b) PROVE FALSE
  <2>1. order[b].status = "working" /\ (order'[a] = order[a] \/ a = b)
    BY <1>0, <1>2 DEF Fill, Die, TypeOK
  <2>2. QED
    BY <1>1, <1>2, <2>1 DEF Fill, Die
<1>3. ASSUME NEW w \in Worker, Step(w)
      PROVE  pc[w] = "intended" /\ me[w].attempt = a
  <2>1. order' # order
    BY <1>1
  <2>2. PlaceOrder(w) \/ PlaceOrderRaises(w)
    BY <1>3, <2>1, Footprint DEF Prepare, Reserve, Consume, ConsumeRefused
  <2>3. pc[w] = "intended" /\ order' = [order EXCEPT ![me[w].attempt].status = "working"]
    BY <2>1, <2>2 DEF PlaceOrder, PlaceOrderRaises
  <2>4. QED
    BY <1>0, <1>1, <2>3 DEF TypeOK
<1>4. QED
  BY <1>1, <1>2, <1>3 DEF Next, Environment, Approve, vars

\* An order goes out only when no other attempt blocks and every other order that still
\* works is a position the book holds open.
THEOREM EverySendIsAlone ==
  ASSUME OneProcess
  PROVE  Spec => SendsAlone
<1> DEFINE Alone ==
      \A a \in Attempt :
        ~faults.store /\ ~Placed(a) /\ Placed(a)' =>
          \A b \in Attempt \ {a} :
            /\ outbox[b] \notin Blocking
            /\ order[b].status = "working" => book[OrderOf(b)].state = "OPEN"
<1>1. LoneInv /\ [Next]_vars => [Alone]_vars
  <2> SUFFICES ASSUME LadderInv, [Next]_vars, NEW a \in Attempt, ~Placed(a), Placed(a)',
                      NEW b \in Attempt \ {a}
               PROVE  /\ outbox[b] \notin Blocking
                      /\ order[b].status = "working" => book[OrderOf(b)].state = "OPEN"
    BY DEF LoneInv
  <2>1. PICK w \in Worker : pc[w] = "intended" /\ me[w].attempt = a
    BY PlacedByOwner
  <2>2. b \in Others(w) /\ Bare(w) /\ Quiet(w)
    BY <2>1 DEF Others, LadderInv
  <2>3. outbox[b] \notin Blocking
    BY <2>1, <2>2 DEF Quiet, Sent, Licensed
  <2>4. order[b].status = "working" => Live(b)
    BY LiveIs DEF LadderInv
  <2>5. QED
    BY <2>1, <2>2, <2>3, <2>4 DEF Bare
<1>2. QED
  BY OneProcess, <1>1, LadderInvariant, PTL DEF Spec, SendsAlone

=============================================================================
