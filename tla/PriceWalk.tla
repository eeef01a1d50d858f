----------------------------- MODULE PriceWalk -----------------------------
(***************************************************************************)
(* The candidate walk (walk.PriceWalk) and the ladder it climbs down       *)
(* (pricing.build_ladder): an opening credit offered in at most four       *)
(* attempts, each order cancelled and confirmed dead before the next one   *)
(* is sent, while the broker fills, rejects and cancels on its own.        *)
(* Prices are integers, in half of the smallest increment or finer.        *)
(***************************************************************************)
EXTENDS Sequences, Totals

CONSTANTS
  Ordered,          \* contracts of the intent
  Reference,        \* its credit
  Tolerance,        \* of the envelope around it
  Width,            \* between the two strikes
  ProofMinimum,     \* PROOF_MINIMUM_CREDIT
  MinimumCredit,    \* floor_for: the economic floor
  Below, Above, Boundary,   \* the tick regime of the underlying
  Books,            \* the books a re-read can return: [mid, natural]
  RiskCap,          \* the most one trade may lose
  MaximumAttempts,
  MaxFaults,        \* bound: orders the broker ends by itself, sends and sinks that raise
  None

WalkAssumption ==
  /\ {Ordered, Below, Above, MaximumAttempts} \subseteq Nat \ {0}
  /\ Below <= Above /\ Boundary % Below = 0 /\ Boundary % Above = 0
  /\ {Reference, Tolerance, Width, ProofMinimum, MinimumCredit, Boundary, RiskCap,
      MaxFaults} \subseteq Nat
  /\ Books \subseteq [mid : Nat, natural : Int]

VARIABLES
  pc,       \* where run() stands
  walk,     \* its locals
  orders,   \* what the broker knows of the orders of this walk, oldest first
  ladder,   \* the last ladder and the book it was built from
  outcome,  \* the WalkOutcome
  faults

vars == <<pc, walk, orders, ladder, outcome, faults>>

-----------------------------------------------------------------------------
(* The ladder *)

Larger(a, b) == IF a > b THEN a ELSE b
Smaller(a, b) == IF a < b THEN a ELSE b

\* envelope_for: both sides of the authorized credit, anchored once.
Envelope ==
  [minimum |-> Larger(Reference - Tolerance, ProofMinimum),
   maximum |-> IF Width > ProofMinimum
               THEN Smaller(Reference + Tolerance, Width - ProofMinimum)
               ELSE Reference + Tolerance]

InEnvelope(price) == Envelope.minimum <= price /\ price <= Envelope.maximum

\* increment_for and quantize_credit, of the price n / d.
Increment(n, d) == IF n >= Boundary * d THEN Above ELSE Below
Floored(n, d) == (n \div (d * Increment(n, d))) * Increment(n, d)
Ceiled(n) == ((n + Increment(n, 1) - 1) \div Increment(n, 1)) * Increment(n, 1)

\* Mutant of Rungs: every requested rung is sent.
RungsRepeated(start, target, ceiling) ==
  [i \in 1 .. 4 |->
     Smaller(Larger(Floored(3 * start - (i - 1) * (start - target), 3), target), ceiling)]

\* What an earlier rung offered is left out.
Keep(kept, r) == IF kept # <<>> /\ r >= kept[Len(kept)] THEN kept ELSE Append(kept, r)

\* Four fractions of the span, clamped into the band.
Rungs(start, target, ceiling) ==
  LET requested == [i \in 1 .. 4 |-> Floored(3 * start - (i - 1) * (start - target), 3)]
      clamped == [i \in 1 .. 4 |-> Smaller(Larger(requested[i], target), ceiling)]
  IN Keep(Keep(Keep(Keep(<<>>, clamped[1]), clamped[2]), clamped[3]), clamped[4])

\* build_ladder: the empty sequence stands for None.
Ladder(book) ==
  LET ceiling == Floored(Envelope.maximum, 1)
      floor == Ceiled(Larger(Envelope.minimum, MinimumCredit))
      start == Floored(Smaller(book.mid, ceiling), 1)
      wanted == Ceiled(Larger(book.natural, floor))
  IN IF book.natural > book.mid \/ floor > ceiling \/ start < floor \/ wanted > ceiling
     THEN <<>>
     ELSE Rungs(start, Smaller(wanted, start), ceiling)

\* natural_credit and midpoint_credit of the legs read again, inside the envelope.
Quoted == {book \in Books : InEnvelope(book.mid)}

\* The maximum loss at the new credit, through the gates of the entry (PolicyReverifier);
\* what else those gates can refuse is Refuse.
Verified(credit, quantity) == (Width - credit) * quantity <= RiskCap

-----------------------------------------------------------------------------
(* The broker *)

Live(o) == o.status \in {"working", "cancelling"}
NewOrder(status, recorded) ==
  [credit |-> walk.credit, quantity |-> walk.candidate, filled |-> 0, status |-> status,
   recorded |-> recorded]

BrokerFills(i) ==
  /\ Live(orders[i])
  /\ orders' = [orders EXCEPT ![i].filled = @ + 1,
                              ![i].status = IF orders[i].filled + 1 = orders[i].quantity
                                            THEN "dead" ELSE @]
  /\ UNCHANGED <<pc, walk, ladder, outcome, faults>>

BrokerCancels(i) ==
  /\ orders[i].status = "cancelling"
  /\ orders' = [orders EXCEPT ![i].status = "dead"]
  /\ UNCHANGED <<pc, walk, ladder, outcome, faults>>

\* Rejected, inactive, or cancelled by the exchange.
BrokerEnds(i) ==
  /\ orders[i].status = "working" /\ faults < MaxFaults
  /\ orders' = [orders EXCEPT ![i].status = "dead"]
  /\ faults' = faults + 1
  /\ UNCHANGED <<pc, walk, ladder, outcome>>

-----------------------------------------------------------------------------
(* The walk *)

Init ==
  /\ pc = "top"
  /\ walk = [index |-> 0, filled |-> 0, remaining |-> 0, credit |-> 0, candidate |-> 0,
             working |-> 0, credited |-> 0, state |-> None]
  /\ orders = <<>>
  /\ ladder = [rungs |-> <<>>, natural |-> 0]
  /\ outcome = None /\ faults = 0

Finish(state, filled, released) ==
  /\ pc' = "done"
  /\ outcome' = [state |-> state, filled |-> filled, released |-> released]
  /\ walk' = [walk EXCEPT !.filled = filled]

\* What observe_order can say of the working order: nothing, or a cumulative fill
\* that may lag behind, and that it is terminal only once it is, with the last fill.
Snapshots ==
  LET o == orders[walk.working]
  IN {[filled |-> walk.credited, terminal |-> FALSE]}
     \cup {[filled |-> f, terminal |-> FALSE] : f \in walk.credited .. o.filled}
     \cup (IF o.status = "dead" THEN {[filled |-> o.filled, terminal |-> TRUE]} ELSE {})

\* Mutant of Counted: the cumulative fill is added on every observation.
CountedAgain(seen) == walk.filled + seen.filled

\* _count: the delta against what was counted of this order.
Counted(seen) == walk.filled + (seen.filled - walk.credited)

Counting(seen) == [walk EXCEPT !.filled = Counted(seen), !.credited = seen.filled]

\* Step 1: harvest the dwell, then size the rung.
Harvest ==
  /\ pc = "top" /\ walk.index < MaximumAttempts
  /\ IF walk.working = 0
     THEN /\ walk' = [walk EXCEPT !.remaining = Ordered - walk.filled]
          /\ pc' = "quote" /\ UNCHANGED outcome
     ELSE \E seen \in Snapshots :
            IF Counted(seen) >= Ordered THEN Finish("FILLED", Counted(seen), 0)
            ELSE /\ walk' = [Counting(seen) EXCEPT !.remaining = Ordered - Counted(seen)]
                 /\ pc' = "quote" /\ UNCHANGED outcome
  /\ UNCHANGED <<orders, ladder, faults>>

\* The loop is left: by a refusal, by a ladder without a further rung, or because
\* every attempt was made.
Leave(state) ==
  /\ walk' = [walk EXCEPT !.state = state]
  /\ pc' = "over" /\ UNCHANGED outcome

Exhaust ==
  /\ pc = "top" /\ walk.index = MaximumAttempts
  /\ Leave("EXHAUSTED")
  /\ UNCHANGED <<orders, ladder, faults>>

\* Steps 2 to 5 refuse: no live book, a book outside the envelope or without a
\* ladder, or a reverification that does not approve the new credit.
Refuse ==
  /\ pc = "quote"
  /\ Leave("REFUSED")
  /\ UNCHANGED <<orders, ladder, faults>>

NoRungLeft ==
  /\ pc = "quote"
  /\ \E book \in Quoted :
        /\ Ladder(book) # <<>> /\ walk.index >= Len(Ladder(book))
        /\ ladder' = [rungs |-> Ladder(book), natural |-> book.natural]
  /\ Leave("EXHAUSTED")
  /\ UNCHANGED <<orders, faults>>

Price ==
  /\ pc = "quote"
  /\ \E book \in Quoted :
        /\ walk.index < Len(Ladder(book))
        /\ InEnvelope(Ladder(book)[walk.index + 1])
        /\ Verified(Ladder(book)[walk.index + 1], walk.remaining)
        /\ ladder' = [rungs |-> Ladder(book), natural |-> book.natural]
        /\ walk' = [walk EXCEPT !.credit = Ladder(book)[walk.index + 1],
                                !.candidate = walk.remaining]
  /\ pc' = IF walk.working = 0 THEN "send" ELSE "replace"
  /\ UNCHANGED <<orders, outcome, faults>>

\* _settle begins: harvest, then ask for the cancellation; a request that fails is
\* an unconfirmed cancellation.
Unconfirmed(filled) ==
  Finish(IF filled = 0 THEN "UNCERTAIN" ELSE "PARTIALLY_FILLED", filled, 0)

RequestCancellation(next) ==
  \E seen \in Snapshots :
     \/ /\ Counted(seen) >= Ordered
        /\ Finish("FILLED", Counted(seen), 0)
        /\ UNCHANGED orders
     \/ /\ Counted(seen) < Ordered
        /\ Unconfirmed(Counted(seen))
        /\ UNCHANGED orders
     \/ /\ Counted(seen) < Ordered
        /\ orders' = [orders EXCEPT ![walk.working].status =
                                      IF @ = "working" THEN "cancelling" ELSE @]
        /\ walk' = Counting(seen)
        /\ pc' = next /\ UNCHANGED outcome

Replace ==
  /\ pc = "replace"
  /\ RequestCancellation("settle")
  /\ UNCHANGED <<ladder, faults>>

\* Mutant of Resized: the verdict of step 5 stands whatever filled meanwhile.
ResizedNever(left) == walk.candidate

\* A fill that landed since step 5 changes the size: the structure is verified again.
Resized(left) == left

\* Mutant of Settled: an order that is not found is taken for a dead one.
SettledWhenSilent(seen) == seen.terminal \/ seen.filled = walk.credited

\* _settle: only a terminal snapshot confirms the cancellation.
Settled(seen) == seen.terminal

Settle ==
  /\ pc = "settle"
  /\ \E seen \in Snapshots :
       LET total == Counted(seen)
           left == Ordered - total
           dead == [Counting(seen) EXCEPT !.working = 0, !.credited = 0, !.remaining = left,
                                          !.candidate = Resized(left)]
       IN \/ /\ ~Settled(seen)
             /\ walk' = Counting(seen) /\ UNCHANGED <<pc, outcome>>
          \/ /\ ~Settled(seen)                                         \* the deadline
             /\ IF total >= Ordered THEN Finish("FILLED", total, 0) ELSE Unconfirmed(total)
          \/ /\ Settled(seen) /\ total >= Ordered
             /\ Finish("FILLED", total, 0)
          \/ /\ Settled(seen) /\ total < Ordered
             /\ Verified(walk.credit, left)
             /\ walk' = dead /\ pc' = "send" /\ UNCHANGED outcome
          \/ /\ Settled(seen) /\ total < Ordered /\ left # walk.remaining   \* refused
             /\ Finish(IF total > 0 THEN "PARTIALLY_FILLED" ELSE "REFUSED", total, 0)
  /\ UNCHANGED <<orders, ladder, faults>>

\* Step 8: the authorization is refused, or place_combo raises before the broker call.
SendRefused ==
  /\ pc = "send"
  /\ Leave("REFUSED")
  /\ UNCHANGED <<orders, ladder, faults>>

Working(status, next) ==
  /\ orders' = Append(orders, NewOrder(status, TRUE))
  /\ walk' = [walk EXCEPT !.working = Len(orders) + 1, !.credited = 0]
  /\ pc' = next /\ UNCHANGED outcome

Send ==
  /\ pc = "send"
  /\ Working("working", "dwell")
  /\ UNCHANGED <<ladder, faults>>

\* placeOrder raises: the broker has the order or never saw it, and place_combo
\* returns a result without a snapshot.
SendRaises ==
  /\ pc = "send" /\ faults < MaxFaults
  /\ \E status \in {"working", "absent"} : Working(status, "next")
  /\ faults' = faults + 1
  /\ UNCHANGED ladder

\* The sink cannot persist the submission: the exception leaves place_combo after the
\* order reached the broker, and the walk takes it for a send that failed.
SinkRaises ==
  /\ pc = "send" /\ faults < MaxFaults
  /\ orders' = Append(orders, NewOrder("working", FALSE))
  /\ faults' = faults + 1
  /\ Leave("REFUSED")
  /\ UNCHANGED ladder

\* The dwell ends with a last snapshot; an order already dead leaves nothing to replace.
DwellEnds ==
  /\ pc = "dwell"
  /\ \E seen \in Snapshots :
        IF Counted(seen) >= Ordered THEN Finish("FILLED", Counted(seen), 0)
        ELSE /\ walk' = [Counting(seen) EXCEPT
                           !.working = IF seen.terminal THEN 0 ELSE @,
                           !.credited = IF seen.terminal THEN 0 ELSE @]
             /\ pc' = "next" /\ UNCHANGED outcome
  /\ UNCHANGED <<orders, ladder, faults>>

NextRung ==
  /\ pc = "next"
  /\ walk' = [walk EXCEPT !.index = @ + 1]
  /\ pc' = "top"
  /\ UNCHANGED <<orders, ladder, outcome, faults>>

\* The walk is over: whatever still rests is pulled.
Verdict(state, filled) ==
  CASE filled = 0 -> state
    [] filled > 0 /\ filled < Ordered -> "PARTIALLY_FILLED"
    [] OTHER -> "FILLED"

Over ==
  /\ pc = "over"
  /\ IF walk.working = 0
     THEN Finish(Verdict(walk.state, walk.filled), walk.filled, 0) /\ UNCHANGED orders
     ELSE RequestCancellation("pull")
  /\ UNCHANGED <<ladder, faults>>

\* Mutant of Released: the whole reservation is given back.
ReleasedInFull(filled) == Ordered

Released(filled) == Ordered - filled

Pull ==
  /\ pc = "pull"
  /\ \E seen \in Snapshots :
       LET total == Counted(seen)
       IN \/ /\ ~Settled(seen)
             /\ walk' = Counting(seen) /\ UNCHANGED <<pc, outcome>>
          \/ /\ ~Settled(seen)                                         \* the deadline
             /\ IF total >= Ordered THEN Finish("FILLED", total, 0) ELSE Unconfirmed(total)
          \/ /\ Settled(seen)
             /\ IF total >= Ordered THEN Finish("FILLED", total, 0)
                ELSE Finish(Verdict(walk.state, total), total, Released(total))
  /\ UNCHANGED <<orders, ladder, faults>>

Step ==
  \/ Harvest \/ Exhaust \/ Refuse \/ NoRungLeft \/ Price \/ Replace \/ Settle
  \/ SendRefused \/ Send \/ SendRaises \/ SinkRaises \/ DwellEnds \/ NextRung \/ Over \/ Pull

Broker ==
  \E i \in 1 .. Len(orders) : BrokerFills(i) \/ BrokerCancels(i) \/ BrokerEnds(i)

Next == Step \/ Broker

Spec == Init /\ [][Next]_vars

-----------------------------------------------------------------------------
(* Properties *)

TypeOK ==
  /\ pc \in {"top", "quote", "replace", "settle", "send", "dwell", "next", "over", "pull",
             "done"}
  /\ walk.index \in 0 .. MaximumAttempts /\ walk.working \in 0 .. Len(orders)
  /\ walk.filled \in 0 .. Ordered /\ walk.credited \in 0 .. Ordered
  /\ walk.state \in {None, "REFUSED", "EXHAUSTED"}
  /\ \A i \in 1 .. Len(orders) :
        orders[i].status \in {"working", "cancelling", "dead", "absent"}
  /\ faults \in 0 .. MaxFaults

Exposure(o) == IF Live(o) THEN o.quantity ELSE o.filled
Filled == Total([i \in 1 .. Len(orders) |-> orders[i].filled])

\* The contracts filled and those still resting, over all the orders of one walk, never
\* exceed what was authorized: a rung replaces the unfilled remainder and nothing is
\* sent on top of an order that may still be working (walk.py, module docstring).
NeverOversized == Total([i \in 1 .. Len(orders) |-> Exposure(orders[i])]) <= Ordered

\* What the walk counted is filled at the broker, an outcome that gives risk back gives
\* back what can no longer fill, and FILLED is said only of a whole position.
OutcomeIsTrue ==
  /\ walk.filled <= Filled
  /\ pc = "done" =>
       /\ outcome.released > 0 =>
            /\ \A i \in 1 .. Len(orders) : ~Live(orders[i])
            /\ outcome.released + Filled = Ordered
       /\ outcome.state = "FILLED" <=> walk.filled = Ordered

\* REFUSED and EXHAUSTED leave no order at the broker and no fill uncounted, except one
\* the sink could not record (WalkState: "any working order was cancelled first", "none
\* filled, order cancelled").
RefusedIsFlat ==
  (pc = "done" /\ outcome.state \in {"REFUSED", "EXHAUSTED"})
    => \A i \in 1 .. Len(orders) :
          orders[i].recorded => ~Live(orders[i]) /\ orders[i].filled = 0

\* PARTIALLY_FILLED: "some contracts filled; the rest were cancelled and released".
PartialIsSettled ==
  (pc = "done" /\ outcome.state = "PARTIALLY_FILLED")
    => \A i \in 1 .. Len(orders) : ~Live(orders[i])

\* Every rung is on the grid of its tier, inside the envelope and above the economic
\* floor, and lower than the rung before it: off-grid limits are rejected and a repeated
\* price only loses its place in the queue (pricing.py).
LadderIsAWalk ==
  \A i \in 1 .. Len(ladder.rungs) :
     /\ ladder.rungs[i] % Increment(ladder.rungs[i], 1) = 0
     /\ InEnvelope(ladder.rungs[i]) /\ ladder.rungs[i] >= MinimumCredit
     /\ i > 1 => ladder.rungs[i] < ladder.rungs[i - 1]

\* A walk down its ladder says what happened (walk.py, CandidateWalk.run).
WalkIsTrue == NeverOversized /\ OutcomeIsTrue /\ RefusedIsFlat /\ LadderIsAWalk

\* What still rests, together with what filled at earlier and better credits, stays
\* within the risk of one trade (walk.py: a walk must not have "walked straight out of
\* the approved risk budget while every individual step looked harmless").
RiskStaysApproved ==
  Total([i \in 1 .. Len(orders) |-> Exposure(orders[i]) * (Width - orders[i].credit)])
    <= RiskCap

\* No rung gives up more than the book asks for: the target is rounded back toward us,
\* against conceding "two cents more than the market was ever asking for" (build_ladder).
ConcedesNoMoreThanAsked ==
  \A i \in 1 .. Len(ladder.rungs) : ladder.rungs[i] >= ladder.natural

=============================================================================
