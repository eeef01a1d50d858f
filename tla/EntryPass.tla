----------------------------- MODULE EntryPass -----------------------------
(***************************************************************************)
(* The passes of the strategy (runner.run_once) over all the entries and   *)
(* positions of the book: reconcile, manage, sweep, service the pending    *)
(* entries oldest first, claim one more; and the limits that the portfolio *)
(* governor (governor.py, portfolio.py) holds them to.  EntryReview and    *)
(* OpeningCorridor follow one entry and one order in detail; here they are *)
(* single steps.  Passes do not overlap: they share one broker client id.  *)
(***************************************************************************)
EXTENDS Sequences, Totals

CONSTANTS
  Symbols,
  Costs,         \* buying power that the broker's what-if may name
  Classes,       \* the sectors and the correlation groups: functions on Symbols
  IncrementalCap, TotalCap, UnderlyingCap, ClassCap,   \* of the net liquidation
  MaxPending,    \* max_pending_entries
  Silent,        \* whether the broker may leave out its own total
  MaxEntries, MaxFaults,   \* bounds
  None

PassAssumption ==
  /\ IsFiniteSet(Symbols) /\ Costs \subseteq Nat \ {0}
  /\ {IncrementalCap, TotalCap, UnderlyingCap, ClassCap} \subseteq Nat
  /\ {MaxPending, MaxEntries, MaxFaults} \subseteq Nat /\ Silent \in BOOLEAN
  /\ None \notin {"OPENING", "OPEN", "CLOSING", "UNCERTAIN", "FAILED", "CLOSED",
                 "resting", "partial", "held", "gone"}

VARIABLES
  managed,  \* the pass has a manager of logical entries, or is given a symbol
  book,     \* entries and their positions, in the order of their creation
  foreign,  \* symbol -> buying power of what was opened by hand
  pc, todo, \* where the pass is, and the entries it has still to service
  cost,     \* of the candidate that is being sent
  faults

vars == <<managed, book, foreign, pc, todo, cost, faults>>

EntryState == {"CLAIMED", "AWAITING_REVIEW", "APPROVED", "COOLDOWN", "EXECUTING", "ENDED"}
Pending == {"CLAIMED", "AWAITING_REVIEW"}

\* reserved: by the entry; position: its replayed state, of the given cost; order:
\* the opening order at the broker.
NewEntry(x, state, reserved) ==
  [symbol |-> x, state |-> state, reserved |-> reserved, position |-> None, cost |-> 0,
   order |-> None]

Init ==
  /\ managed \in BOOLEAN
  /\ book = <<>>
  /\ foreign = [x \in Symbols |-> 0]
  /\ pc = "idle" /\ todo = {} /\ cost = 0 /\ faults = 0

Goes(step) == pc' = step /\ UNCHANGED todo
Rests == pc' = "idle" /\ todo' = {} /\ cost' = 0

\* Entries are serviced oldest first; one that is being sent is the only one left.
Oldest == CHOOSE e \in todo : \A k \in todo : e <= k
Changed(entry, changes) ==
  [f \in DOMAIN entry |-> IF f \in DOMAIN changes THEN changes[f] ELSE entry[f]]
Set(e, changes) == book' = [book EXCEPT ![e] = Changed(@, changes)]

-----------------------------------------------------------------------------
(* The portfolio *)

Active(e) == book[e].state # "ENDED"
Live(e) == book[e].position \in {"OPENING", "OPEN", "CLOSING", "UNCERTAIN"}
AtBroker(e) == book[e].order \in {"partial", "held"}

\* Mutant of Exposed: the reservations are not folded in.
ExposedUnreserved(except) == {e \in DOMAIN book : Live(e)}

\* _fold_reservations: the positions, and the reservations of the entries that
\* have none, the candidate's own excepted.
Exposed(except) ==
  {e \in DOMAIN book : Live(e) \/ (e # except /\ Active(e) /\ book[e].reserved > 0)}

Exposure(e) == IF Live(e) THEN book[e].cost ELSE book[e].reserved

Of(xs, except) ==
  Total([e \in {i \in Exposed(except) : book[i].symbol \in xs} |-> Exposure(e)])
Derived(except) == Of(Symbols, except)
Foreign == Total(foreign)

\* The broker's own figure, when it gives one, is of the positions alone, and only
\* the larger of the two counts.
Reported == Foreign + Total([e \in {i \in DOMAIN book : AtBroker(i)} |-> book[e].cost])
TotalReserved(except) ==
  {IF Derived(except) >= Reported THEN Derived(except) ELSE Reported}
    \cup (IF Silent THEN {Derived(except)} ELSE {})

\* A book that is not all classified has no concentrations.
PortfolioState(except) ==
  \A e \in Exposed(except) : \A class \in Classes : class[book[e].symbol] # None

BuyingPower(bpr, except) ==
  bpr <= IncrementalCap /\ \E total \in TotalReserved(except) : total + bpr <= TotalCap

UnderlyingConcentration(x, bpr, except) == Of({x}, except) + bpr <= UnderlyingCap

GroupConcentration(class, x, bpr, except) ==
  class[x] # None /\ Of({y \in Symbols : class[y] = class[x]}, except) + bpr <= ClassCap

\* evaluate: what the candidate would add, in all, to its underlying, its sector
\* and its correlation group.
Governor(x, bpr, except) ==
  /\ PortfolioState(except)
  /\ BuyingPower(bpr, except)
  /\ UnderlyingConcentration(x, bpr, except)
  /\ \A class \in Classes : GroupConcentration(class, x, bpr, except)

-----------------------------------------------------------------------------
(* The start of a pass *)

\* _reconcile_orders: an order is ours when the store has ever recorded its strategy.
OrdersAgree ==
  \A e \in DOMAIN book :
    LET working == book[e].order \in {"resting", "partial"}
    IN /\ book[e].position # None /\ ~Live(e) => ~working
       /\ book[e].position = "UNCERTAIN" => working

\* reconcile_against_broker: nothing stranded, and the same symbols on both sides.
Agrees ==
  LET held == {x \in Symbols : foreign[x] > 0 \/ \E e \in DOMAIN book :
                                                   AtBroker(e) /\ book[e].symbol = x}
      live == {e \in DOMAIN book : Live(e)}
  IN /\ \A e \in live : book[e].position \notin {"OPENING", "CLOSING"}
     /\ held = {book[e].symbol : e \in live}
     /\ OrdersAgree

\* Whatever it concludes, the exits come next.
Reconcile ==
  /\ pc = "idle"
  /\ \/ Agrees /\ pc' = "agreed"
     \/ pc' = "doubtful"
  /\ UNCHANGED <<managed, book, foreign, todo, cost, faults>>

\* _manage_one: the exit of an open position that is due, filled or not resolved.
Manage(e) ==
  /\ pc \in {"agreed", "doubtful"}
  /\ book[e].position = "OPEN"
  /\ \/ Set(e, [position |-> "CLOSED", order |-> "gone"])
     \/ Set(e, [position |-> "CLOSING"])
     \/ Set(e, [position |-> "UNCERTAIN"])
  /\ UNCHANGED <<managed, foreign, pc, todo, cost, faults>>

\* manager.sweep: expired and refused entries end, their reservations first.
Sweep(e) ==
  /\ managed /\ pc \in {"agreed", "doubtful"}
  /\ book[e].state \in {"CLAIMED", "AWAITING_REVIEW", "APPROVED", "COOLDOWN"}
  /\ Set(e, [state |-> "ENDED", reserved |-> 0])
  /\ UNCHANGED <<managed, foreign, pc, todo, cost, faults>>

\* Mutant of MayOpen: only an order known to be uncertain stops the entries.
MayOpenUnreconciled == \A e \in DOMAIN book : book[e].position # "UNCERTAIN"

\* The mandate, the lease and the outbox are others' matter; the position store
\* must hold nothing unresolved, and the reconciliation have agreed.
MayOpen == pc = "agreed" /\ \A e \in DOMAIN book : book[e].position # "UNCERTAIN"

Gate ==
  /\ pc \in {"agreed", "doubtful"}
  /\ \/ /\ MayOpen
        /\ pc' = IF managed THEN "serving" ELSE "proposing"
        /\ todo' = IF managed THEN {e \in DOMAIN book : Active(e)} ELSE {}
        /\ UNCHANGED cost
     \/ Rests
  /\ UNCHANGED <<managed, book, foreign, faults>>

-----------------------------------------------------------------------------
(* The entries of the pass *)

\* What the regime, the chain, the quotes and the sizing make of a structure, by the
\* buying power it would take; Skip is the outcome without a candidate.
Candidate == Costs

Passes == pc' = pc /\ todo' = todo \ {Oldest} /\ cost' = 0

\* An entry whose order is working is left alone; one that cannot be priced, or
\* that the binding checks refuse, waits.
Skip ==
  /\ pc \in {"serving", "new"} /\ todo # {}
  /\ Passes
  /\ UNCHANGED <<managed, book, foreign, faults>>

\* manager.service: the review is asked for, or answered, or superseded.
Review ==
  /\ pc \in {"serving", "new"} /\ todo # {}
  /\ LET e == Oldest
     IN /\ book[e].state # "EXECUTING"
        /\ \E bpr \in Candidate : Governor(book[e].symbol, bpr, e)
        /\ \/ Set(e, [state |-> "AWAITING_REVIEW"])
           \/ /\ book[e].state = "AWAITING_REVIEW"
              /\ Set(e, [state |-> "COOLDOWN"])
           \/ /\ book[e].state = "COOLDOWN"
              /\ Set(e, [state |-> "ENDED", reserved |-> 0])
  /\ Passes
  /\ UNCHANGED <<managed, foreign, faults>>

\* The binding checks, an approved review and authorize_open.  The intent is
\* recorded: record_physical_attempt, then record_open_submitted.
Authorize ==
  /\ pc \in {"serving", "new"} /\ todo # {}
  /\ LET e == Oldest
     IN /\ book[e].state \in {"AWAITING_REVIEW", "APPROVED"}
        /\ \E bpr \in Candidate :
             /\ Governor(book[e].symbol, bpr, e)
             /\ \/ /\ Set(e, [state |-> "EXECUTING"])
                   /\ cost' = bpr /\ todo' = {e} /\ pc' = "attempted"
                \/ Set(e, [state |-> "APPROVED"]) /\ Passes
  /\ UNCHANGED <<managed, foreign, faults>>

\* The candidate of a pass that was given a symbol has no logical entry.
Propose(x) ==
  /\ pc = "proposing" /\ Len(book) < MaxEntries
  /\ \E bpr \in Candidate :
       /\ Governor(x, bpr, 0)
       /\ book' = Append(book, NewEntry(x, "ENDED", 0))
       /\ cost' = bpr
  /\ todo' = {Len(book) + 1} /\ pc' = "attempted"
  /\ UNCHANGED <<managed, foreign, faults>>

\* Mutant of Submit: the order is sent before it is recorded.
SubmitUnrecorded ==
  /\ pc = "attempted"
  /\ Goes("submitted")
  /\ UNCHANGED <<managed, book, foreign, cost, faults>>

Submit ==
  /\ pc = "attempted"
  /\ Set(Oldest, [position |-> "OPENING", cost |-> cost])
  /\ Goes("submitted")
  /\ UNCHANGED <<managed, foreign, cost, faults>>

Place ==
  /\ pc = "submitted"
  /\ Set(Oldest, [order |-> "resting", cost |-> cost])
  /\ Goes("working")
  /\ UNCHANGED <<managed, foreign, cost, faults>>

\* place_combo raises or has no handle: failed for the book and for the entry.
PlaceFails ==
  /\ pc = "submitted"
  /\ \/ Set(Oldest, [position |-> "FAILED", state |-> "ENDED", reserved |-> 0])
        /\ UNCHANGED faults
     \/ /\ faults < MaxFaults /\ faults' = faults + 1
        /\ Set(Oldest, [position |-> "FAILED", state |-> "ENDED", reserved |-> 0,
                            order |-> "resting"])
  /\ Rests
  /\ UNCHANGED <<managed, foreign>>

\* The ladder works the order; _record_open_outcome and _transmit_disposition say
\* what became of it.  An order that is not resolved leaves its entry EXECUTING.
Work ==
  /\ pc = "working"
  /\ \/ \E order \in {"held", "partial"} :
          Set(Oldest, [position |-> "OPEN", order |-> order, state |-> "ENDED",
                           reserved |-> 0])
     \/ Set(Oldest, [position |-> "FAILED", order |-> "gone", state |-> "ENDED",
                         reserved |-> 0])
     \/ \E order \in {"held", "resting"} :
          Set(Oldest, [position |-> "UNCERTAIN", order |-> order])
  /\ Rests
  /\ UNCHANGED <<managed, foreign, faults>>

\* Under the cap of pending entries, and one entry per underlying.
Claimable(x) ==
  /\ Cardinality({e \in DOMAIN book : book[e].state \in Pending}) < MaxPending
  /\ \A e \in DOMAIN book : book[e].symbol = x => ~Active(e)

\* claim_one, of the ranked nominations of the admitted scan book; the entry is
\* serviced at once.
Claim(x) ==
  /\ managed /\ pc = "serving" /\ todo = {}
  /\ Len(book) < MaxEntries
  /\ Claimable(x)
  /\ \E bpr \in Candidate :
       Governor(x, bpr, 0) /\ book' = Append(book, NewEntry(x, "CLAIMED", bpr))
  /\ todo' = {Len(book) + 1} /\ pc' = "new"
  /\ UNCHANGED <<managed, foreign, cost, faults>>

\* No book, no nomination that fits, no candidate; or the pass is over.
EndPass ==
  /\ pc \in {"proposing", "serving", "new"} /\ todo = {}
  /\ Rests
  /\ UNCHANGED <<managed, book, foreign, faults>>

-----------------------------------------------------------------------------
(* The broker, the hand and the operating system *)

BrokerWorks(e) ==
  /\ \/ book[e].order \in {"resting", "partial"} /\ Set(e, [order |-> "held"])
     \/ book[e].order = "resting" /\ Set(e, [order |-> "gone"])
  /\ UNCHANGED <<managed, foreign, pc, todo, cost, faults>>

TradeByHand(x) ==
  /\ pc = "idle"
  /\ \/ /\ foreign[x] = 0 /\ foreign' = [foreign EXCEPT ![x] = 1]
        /\ faults < MaxFaults /\ faults' = faults + 1
     \/ foreign[x] > 0 /\ foreign' = [foreign EXCEPT ![x] = 0] /\ UNCHANGED faults
  /\ UNCHANGED <<managed, book, pc, todo, cost>>

Crash ==
  /\ pc # "idle"
  /\ faults < MaxFaults /\ faults' = faults + 1
  /\ Rests
  /\ UNCHANGED <<managed, book, foreign>>

Next ==
  \/ Reconcile \/ Gate \/ Skip \/ Review \/ Authorize \/ Submit \/ Place \/ PlaceFails
  \/ Work \/ EndPass \/ Crash
  \/ \E x \in Symbols : Propose(x) \/ Claim(x) \/ TradeByHand(x)
  \/ \E e \in DOMAIN book : Manage(e) \/ Sweep(e) \/ BrokerWorks(e)

Spec == Init /\ [][Next]_vars

-----------------------------------------------------------------------------
(* Properties *)

\* The type of the state.
TypeOK ==
  /\ managed \in BOOLEAN
  /\ \A e \in DOMAIN book :
       /\ book[e].symbol \in Symbols /\ book[e].state \in EntryState
       /\ book[e].position \in {None, "OPENING", "OPEN", "CLOSING", "UNCERTAIN", "FAILED",
                                "CLOSED"}
       /\ book[e].order \in {None, "resting", "partial", "held", "gone"}
       /\ {book[e].reserved, book[e].cost} \subseteq Costs \cup {0}
  /\ pc \in {"idle", "agreed", "doubtful", "serving", "new", "proposing", "attempted",
             "submitted", "working"}
  /\ todo \subseteq DOMAIN book

Committed(xs) == Total([e \in {i \in DOMAIN book : book[i].symbol \in xs} |-> Exposure(e)])

\* What the positions and the reservations commit, taken together, never exceeds a
\* limit of the policy, at whatever moment a pass dies (_fold_reservations: a
\* position takes over the reservation of its entry).
WithinLimits ==
  /\ Committed(Symbols) <= TotalCap
  /\ \A x \in Symbols : Committed({x}) <= UnderlyingCap
  /\ \A class \in Classes : \A x \in Symbols :
       Committed({y \in Symbols : class[y] = class[x]}) <= ClassCap

\* "An order that may be resting in the book must be resolved before another is
\* sent, or one intended position becomes two" (positions.is_uncertain), whatever
\* died between the record, the order and its outcome.
OneUnresolvedOrder ==
  Cardinality({e \in DOMAIN book :
                 book[e].order = "resting" /\ book[e].position # "OPEN"}) <= 1

\* A pass that opens positions (runner.run_once, portfolio.py) keeps both.
PassIsBounded == WithinLimits /\ OneUnresolvedOrder

\* "Taking the maximum is wrong in neither direction that matters -- it can only
\* refuse a candidate that a more precise figure would have allowed"
\* (portfolio.total_buying_power_reserved): a claim fits beside the reservations
\* and everything the broker holds.
ClaimsFitTheAccount ==
  [][ Len(book') > Len(book) => Committed(Symbols)' + Foreign' <= TotalCap ]_vars
=============================================================================
