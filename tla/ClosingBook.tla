---------------------------- MODULE ClosingBook ----------------------------
(***************************************************************************)
(* The exit of one position: the management half of options/runner.py      *)
(* (_manage_one), the closing branch of options/transmit.py (place_combo), *)
(* the sink that files what a poll saw (options/sink.py), and the replay   *)
(* of the position log (options/positions.py).                             *)
(*                                                                         *)
(* The log is only ever appended to and replayed from its start, so the    *)
(* book is kept as the replay of what has been appended: an append applies *)
(* its event.  Everything a pass knows besides dies with its process.      *)
(* Passes do not overlap: they share one broker client id.                 *)
(***************************************************************************)
EXTENDS Sequences, Totals

CONSTANTS
  Quantity,     \* contracts the opening order asked for
  MaxExits,     \* bound: closing orders sent
  MaxCrashes,   \* bound: processes that die in mid-pass
  None

ClosingAssumption ==
  /\ Quantity \in Nat \ {0} /\ MaxExits \in Nat /\ MaxCrashes \in Nat

VARIABLES
  book,     \* the replayed position
  opening,  \* the opening order at the broker
  exits,    \* the closing orders the broker was sent, in order
  pc,       \* where the pass is
  size,     \* contracts of the exit about to be sent
  known,    \* the sink's picture of the closing order
  todo,     \* events one observation still has to append
  final,    \* the observation being filed is the last of its poll
  doubted,  \* a close was recorded as failed although its order may live or have filled
  crashes

vars == <<book, opening, exits, pc, size, known, todo, final, doubted, crashes>>
broker == <<opening, exits>>
pass == <<pc, size, known, todo, final>>

Live == {"OPENING", "OPEN", "CLOSING", "UNCERTAIN"}
Identity == 0 .. MaxExits

-----------------------------------------------------------------------------
(* The replay *)

Larger(a, b) == IF a > b THEN a ELSE b

\* Mutant of Replay: a partial close is taken for the whole of it.
ReplayPartialCloses(position, event) ==
  CASE event.kind = "CLOSE_SUBMITTED" -> [position EXCEPT !.state = "CLOSING"]
    [] event.kind = "CLOSE_ACKNOWLEDGED" -> [position EXCEPT !.id = event.id]
    [] event.kind = "CLOSE_UNCERTAIN" -> [position EXCEPT !.state = "UNCERTAIN"]
    [] event.kind \in {"CLOSE_PARTIAL", "CLOSE_FILLED"} ->
         [position EXCEPT !.state = "CLOSED", !.closed = Larger(@, position.filled)]
    [] event.kind = "CLOSE_FAILED" -> [position EXCEPT !.state = "OPEN"]

\* Mutant of Replay: the cumulative counts of a close are added up.
ReplayAddsFills(position, event) ==
  IF event.kind = "CLOSE_PARTIAL"
  THEN [position EXCEPT !.state = "CLOSING", !.closed = @ + event.filled]
  ELSE ReplayPartialCloses(position, event)

\* _apply: a fill count only grows, a complete close retires all that was held,
\* a failed one makes the position manageable again.
Replay(position, event) ==
  CASE event.kind = "CLOSE_SUBMITTED" -> [position EXCEPT !.state = "CLOSING"]
    [] event.kind = "CLOSE_ACKNOWLEDGED" -> [position EXCEPT !.id = event.id]
    [] event.kind = "CLOSE_PARTIAL" ->
         [position EXCEPT !.state = "CLOSING", !.closed = Larger(@, event.filled)]
    [] event.kind = "CLOSE_UNCERTAIN" -> [position EXCEPT !.state = "UNCERTAIN"]
    [] event.kind = "CLOSE_FILLED" ->
         [position EXCEPT !.state = "CLOSED", !.closed = Larger(@, position.filled)]
    [] event.kind = "CLOSE_FAILED" -> [position EXCEPT !.state = "OPEN"]

Append1(event) == book' = Replay(book, event)

\* remaining_quantity and confirmed_remaining_quantity.
Remaining(position) == Larger(position.filled - position.closed, 0)

-----------------------------------------------------------------------------
(* What a poll sees *)

\* snapshot_from_trade over the trade as its callbacks left it: a re-sent
\* callback may show an earlier count, an ended order shows the true one.
Views(order, id, last, lost) ==
  LET seen(state, filled) == [state |-> state, filled |-> filled, id |-> id]
  IN IF lost THEN {seen("UNKNOWN", order.filled)}
     ELSE IF order.status = "silent" THEN {seen(IF last THEN "TIMED_OUT" ELSE "UNKNOWN", 0)}
     ELSE IF order.filled = order.quantity THEN {seen("FILLED", order.filled)}
     ELSE IF order.status = "dead" THEN {seen("CANCELLED", order.filled)}
     ELSE {seen(IF n = 0 THEN "ACKNOWLEDGED" ELSE "PARTIALLY_FILLED", n) :
             n \in 0 .. order.filled}

\* PROGRESSION: the two uncertain states have no rank.
Rank(state) ==
  CASE state = "ACKNOWLEDGED" -> 1
    [] state = "PARTIALLY_FILLED" -> 2
    [] state \in {"FILLED", "CANCELLED"} -> 3

Unsure(state) == state \in {"UNKNOWN", "TIMED_OUT"}

\* _is_stale: a walk backwards of the same order that carries no new fill.
Stale(picture, seen) ==
  /\ picture.state # None
  /\ seen.id = picture.id
  /\ ~Unsure(seen.state) /\ ~Unsure(picture.state)
  /\ Rank(seen.state) < Rank(picture.state)
  /\ seen.filled <= picture.filled

\* _record_fill: complete only when the broker named a price.
FillEvent(seen, priced) ==
  IF seen.state = "FILLED" /\ priced
  THEN [kind |-> "CLOSE_FILLED"]
  ELSE [kind |-> "CLOSE_PARTIAL", filled |-> seen.filled]

\* LifecycleRecorder.observe: identity, then exposure, then what it no longer
\* knows, or a refusal of an order of which nothing is known to have filled.
Filings(picture, seen, priced) ==
  LET filled == Larger(picture.filled, seen.filled)
  IN (IF seen.id # picture.id
      THEN <<[kind |-> "CLOSE_ACKNOWLEDGED", id |-> seen.id]>> ELSE <<>>)
     \o (IF seen.filled > picture.filled THEN <<FillEvent(seen, priced)>> ELSE <<>>)
     \o (IF picture.state = seen.state THEN <<>>
         ELSE IF Unsure(seen.state) THEN <<[kind |-> "CLOSE_UNCERTAIN"]>>
         ELSE IF seen.state = "CANCELLED" /\ filled = 0 THEN <<[kind |-> "CLOSE_FAILED"]>>
         ELSE <<>>)

\* The recorder is rebuilt with every pass, from the store.
Seed(position) ==
  [state |-> None, filled |-> position.closed, id |-> position.id]

-----------------------------------------------------------------------------
(* The pass *)

NoPicture == [state |-> None, filled |-> 0, id |-> 0]

Rest == /\ pc' = "idle" /\ size' = 0 /\ known' = NoPicture
        /\ todo' = <<>> /\ final' = FALSE

\* The entry pass is over: its order filled at least in part and may still be
\* resting, or nobody knows.
Init ==
  /\ \E f \in 1 .. Quantity, s \in {"OPEN", "UNCERTAIN"}, r \in {"working", "dead"} :
       /\ opening = [quantity |-> Quantity, filled |-> f, status |-> r]
       /\ book = [state |-> s, filled |-> f, closed |-> 0, id |-> 0]
  /\ exits = <<>>
  /\ pc = "idle" /\ size = 0 /\ known = NoPicture /\ todo = <<>> /\ final = FALSE
  /\ doubted = FALSE
  /\ crashes = 0

BeginPass ==
  /\ pc = "idle"
  /\ book.state \in Live
  /\ pc' = "managing"
  /\ known' = Seed(book)
  /\ UNCHANGED <<book, broker, size, todo, final, doubted, crashes>>

\* Mutant of Acts: a position being closed is decided about again.
ActsOnClosing(position) == position.state \in {"OPEN", "CLOSING"}

\* decide_management_action may act on an open position only; whether its mark
\* or its calendar calls for it is left open.
Acts(position) == position.state = "OPEN"

\* A held position, an exit without any mark to price it or anything confirmed
\* to close, one refused by the kill switch or an unarmed run.
Hold ==
  /\ pc = "managing"
  /\ Rest
  /\ UNCHANGED <<book, broker, doubted, crashes>>

\* CLOSE_SUBMITTED is on disk before the order is handed over; the exit is
\* sized to what is confirmed to be held, which must be something.
SubmitClose ==
  /\ pc = "managing"
  /\ Acts(book)
  /\ Remaining(book) > 0
  /\ size' = Remaining(book)
  /\ Append1([kind |-> "CLOSE_SUBMITTED"])
  /\ pc' = "sending"
  /\ UNCHANGED <<broker, known, todo, final, doubted, crashes>>

Exit(status) == [quantity |-> size, filled |-> 0, status |-> status]

PlaceOrder ==
  /\ pc = "sending"
  /\ Len(exits) < MaxExits
  /\ exits' = Append(exits, Exit("silent"))
  /\ pc' = "polling"
  /\ UNCHANGED <<book, opening, size, known, todo, final, doubted, crashes>>

\* A refused or raised send is recorded as a close that did not happen, the
\* one whose placeOrder raised after the broker took the order included.
SendFails ==
  /\ pc = "sending"
  /\ \/ UNCHANGED <<exits, doubted>>
     \/ /\ Len(exits) < MaxExits
        /\ exits' = Append(exits, Exit("working"))
        /\ doubted' = TRUE
  /\ Append1([kind |-> "CLOSE_FAILED"])
  /\ Rest
  /\ UNCHANGED <<opening, crashes>>

\* emit in place_combo.  The loop ends with a done order, a lost connection or
\* the end of its patience; one more observation follows.
Observe(last, lost) ==
  /\ pc = "polling"
  /\ lost => last
  /\ \E seen \in Views(exits[Len(exits)], Len(exits), last, lost), priced \in BOOLEAN :
       IF Stale(known, seen)
       THEN UNCHANGED <<todo, known>>
       ELSE /\ todo' = Filings(known, seen, priced)
            /\ known' = [state |-> seen.state, id |-> seen.id,
                         filled |-> Larger(known.filled, seen.filled)]
  /\ final' = last
  /\ pc' = "filing"
  /\ UNCHANGED <<book, broker, size, doubted, crashes>>

File ==
  /\ pc = "filing"
  /\ todo # <<>>
  /\ Append1(Head(todo))
  /\ todo' = Tail(todo)
  /\ UNCHANGED <<broker, pc, size, known, final, doubted, crashes>>

\* A persistence failure propagates out of place_combo and is recorded as a
\* close that failed, when the store takes that.
FileRaises ==
  /\ pc = "filing"
  /\ todo # <<>>
  /\ Append1([kind |-> "CLOSE_FAILED"])
  /\ doubted' = TRUE
  /\ Rest
  /\ UNCHANGED <<broker, crashes>>

Filed ==
  /\ pc = "filing"
  /\ todo = <<>>
  /\ IF final THEN Rest ELSE pc' = "polling" /\ UNCHANGED <<size, known, todo, final>>
  /\ UNCHANGED <<book, broker, doubted, crashes>>

\* The process dies; what it had not appended is lost.
Die ==
  /\ pc # "idle"
  /\ crashes < MaxCrashes
  /\ crashes' = crashes + 1
  /\ Rest
  /\ UNCHANGED <<book, broker, doubted>>

-----------------------------------------------------------------------------
(* The broker *)

Alive(order) == order.status # "dead" /\ order.filled < order.quantity

Hear(i) ==
  /\ exits[i].status = "silent"
  /\ exits' = [exits EXCEPT ![i].status = "working"]
  /\ UNCHANGED <<book, opening, pass, doubted, crashes>>

Fill(i) ==
  /\ Alive(exits[i])
  /\ exits[i].status = "working"
  /\ exits' = [exits EXCEPT ![i].filled = @ + 1]
  /\ UNCHANGED <<book, opening, pass, doubted, crashes>>

\* A rejection, a cancellation in TWS, the end of the day.
Kill(i) ==
  /\ Alive(exits[i])
  /\ exits' = [exits EXCEPT ![i].status = "dead"]
  /\ UNCHANGED <<book, opening, pass, doubted, crashes>>

\* The rest of a partially filled opening order, when no pass is looking at it.
FillOpening ==
  /\ Alive(opening)
  /\ opening' = [opening EXCEPT !.filled = @ + 1]
  /\ UNCHANGED <<book, exits, pass, doubted, crashes>>

Next ==
  \/ BeginPass \/ Hold \/ SubmitClose \/ PlaceOrder \/ SendFails
  \/ \E last, lost \in BOOLEAN : Observe(last, lost)
  \/ File \/ FileRaises \/ Filed \/ Die
  \/ \E i \in 1 .. Len(exits) : Hear(i) \/ Fill(i) \/ Kill(i)
  \/ FillOpening

Spec == Init /\ [][Next]_vars

-----------------------------------------------------------------------------
(* Properties *)

ExitsFilled == Total([i \in DOMAIN exits |-> exits[i].filled])

\* What a closing order has sold and may still sell.
Exposed(order) == IF Alive(order) THEN order.quantity ELSE order.filled
Committed == Total([i \in DOMAIN exits |-> Exposed(exits[i])])

Events == {"CLOSE_SUBMITTED", "CLOSE_ACKNOWLEDGED", "CLOSE_PARTIAL",
           "CLOSE_UNCERTAIN", "CLOSE_FILLED", "CLOSE_FAILED"}

\* The type of the state.
TypeOK ==
  /\ book \in [state : Live \cup {"CLOSED"}, filled : 1 .. Quantity,
               closed : 0 .. Quantity, id : Identity]
  /\ opening \in [quantity : {Quantity}, filled : 1 .. Quantity,
                  status : {"working", "dead"}]
  /\ exits \in Seq([quantity : 1 .. Quantity, filled : 0 .. Quantity,
                    status : {"silent", "working", "dead"}])
  /\ Len(exits) <= MaxExits
  /\ pc \in {"idle", "managing", "sending", "polling", "filing"}
  /\ size \in 0 .. Quantity
  /\ known.filled \in 0 .. Quantity /\ known.id \in Identity
  /\ \A i \in 1 .. Len(todo) : todo[i].kind \in Events
  /\ final \in BOOLEAN
  /\ doubted \in BOOLEAN
  /\ crashes \in 0 .. MaxCrashes

\* The closing orders sent for a position, whatever passes sent them, can never
\* between them sell more contracts than its opening order bought: a second
\* close against a working one doubles the order and turns an exit into a naked
\* short (decide_management_action, closing_intent_for).
NeverOversold == Committed <= opening.filled

\* As long as no close was recorded as failed while its order may live, that
\* holds through every crash, late fill and re-sent callback (_manage_one).
KnownExitsNeverOversell == doubted \/ NeverOversold

\* What the book says has left the market has: the closing count is never ahead
\* of the fills at the broker, and a position is CLOSED only when all the book
\* held was bought back (the sink's fills, CLOSE_FILLED in the replay).
ClosedIsClosed ==
  /\ book.closed <= ExitsFilled
  /\ book.state = "CLOSED" => ExitsFilled >= book.filled

\* The book of a closing position and the market agree (runner._manage_one, sink).
ExitsAreTrue == KnownExitsNeverOversell /\ ClosedIsClosed

\* A pass that watched its exit end does not leave the position CLOSING: the
\* close is done, failed or unknown (CLOSE_FAILED: the position must stay
\* eligible for management).
WatchedExitsSettle ==
  pc = "filing" /\ final /\ todo = <<>> /\ ~Alive(exits[Len(exits)])
    /\ known.state \in {"FILLED", "CANCELLED"}
  => book.state # "CLOSING"
=============================================================================
