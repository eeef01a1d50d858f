----------------------------- MODULE QuoteFeed -----------------------------
(***************************************************************************)
(* The quotes a decision is made on: one market-data subscription after    *)
(* another over the same ib_async tickers                                  *)
(* (IBKRLiveMarketDataAdapter.strategy_quotes, probe.CallbackRecorder,     *)
(* marketdata), and the three readers of a snapshot - the management rule  *)
(* (runner.mark_from_snapshot, lifecycle.decide_management_action), the    *)
(* marking report (marking.mark_position) and the gate of strike selection *)
(* (marketdata.require_uniform_live_provenance).                           *)
(***************************************************************************)
EXTENDS Integers, FiniteSets, FiniteSetsExt

CONSTANTS
  ShortBooks,       \* the books of the short leg: [bid, ask], None for a missing side
  LongBooks,        \* and of the long leg
  Target,           \* the debit at which the profit target is reached
  MaxAge,           \* quote_maximum_age
  Rolls,            \* roll_at_management_dte
  Horizon,          \* bound: the clock
  MaxSnapshots,     \* bound: subscriptions
  None

QuoteAssumption ==
  /\ {Target, MaxAge, Horizon, MaxSnapshots} \subseteq Nat /\ Rolls \in BOOLEAN
  /\ \A book \in ShortBooks \cup LongBooks :
        \A price \in {book.bid, book.ask} : price = None \/ price \in Nat

Legs == {"short", "long"}
Contracts == Legs \cup {"underlying"}

VARIABLES
  now,
  phase,      \* "idle", "subscribed" or "judging"
  asof,       \* the instant the pass is judged at, read once at its start
  due,        \* days to expiry are at or inside management_dte
  ticker,     \* ib_async's ticker of a contract, reused by every subscription
  recorder,   \* CallbackRecorder: what was heard in this subscription
  snap,       \* the StrategyQuoteSnapshot
  verdict,    \* what each reader made of it
  opened      \* subscriptions so far: the generation of the current one

vars == <<now, phase, asof, due, ticker, recorder, snap, verdict, opened>>

Unheard == [c \in Contracts |-> [type |-> None, model |-> None]]

Init ==
  /\ now = 0 /\ phase = "idle" /\ asof = 0 /\ opened = 0
  /\ due \in BOOLEAN
  /\ ticker = [c \in Contracts |->
                 [bid |-> None, ask |-> None, time |-> None, type |-> "LIVE", model |-> None]]
  /\ recorder = Unheard
  /\ snap = None /\ verdict = None

-----------------------------------------------------------------------------
(* The provider and the clock *)

Advance ==
  /\ now < Horizon
  /\ now' = now + 1
  /\ UNCHANGED <<phase, asof, due, ticker, recorder, snap, verdict, opened>>

Heard == UNCHANGED <<now, phase, asof, due, snap, verdict, opened>>

\* A quote; the ticker's time is the provider's event time.
Quote(c, book) ==
  /\ phase = "subscribed"
  /\ ticker' = [ticker EXCEPT ![c] = [@ EXCEPT !.bid = book.bid, !.ask = book.ask,
                                               !.time = now]]
  /\ UNCHANGED recorder /\ Heard

\* The market-data type the server reports for this request.
DataType(c, type) ==
  /\ phase = "subscribed"
  /\ recorder' = [recorder EXCEPT ![c].type = type]
  /\ ticker' = [ticker EXCEPT ![c].type = type]
  /\ Heard

\* A model computation: ib_async writes modelGreeks, the recorder keeps it.
Model(c) ==
  /\ phase = "subscribed"
  /\ ticker' = [ticker EXCEPT ![c].model = opened]
  /\ recorder' = [recorder EXCEPT ![c].model = opened]
  /\ Heard

\* A bid, ask or last computation: the recorder keeps what modelGreeks is by then.
OtherComputation(c) ==
  /\ phase = "subscribed" /\ ticker[c].model # None
  /\ recorder' = [recorder EXCEPT ![c].model = ticker[c].model]
  /\ UNCHANGED ticker /\ Heard

-----------------------------------------------------------------------------
(* The adapter *)

\* run_once reads the clock once and judges every position at that instant.
BeginPass ==
  /\ phase = "idle" /\ asof < now
  /\ asof' = now
  /\ verdict' = None
  /\ UNCHANGED <<now, phase, due, ticker, recorder, snap, opened>>

Subscribe ==
  /\ phase = "idle" /\ opened < MaxSnapshots
  /\ phase' = "subscribed" /\ opened' = opened + 1
  /\ recorder' = Unheard
  /\ snap' = None /\ verdict' = None
  /\ UNCHANGED <<now, asof, due, ticker>>

\* Mutant of Reported: the type the ticker carries, which is LIVE until one is reported.
ReportedByTicker(c) == ticker[c].type

\* record_data_type: only what the server's own callback said.
Reported(c) == recorder[c].type

\* The computation of the recorder, or the one the ticker still carries; record_greeks
\* stamps it with the generation of this subscription.
Greeks(c) == IF recorder[c].model # None THEN recorder[c].model ELSE ticker[c].model

\* The wait ends when everything arrived, or at its deadline with what there is; a leg
\* that IBKR does not qualify is left out.
Settle ==
  /\ phase = "subscribed"
  /\ \E qualified \in SUBSET Legs :
       /\ qualified # {}
       /\ snap' = [c \in qualified \cup {"underlying"} |->
                     [bid |-> ticker[c].bid, ask |-> ticker[c].ask, event |-> ticker[c].time,
                      type |-> Reported(c), greeks |-> Greeks(c) # None]]
  /\ phase' = "judging"
  /\ UNCHANGED <<now, asof, due, ticker, recorder, verdict, opened>>

-----------------------------------------------------------------------------
(* The readers *)

\* Mutant of Current: the age of the quote is not looked at.
CurrentAnyAge(q) == q.type = "LIVE" /\ q.event # None

\* require_live_quote. A snapshot holds one generation of every quote.
Current(q) == q.type = "LIVE" /\ q.event # None /\ asof - q.event <= MaxAge

Quoted == DOMAIN snap \cap Legs
TwoSided == Quoted = Legs /\ \A c \in Legs : snap[c].bid # None /\ snap[c].ask # None

\* closing_midpoint_debit and closing_natural_debit, times two.
Midpoint == (snap["short"].bid + snap["short"].ask) - (snap["long"].bid + snap["long"].ask)
Natural == 2 * (snap["short"].ask - snap["long"].bid)
Reached(debit) == debit <= 2 * Target

\* Mutant of Crossed: a book with an ask below its bid is marked.
CrossedNever == FALSE
Crossed == Natural < Midpoint

\* mark_position.
Report ==
  IF Quoted # Legs THEN "UNAVAILABLE"
  ELSE IF \E c \in Quoted : ~Current(snap[c]) THEN "STALE"
  ELSE IF ~TwoSided \/ Midpoint < 0 \/ Natural < 0 \/ Crossed THEN "UNAVAILABLE"
  ELSE IF Reached(Natural) THEN "REACHED" ELSE "MARKED"

\* mark_from_snapshot: the midpoint, as of the newest event of a leg.
Events == {snap[c].event : c \in Quoted} \ {None}
HasMark == TwoSided /\ Midpoint >= 0 /\ Events # {}
Usable ==
  /\ HasMark
  /\ \A c \in DOMAIN snap : snap[c].type = "LIVE"
  /\ asof - Max(Events) <= MaxAge

\* decide_management_action, and the price _manage_one finds for it.
Decision ==
  IF Usable /\ Reached(Midpoint) THEN "CLOSE_PROFIT_TARGET"
  ELSE IF due THEN IF ~HasMark THEN "BLOCKED" ELSE IF Rolls THEN "ROLL" ELSE "CLOSE_DTE"
  ELSE "HOLD"

\* require_uniform_live_provenance: every leg and the underlying, with greeks.
Selectable ==
  /\ \A c \in DOMAIN snap : Current(snap[c])
  /\ \A c \in Quoted : snap[c].greeks

Judge ==
  /\ phase = "judging"
  /\ verdict' = [report |-> Report, decision |-> Decision, selectable |-> Selectable]
  /\ phase' = "idle"
  /\ UNCHANGED <<now, asof, due, ticker, recorder, snap, opened>>

Next ==
  \/ Advance \/ BeginPass \/ Subscribe \/ Settle \/ Judge
  \/ \E book \in ShortBooks : Quote("short", book)
  \/ \E book \in LongBooks : Quote("long", book)
  \/ Quote("underlying", [bid |-> None, ask |-> None])
  \/ \E c \in Contracts : \E type \in {"LIVE", "DELAYED"} : DataType(c, type)
  \/ \E c \in Legs : Model(c) \/ OtherComputation(c)

Spec == Init /\ [][Next]_vars

-----------------------------------------------------------------------------
(* Properties *)

TypeOK ==
  /\ now \in 0 .. Horizon /\ asof \in 0 .. now /\ opened \in 0 .. MaxSnapshots
  /\ phase \in {"idle", "subscribed", "judging"} /\ due \in BOOLEAN
  /\ \A c \in Contracts :
        /\ ticker[c].time \in {None} \cup 0 .. now
        /\ ticker[c].model \in {None} \cup 1 .. opened
        /\ recorder[c].type \in {None, "LIVE", "DELAYED"}
        /\ recorder[c].model \in {None} \cup 1 .. opened
  /\ verdict # None =>
        /\ verdict.report \in {"UNAVAILABLE", "STALE", "MARKED", "REACHED"}
        /\ verdict.decision \in {"CLOSE_PROFIT_TARGET", "CLOSE_DTE", "ROLL", "BLOCKED", "HOLD"}

Judged == phase = "idle" /\ verdict # None

\* Nothing is marked, selected or closed for its profit unless the server itself said, in
\* this very subscription, that each leg is live: an entitlement heard earlier, or the
\* ticker's default, is not evidence (marketdata.py, "the entitlement field fails open").
SilenceIsNotLive ==
  (Judged /\ (\/ verdict.report \in {"MARKED", "REACHED"}
              \/ verdict.decision = "CLOSE_PROFIT_TARGET"
              \/ verdict.selectable))
    => \A c \in Quoted : recorder[c].type = "LIVE"

\* What the marking report calls reached, the management rule closes, once the feed of
\* the underlying is live as well: the two price the exit on different sides of the book
\* and take its age from different legs.
ReachedIsClosed ==
  (Judged /\ verdict.report = "REACHED" /\ snap["underlying"].type = "LIVE")
    => verdict.decision = "CLOSE_PROFIT_TARGET"

\* The readers of a snapshot agree on it and read only live quotes (marking.py,
\* runner.py, adapters.py).
QuotesAreHonoured == SilenceIsNotLive /\ ReachedIsClosed

\* A strike is selected on computations of the current subscription: "a greek from an
\* earlier generation is treated as absent rather than stale-but-usable" (marketdata.py).
GreeksAreCurrent ==
  (Judged /\ verdict.selectable) => \A c \in Quoted : ticker[c].model = opened

\* A profit is taken on legs that are all current, not only on the newest of them.
ProfitIsCurrent ==
  (Judged /\ verdict.decision = "CLOSE_PROFIT_TARGET") => \A c \in Legs : Current(snap[c])

=============================================================================
