------------------------------- MODULE MCOrders -------------------------------
(* Small instances of the components an order passes through, which share no state:
   the claim of a scanned row, the pass that opens positions, the ledger of a send, the
   cost of a fill, the walk down a ladder of prices, the quotes it is judged by, the
   exits, and the handoffs its builders exchange; `part` says which of them a behaviour
   is about.  The scan books stay in their initial state and the variables of the
   others None. *)
EXTENDS ScanBook, TLC

CONSTANTS
  w1, w2, s1, s2, q1, q2,
  \* EntryPass
  PassSymbols, Margins, Groupings, IncrementalCap, TotalCap, UnderlyingCap, ClassCap,
  MaxPending, Silent, MaxPositions, MaxDeaths,
  \* SendLedger
  Approvals, OrderSize, MaxFailures,
  \* FillCost
  FillLegs, Fee, OtherFee, Namesakes, MaxDays, MaxMarks,
  \* PriceWalk
  Credit, Tolerance, Spread, ProofCredit, FloorCredit, FineTick, CoarseTick, TickBoundary,
  WalkBooks, TradeRisk, MaxAttempts, MaxMishaps,
  \* QuoteFeed
  ShortBooks, LongBooks, ProfitTarget, MaxAge, Rolls, Horizon, MaxSnapshots,
  \* ClosingBook
  ExitSize, MaxCloses, MaxStops,
  \* HandoffStore
  Operations, Clobbers, RacyRename, MaxLost

VARIABLES
  part,
  \* EntryPass
  managed, book, foreign, pc, todo, cost, deaths,
  \* SendLedger
  journal, caller, spent, order, found, failures,
  \* FillCost
  filled, believed, reported, recorded, evidence, day, marks,
  \* PriceWalk
  rung, walk, orders, ladder, outcome, mishaps,
  \* QuoteFeed
  now, phase, asof, due, ticker, recorder, snap, verdict, opened,
  \* ClosingBook
  position, opening, exits, manager, size, known, left, final, doubted, crashes,
  \* HandoffStore
  tree, mutex, me, step, claimant, lost

passes == <<managed, book, foreign, pc, todo, cost, deaths>>
ledger == <<journal, caller, spent, order, found, failures>>
fillCost == <<filled, believed, reported, recorded, evidence, day, marks>>
priceWalk == <<rung, walk, orders, ladder, outcome, mishaps>>
quoteFeed == <<now, phase, asof, due, ticker, recorder, snap, verdict, opened>>
closingBook == <<position, opening, exits, manager, size, known, left, final, doubted,
                 crashes>>
handoffs == <<tree, mutex, me, step, claimant, lost>>
everything == <<part, vars, passes, ledger, fillCost, priceWalk, quoteFeed, closingBook,
                handoffs>>

Symmetry ==
  Permutations({w1, w2}) \cup Permutations({s1, s2}) \cup Permutations({q1, q2})

\* Books on both sides of the profit target, one of them crossed.
QuotedShort == {[bid |-> 4, ask |-> 6], [bid |-> 6, ask |-> 2], [bid |-> 2, ask |-> 3]}
QuotedLong == {[bid |-> 1, ask |-> 2]}

\* Books that rise, fall and cross the grid of a walk.
QuotedWalk ==
  {[mid |-> 22, natural |-> 16], [mid |-> 23, natural |-> 23], [mid |-> 27, natural |-> 18],
   [mid |-> 31, natural |-> 20], [mid |-> 18, natural |-> 19]}

\* A contract of every leg costs the same.
FlatFee == [leg \in FillLegs |-> 1]

\* Both symbols of a pass are of one sector.
OneSector == {[x \in {"a", "b"} |-> "tech"]}

-----------------------------------------------------------------------------
\* Two symbols of one class, two sizes of margin, limits that two small positions
\* fill; one pass dies.
Pass == INSTANCE EntryPass WITH
  Symbols <- PassSymbols, Costs <- Margins, Classes <- Groupings,
  MaxEntries <- MaxPositions, MaxFaults <- MaxDeaths, faults <- deaths

\* Two callers with two approvals, an order of two contracts, two faults.
Ledger == INSTANCE SendLedger WITH
  Callers <- Processes, Quantity <- OrderSize, MaxFaults <- MaxFailures, verdict <-
  found, faults <- failures

\* Two legs, two contracts, two days, one contract of a namesake.
Cost == INSTANCE FillCost WITH Legs <- FillLegs, Quantity <- OrderSize

\* Two contracts at a reference credit of 0.22 a share on a two-cent and four-cent
\* grid that meet at 0.24; two faults.
Walk == INSTANCE PriceWalk WITH
  Ordered <- OrderSize, Reference <- Credit, Width <- Spread, ProofMinimum <- ProofCredit,
  MinimumCredit <- FloorCredit, Below <- FineTick, Above <- CoarseTick, Boundary <-
  TickBoundary, Books <- WalkBooks, RiskCap <- TradeRisk, MaximumAttempts <- MaxAttempts,
  MaxFaults <- MaxMishaps, pc <- rung, faults <- mishaps

\* A quote is fresh for one reading of the clock.
Quotes == INSTANCE QuoteFeed WITH Target <- ProfitTarget

\* A position of two contracts, at most three exits, one crash.
Closing == INSTANCE ClosingBook WITH
  Quantity <- ExitSize, MaxExits <- MaxCloses, MaxCrashes <- MaxStops, book <- position,
  pc <- manager, todo <- left

\* Two seats of which one may die, a POSIX rename.
Mail == INSTANCE HandoffStore WITH
  Seat <- Processes, Operation <- Operations, MaxCrashes <- MaxLost, lock <- mutex,
  pc <- step, crashes <- lost

ASSUME OrdersAssumption ==
  /\ Pass!PassAssumption /\ Ledger!LedgerAssumption /\ Cost!CostAssumption
  /\ Walk!WalkAssumption /\ Quotes!QuoteAssumption /\ Closing!ClosingAssumption
  /\ Mail!StoreAssumption

-----------------------------------------------------------------------------
NoPass ==
  /\ managed = None /\ book = None /\ foreign = None /\ pc = None /\ todo = None
  /\ cost = None /\ deaths = None

NoLedger ==
  /\ journal = None /\ caller = None /\ spent = None /\ order = None /\ found = None
  /\ failures = None

NoCost ==
  /\ filled = None /\ believed = None /\ reported = None /\ recorded = None
  /\ evidence = None /\ day = None /\ marks = None

NoWalk ==
  /\ rung = None /\ walk = None /\ orders = None /\ ladder = None /\ outcome = None
  /\ mishaps = None

NoQuotes ==
  /\ now = None /\ phase = None /\ asof = None /\ due = None /\ ticker = None
  /\ recorder = None /\ snap = None /\ verdict = None /\ opened = None

NoClosing ==
  /\ position = None /\ opening = None /\ exits = None /\ manager = None /\ size = None
  /\ known = None /\ left = None /\ final = None /\ doubted = None /\ crashes = None

NoMail ==
  /\ tree = None /\ mutex = None /\ me = None /\ step = None /\ claimant = None
  /\ lost = None

MCInit ==
  /\ Init
  /\ \/ /\ part = "claims" /\ NoPass /\ NoLedger /\ NoCost /\ NoWalk /\ NoQuotes
        /\ NoClosing /\ NoMail
     \/ /\ part = "pass" /\ Pass!Init /\ NoLedger /\ NoCost /\ NoWalk /\ NoQuotes
        /\ NoClosing /\ NoMail
     \/ /\ part = "ledger" /\ Ledger!Init /\ NoPass /\ NoCost /\ NoWalk /\ NoQuotes
        /\ NoClosing /\ NoMail
     \/ /\ part = "cost" /\ Cost!Init /\ NoPass /\ NoLedger /\ NoWalk /\ NoQuotes
        /\ NoClosing /\ NoMail
     \/ /\ part = "walk" /\ Walk!Init /\ NoPass /\ NoLedger /\ NoCost /\ NoQuotes
        /\ NoClosing /\ NoMail
     \/ /\ part = "quotes" /\ Quotes!Init /\ NoPass /\ NoLedger /\ NoCost /\ NoWalk
        /\ NoClosing /\ NoMail
     \/ /\ part = "exit" /\ Closing!Init /\ NoPass /\ NoLedger /\ NoCost /\ NoWalk
        /\ NoQuotes /\ NoMail
     \/ /\ part = "mail" /\ Mail!Init /\ NoPass /\ NoLedger /\ NoCost /\ NoWalk
        /\ NoQuotes /\ NoClosing

MCNext ==
  \/ /\ part = "claims" /\ Next
     /\ UNCHANGED <<part, passes, ledger, fillCost, priceWalk, quoteFeed, closingBook, handoffs>>
  \/ /\ part = "pass" /\ Pass!Next
     /\ UNCHANGED <<part, vars, ledger, fillCost, priceWalk, quoteFeed, closingBook, handoffs>>
  \/ /\ part = "ledger" /\ Ledger!Next
     /\ UNCHANGED <<part, vars, passes, fillCost, priceWalk, quoteFeed, closingBook, handoffs>>
  \/ /\ part = "cost" /\ Cost!Next
     /\ UNCHANGED <<part, vars, passes, ledger, priceWalk, quoteFeed, closingBook, handoffs>>
  \/ /\ part = "walk" /\ Walk!Next
     /\ UNCHANGED <<part, vars, passes, ledger, fillCost, quoteFeed, closingBook, handoffs>>
  \/ /\ part = "quotes" /\ Quotes!Next
     /\ UNCHANGED <<part, vars, passes, ledger, fillCost, priceWalk, closingBook, handoffs>>
  \/ /\ part = "exit" /\ Closing!Next
     /\ UNCHANGED <<part, vars, passes, ledger, fillCost, priceWalk, quoteFeed, handoffs>>
  \/ /\ part = "mail" /\ Mail!Next
     /\ UNCHANGED <<part, vars, passes, ledger, fillCost, priceWalk, quoteFeed, closingBook>>

MCSpec == MCInit /\ [][MCNext]_everything

\* Bound: one contract at a time is reported to be delayed, and the reports of its feed
\* are live again before the clock moves.
OneIsDelayed ==
  part = "quotes" =>
    Cardinality({c \in DOMAIN ticker : ticker[c].type = "DELAYED"}) <= (IF now = 0 THEN 1 ELSE 0)

-----------------------------------------------------------------------------
(* The properties of the parts; their modules say what each is about. *)

\* The type of each part's state.
Types ==
  /\ TypeOK
  /\ part = "pass" => Pass!TypeOK
  /\ part = "ledger" => Ledger!TypeOK
  /\ part = "cost" => Cost!TypeOK
  /\ part = "walk" => Walk!TypeOK
  /\ part = "quotes" => Quotes!TypeOK
  /\ part = "exit" => Closing!TypeOK
  /\ part = "mail" => Mail!TypeOK

\* A pass never commits more than the policy permits, nor opens beside an unresolved
\* order (runner.run_once, portfolio.py).
PassIsBounded == part = "pass" => Pass!PassIsBounded

\* The receipts of a saga prove one send, and no fill is taken for a cancellation
\* (execution_outbox.py, broker_reconciliation.py).
SendIsProven == part = "ledger" => Ledger!SendIsProven

\* A complete capture carries the whole cost (executions.py).
CompleteIsATotal == part = "cost" => Cost!CompleteIsATotal

\* A walk sells what was authorized and says what happened (walk.py, pricing.py).
WalkIsTrue == part = "walk" => Walk!WalkIsTrue

\* The readers of a snapshot agree and read only live quotes (marketdata.py,
\* runner.py).
QuotesAreHonoured == part = "quotes" => Quotes!QuotesAreHonoured

\* "A greek from an earlier generation is treated as absent" (marketdata.py).
GreeksAreCurrent == part = "quotes" => Quotes!GreeksAreCurrent

\* The closing orders the book knows of cannot sell more than the position holds, and
\* a closed position is one the broker has closed (runner._manage_one,
\* positions.replay).
ExitsAreTrue == part = "exit" => Closing!ExitsAreTrue

\* The same without the exception of a close recorded as failed (runner._manage_one
\* after a placeOrder that raised): "a second close against a working one doubles the
\* order" (lifecycle.decide_management_action).
NeverOversold == part = "exit" => Closing!NeverOversold

\* What a seat is told of a handoff is true (store.claim, store.find).
AnswersAreTrue == part = "mail" => Mail!AnswersAreTrue

=============================================================================
