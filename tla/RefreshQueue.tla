---------------------------- MODULE RefreshQueue ----------------------------
(***************************************************************************)
(* The fair refresh queue of the observation cache and the scan that draws *)
(* on it (observation_cache.FairRefreshQueue, universe.run_universe_pass   *)
(* and its caller): which stale symbols a pass refreshes, which of the     *)
(* fresh ones it probes in depth, what the queue remembers of it, and when *)
(* the book of a pass counts as complete.                                  *)
(***************************************************************************)
EXTENDS Integers, FiniteSets

CONSTANTS
  Symbols,        \* the catalog, 1 .. n in alphabetical order
  Score,          \* symbol -> the rank of a measured symbol, 0: no rank, no entry
  Dead,           \* the symbols whose volatility history always fails
  Scanners,       \* the worker, and scans started by hand
  RefreshLimit,   \* config.refresh_limit
  Phase2Limit,    \* config.phase2_limit
  Interval,       \* refresh_interval, in units of time
  ClaimTtl,       \* claim_ttl
  Quotas,         \* how many refreshes the pacing ledger admits in one pass
  MaxFaults,      \* bound: passes that die, histories that fail for once
  None

QueueAssumption ==
  /\ Symbols \subseteq Nat /\ IsFiniteSet(Symbols)
  /\ Dead \subseteq Symbols /\ Score \in [Symbols -> Nat]
  /\ {RefreshLimit, Phase2Limit, Interval, ClaimTtl} \subseteq Nat \ {0}
  /\ Quotas \subseteq Nat /\ MaxFaults \in Nat

VARIABLES
  queue,   \* symbol -> its row; times are relative to now
  facts,   \* symbol -> the session of the cached series: "none", "old", "today"
  pass,    \* scanner -> the pass it is running, or None
  book,    \* the rows and the verdict of the last pass, or None
  faults

vars == <<queue, facts, pass, book, faults>>

States == {"stale", "deferred", "unscanned", "ineligible", "unavailable", "candidate"}

\* seed: a symbol new to the queue is due, unseen and starving from now on.
Seeded == [seen |-> FALSE, starved |-> 0, due |-> 0, two |-> None, rank |-> 0,
           owner |-> None, until |-> 0]

Init ==
  /\ queue = [s \in Symbols |-> Seeded]
  /\ facts = [s \in Symbols |-> "none"]
  /\ pass = [w \in Scanners |-> None] /\ book = None /\ faults = 0

-----------------------------------------------------------------------------
(* What a pass selects *)

\* The lexicographic order of two keys of the same length.
Before(k, l) ==
  \E i \in DOMAIN k : k[i] < l[i] /\ \A j \in 1 .. i - 1 : k[j] = l[j]

\* The first n members of S in the order of their keys.
First(n, S, key) == {s \in S : Cardinality({t \in S : Before(key[t], key[s])}) < n}

Flag(condition) == IF condition THEN 1 ELSE 0

\* Mutant of Due: a claim holds for as long as nobody releases it.
DueUnclaimed ==
  {s \in Symbols : queue[s].due <= 0 /\ queue[s].owner = None}

Due ==
  {s \in Symbols : queue[s].due <= 0 /\ queue[s].until <= 0}

\* The exploration lane: never-seen symbols first, then the longest starved.
Exploration ==
  LET lane == IF RefreshLimit \div 4 > 1 THEN RefreshLimit \div 4 ELSE 1
      key == [s \in Symbols |-> <<Flag(queue[s].seen), queue[s].starved, queue[s].due,
                                  -queue[s].rank, s>>]
  IN First(lane, Due, key)

\* The rest of the selection: the best ranks of the last refresh.
Exploitation ==
  LET rest == Due \ Exploration
      key == [s \in Symbols |-> <<-queue[s].rank, queue[s].starved, s>>]
  IN First(RefreshLimit - Cardinality(Exploration), rest, key)

\* Mutant of Selection: no exploration lane.
SelectionOfTheBest ==
  First(RefreshLimit, Due, [s \in Symbols |-> <<-queue[s].rank, queue[s].starved, s>>])

Selection == Exploration \cup Exploitation

\* Mutant of Phase2Key: the best rank first, as the scan orders them on its own.
Phase2KeyOfTheBest == [s \in Symbols |-> <<-Score[s], s, 0, 0>>]

\* phase_two_order: the longest since its last deep probe first.
Phase2Key ==
  [s \in Symbols |-> <<Flag(queue[s].two # None), IF queue[s].two = None THEN 0 ELSE queue[s].two,
                       -queue[s].rank, s>>]

\* The head of run_catalog_universe_pass: select_due claims what it selects, and
\* the cache is read once, before the pass.
Opens(w, selected) ==
  /\ pass[w] = None
  /\ pass' = [pass EXCEPT ![w] = [selected |-> selected, deep |-> Phase2Key,
                                  fresh |-> {s \in Symbols : facts[s] = "today"}]]

Closes(w) == pass[w] # None /\ pass' = [pass EXCEPT ![w] = None]

BeginPass(w, selected) ==
  /\ Opens(w, selected)
  /\ queue' = [s \in Symbols |-> IF s \in selected
                                 THEN [queue[s] EXCEPT !.owner = w, !.until = ClaimTtl]
                                 ELSE queue[s]]
  /\ UNCHANGED <<facts, book, faults>>

\* The phase DISCOVERY refreshes; a PROBE does not.
Discover(w) == BeginPass(w, Selection)
Probe(w) == BeginPass(w, {})

-----------------------------------------------------------------------------
(* run_universe_pass *)

\* Phase one: the stale symbols of the selection, best previous rank first, until
\* the pacing ledger refuses.
Admitted(w, quota) ==
  LET stale == pass[w].selected \ pass[w].fresh
      key == [s \in Symbols |-> <<Flag(facts[s] = "none" \/ Score[s] = 0), -Score[s], s>>]
  IN First(quota, stale, key)

\* Phase two: the symbols with facts whose regime permits an entry, in the order of
\* the queue, as far as the slots go.
Considered(w, measured) ==
  First(Phase2Limit, {s \in measured : Score[s] > 0}, pass[w].deep)

\* What a deep probe may come to: refused or exhausted by the pacing ledger, no
\* metadata, no structure worth a nomination, or a candidate.
Outcomes == {"deferred", "unavailable", "ineligible", "candidate"}

Rows(w, admitted, measured, probed) ==
  [s \in Symbols |->
     IF s \in DOMAIN probed THEN probed[s]
     ELSE IF s \in measured THEN IF Score[s] > 0 THEN "unscanned" ELSE "ineligible"
     ELSE IF s \in pass[w].selected \ admitted THEN "deferred"
     ELSE "stale"]

\* _snapshot_from_book: the counts of the book and its verdict; facts of phase one
\* are what makes a row evaluated.
Counts(rows, measured) ==
  LET count(state) == Cardinality({s \in Symbols : rows[s] = state})
      remaining == Cardinality(measured) - count("deferred") - count("unavailable")
  IN [evaluated |-> IF remaining > 0 THEN remaining ELSE 0,
      deferred |-> count("deferred"), unavailable |-> count("unavailable")]

\* Mutant of Complete: a row of any verdict counts.
CompleteByRows(counts) == counts.deferred = 0 /\ counts.unavailable = 0

\* coverage_complete.
Complete(counts) ==
  /\ counts.evaluated = Cardinality(Symbols)
  /\ counts.deferred = 0 /\ counts.unavailable = 0

\* _update_refresh_queue: mark_phase_one for the selected symbols with facts, defer
\* for the others, and mark_phase_two, which clears a claim whoever holds it.
Seen(row, s) ==
  [row EXCEPT !.seen = TRUE, !.due = Interval, !.starved = Interval, !.rank = Score[s],
              !.owner = None, !.until = 0]

Deferred(row, wait) == [row EXCEPT !.due = wait, !.owner = None, !.until = 0]

Updated(w, rows, measured, considered, wait) ==
  [s \in Symbols |->
     LET one == IF s \notin pass[w].selected THEN queue[s]
                ELSE IF s \in measured THEN Seen(queue[s], s)
                ELSE Deferred(queue[s], IF rows[s] = "deferred" THEN wait ELSE Interval)
     IN IF s \in considered
        THEN [one EXCEPT !.two = 0, !.rank = Score[s], !.owner = None, !.until = 0]
        ELSE one]

\* The rest of the pass.  A paced symbol waits for the end of the pause, if there
\* is one, or for an interval.
FinishPass(w) ==
  /\ Closes(w)
  /\ \E quota \in Quotas, wait \in {1, Interval} :
       LET admitted == Admitted(w, quota) IN
       \E failing \in SUBSET (admitted \ Dead) :
         LET measured == pass[w].fresh \cup (admitted \ (Dead \cup failing))
             considered == Considered(w, measured)
         IN /\ faults + Cardinality(failing) <= MaxFaults
            /\ faults' = faults + Cardinality(failing)
            /\ facts' = [s \in Symbols |-> IF s \in measured \ pass[w].fresh THEN "today"
                                           ELSE facts[s]]
            /\ \E probed \in [considered -> Outcomes] :
                 LET rows == Rows(w, admitted, measured, probed) IN
                 /\ queue' = Updated(w, rows, measured, considered, wait)
                 /\ book' = [rows |-> rows, complete |-> Complete(Counts(rows, measured))]

\* A pass that dies leaves its claims to their time to live.
Die(w) ==
  /\ Closes(w) /\ faults < MaxFaults
  /\ faults' = faults + 1
  /\ UNCHANGED <<queue, facts, book>>

-----------------------------------------------------------------------------
(* Time: only the order of past times is ever compared, so the n-th latest of a
   column is kept as -n. *)

Elapsed(column) ==
  LET past == {v \in {column[s] - 1 : s \in DOMAIN column} : v <= 0}
  IN [s \in DOMAIN column |->
        IF column[s] > 1 THEN column[s] - 1
        ELSE -Cardinality({v \in past : v > column[s] - 1})]

Tick ==
  LET probed == {s \in Symbols : queue[s].two # None}
      starved == Elapsed([s \in Symbols |-> queue[s].starved])
      due == Elapsed([s \in Symbols |-> queue[s].due])
      two == Elapsed([s \in probed |-> queue[s].two])
  IN /\ queue' = [s \in Symbols |->
                    [queue[s] EXCEPT !.starved = starved[s], !.due = due[s],
                                     !.two = IF s \in probed THEN two[s] ELSE None,
                                     !.until = IF @ > 0 THEN @ - 1 ELSE 0]]
     /\ UNCHANGED <<facts, pass, book, faults>>

\* Yesterday's series are stale; a session ends when no scan is under way.
NewSession ==
  /\ \A w \in Scanners : pass[w] = None
  /\ \E s \in Symbols : facts[s] = "today"
  /\ facts' = [s \in Symbols |-> IF facts[s] = "none" THEN "none" ELSE "old"]
  /\ book' = None
  /\ UNCHANGED <<queue, pass, faults>>

Next ==
  \/ \E w \in Scanners : Discover(w) \/ Probe(w) \/ FinishPass(w) \/ Die(w)
  \/ Tick
  \/ NewSession

Spec == Init /\ [][Next]_vars

\* A pass of the discovery begins, rather than one of deep probes alone.
Discovers(w) ==
  pass[w] = None /\ pass'[w] # None /\ (Due # {} => pass'[w].selected # {})

\* Time passes, a pass ends, and the fixed-rate schedule comes round to discovery:
\* SF_pass(Discover(w)), told by what the step does.
Fairness ==
  /\ WF_queue(Tick)
  /\ \A w \in Scanners : /\ WF_pass(Closes(w))
                         /\ []<>(pass[w] = None) => []<><<Discovers(w)>>_pass

FairSpec == Spec /\ Fairness

-----------------------------------------------------------------------------
(* Properties *)

TypeOK ==
  /\ \A s \in Symbols :
       /\ queue[s].seen \in BOOLEAN /\ queue[s].rank \in {0, Score[s]}
       /\ queue[s].due <= Interval /\ queue[s].starved <= Interval
       /\ queue[s].owner \in Scanners \cup {None} /\ queue[s].until \in 0 .. ClaimTtl
  /\ facts \in [Symbols -> {"none", "old", "today"}]
  /\ \A w \in Scanners : pass[w] # None => pass[w].selected \subseteq Symbols
  /\ book # None => book.rows \in [Symbols -> States]
  /\ faults \in 0 .. MaxFaults

\* A book that admits entries has measured every symbol of the catalog in this
\* session and left none of them deferred (universe._snapshot_from_book: "Snapshot
\* counts must partition the expected universe").
CompleteIsCurrent ==
  book # None /\ book.complete =>
    \A s \in Symbols : /\ facts[s] = "today"
                       /\ book.rows[s] \in {"unscanned", "ineligible", "candidate"}

\* A stale symbol is refreshed sooner or later, whatever the ranks of the others: "an
\* attractive symbol cannot permanently starve the rest of the catalog"
\* (FairRefreshQueue).
Stale(s) == s \notin Dead /\ facts[s] # "today"
EverySymbolIsRefreshed == \A s \in Symbols : Stale(s) ~> ~Stale(s)

\* Every symbol that permits an entry gets its deep probe again and again: the probes
\* do not "repeatedly select the same ranked symbols forever"
\* (run_catalog_universe_pass).
Probed(s) == Score[s] > 0 => queue[s].two = 0
DeepProbesRotate == \A s \in Symbols \ Dead : []<>Probed(s)

\* Both lanes of the queue come round (observation_cache.FairRefreshQueue).
TurnsComeRound == EverySymbolIsRefreshed /\ DeepProbesRotate

=============================================================================
