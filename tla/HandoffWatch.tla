---------------------------- MODULE HandoffWatch ----------------------------
(* The watcher of a seat: it polls pending/ for handoffs addressed to the seat and
   announces each of them once (tools/collabkit/watch.py).  What it has announced is
   the seen-set, a file it reads when it starts and writes in every poll that added
   to it.  Around it, seats write handoffs to pending/ and take them away.

   A handoff is a number, the rank of its event in _event_sort_key; its key is its
   file name, so one that returns to pending/ has the same key.  Messages from the
   user follow the same path and are not told apart from handoffs.               *)
EXTENDS Naturals, Sequences, FiniteSets, SequencesExt

CONSTANTS
  Handoffs,      \* the handoffs, numbers in the order they are announced
  Mine,          \* those addressed to the watcher's seat
  Limit,         \* SEEN_LIMIT
  MaxArrivals,   \* bound: times a handoff is put into pending/
  MaxMishaps,    \* bound: deaths of the watcher and failed writes of the seen-set
  None

WatchAssumption ==
  /\ Handoffs \subseteq Nat /\ IsFiniteSet(Handoffs) /\ Mine \subseteq Handoffs
  /\ Limit \in Nat \ {0} /\ None \notin Seq(Handoffs)

VARIABLES
  pending,    \* of each handoff: "absent" from pending/, half written ("torn") or "whole"
  arrivals,   \* times each was put there
  disk,       \* the seen-set file, oldest key first; None before it exists
  step,       \* what the watcher does next
  seen,       \* its seen-set in memory (SeenSet._entries)
  dirty,      \* SeenSet._dirty
  primed,     \* Watcher._primed
  found,      \* keys of this scan it has not loaded yet
  events,     \* the events of this poll
  announced,  \* history: calls of on_event for each handoff, 2 for two or more
  backlog,    \* history: those adopted silently on a cold start
  lost,       \* history: those marked seen by a poll that died before announcing them
  forgotten,  \* history: keys dropped from the seen-set, or not written by a failed flush
  mishaps

volatile == <<step, seen, dirty, primed, found, events>>
history == <<announced, backlog, lost, forgotten, mishaps>>
vars == <<pending, arrivals, disk, volatile, history>>

-----------------------------------------------------------------------------
\* The keys in the order of their events: each stands after those before it.
Sorted(keys) ==
  [i \in 1 .. Cardinality(keys) |->
     CHOOSE h \in keys : Cardinality({k \in keys : k < h}) = i - 1]

\* SeenSet.add of each key, in order.
Add(entries, keys) == entries \o Sorted(keys \ ToSet(entries))

\* Mutant of Flush: a flush that is never written.
FlushLater ==
  /\ dirty' = FALSE
  /\ UNCHANGED <<disk, seen, forgotten, mishaps>>

\* SeenSet.flush: drop the oldest entries over the limit, then write; a write that
\* fails is not tried again before the next entry.
Flush ==
  /\ dirty' = FALSE
  /\ IF dirty
     THEN LET over == IF Len(seen) > Limit THEN Len(seen) - Limit ELSE 0
              dropped == {seen[i] : i \in 1 .. over}
          IN /\ seen' = SubSeq(seen, over + 1, Len(seen))
             /\ \/ /\ disk' = seen'
                   /\ forgotten' = forgotten \cup dropped
                   /\ UNCHANGED mishaps
                \/ /\ mishaps < MaxMishaps /\ mishaps' = mishaps + 1
                   /\ forgotten' = forgotten \cup dropped \cup ToSet(seen)
                   /\ UNCHANGED disk
     ELSE UNCHANGED <<disk, seen, forgotten, mishaps>>

-----------------------------------------------------------------------------
(* The watcher.                                                              *)

Init ==
  /\ pending \in [Handoffs -> {"absent", "whole"}]
  /\ arrivals = [h \in Handoffs |-> IF pending[h] = "absent" THEN 0 ELSE 1]
  /\ disk = None
  /\ step = "down" /\ seen = <<>> /\ dirty = FALSE /\ primed = FALSE
  /\ found = {} /\ events = {}
  /\ announced = [h \in Handoffs |-> 0]
  /\ backlog = {} /\ lost = {} /\ forgotten = {} /\ mishaps = 0

\* Watcher.__init__ and SeenSet._load; `loud` is announce_backlog.
Start ==
  /\ step = "down"
  /\ seen' = IF disk = None THEN <<>> ELSE disk
  /\ \E loud \in BOOLEAN : primed' = (loud \/ disk # None)
  /\ step' = "poll"
  /\ UNCHANGED <<pending, arrivals, disk, dirty, found, events, history>>

Listed == {h \in Handoffs : pending[h] # "absent"}

\* _ensure_primed: what is there on a cold start is seen, by its name alone.
Prime ==
  /\ step = "poll" /\ ~primed
  /\ primed' = TRUE
  /\ seen' = Add(seen, Listed) /\ dirty' = TRUE
  /\ backlog' = backlog \cup Listed
  /\ step' = "primed"
  /\ UNCHANGED <<pending, arrivals, disk, found, events, announced, lost,
                 forgotten, mishaps>>

PrimeFlush ==
  /\ step = "primed"
  /\ Flush
  /\ step' = "poll"
  /\ UNCHANGED <<pending, arrivals, primed, found, events, announced, backlog,
                 lost>>

\* _scan_handoffs: the names in pending/, and of these the keys not seen.
Scan ==
  /\ step = "poll" /\ primed
  /\ found' = Listed \ ToSet(seen)
  /\ step' = "load"
  /\ UNCHANGED <<pending, arrivals, disk, seen, dirty, primed, events, history>>

\* Mutant of Load: a file that cannot be read is marked seen.
LoadOnce(h) ==
  /\ step = "load" /\ h \in found
  /\ found' = found \ {h}
  /\ IF pending[h] = "whole" /\ h \in Mine
     THEN events' = events \cup {h} /\ UNCHANGED <<seen, dirty>>
     ELSE seen' = Add(seen, {h}) /\ dirty' = TRUE /\ UNCHANGED events
  /\ UNCHANGED <<pending, arrivals, disk, step, primed, history>>

\* _handoff_loader: a file that is gone or half written is left for the next poll,
\* one for the other seat is marked seen.
Load(h) ==
  /\ step = "load" /\ h \in found
  /\ found' = found \ {h}
  /\ \/ pending[h] # "whole" /\ UNCHANGED <<seen, dirty, events>>
     \/ /\ pending[h] = "whole" /\ h \notin Mine
        /\ seen' = Add(seen, {h}) /\ dirty' = TRUE /\ UNCHANGED events
     \/ /\ pending[h] = "whole" /\ h \in Mine
        /\ events' = events \cup {h} /\ UNCHANGED <<seen, dirty>>
  /\ UNCHANGED <<pending, arrivals, disk, step, primed, history>>

\* The end of poll(): every event is marked seen ...
Mark ==
  /\ step = "load" /\ found = {}
  /\ seen' = Add(seen, events)
  /\ dirty' = (dirty \/ events \ ToSet(seen) # {})
  /\ step' = "flush"
  /\ UNCHANGED <<pending, arrivals, disk, primed, found, events, history>>

\* ... and the seen-set is written, before any event is announced.
PollFlush ==
  /\ step = "flush"
  /\ Flush
  /\ step' = "emit"
  /\ UNCHANGED <<pending, arrivals, primed, found, events, announced, backlog,
                 lost>>

\* run(): on_event for each event, the most urgent first, whatever it raises.
Emit(h) ==
  /\ step = "emit" /\ h \in events /\ \A other \in events : h <= other
  /\ announced' = [announced EXCEPT ![h] = IF @ = 0 THEN 1 ELSE 2]
  /\ events' = events \ {h}
  /\ UNCHANGED <<pending, arrivals, disk, step, seen, dirty, primed, found, backlog,
                 lost, forgotten, mishaps>>

\* run(): sleep and poll again.
Sleep ==
  /\ step = "emit" /\ events = {}
  /\ step' = "poll"
  /\ UNCHANGED <<pending, arrivals, disk, seen, dirty, primed, found, events, history>>

Down ==
  /\ step' = "down" /\ seen' = <<>> /\ dirty' = FALSE /\ primed' = FALSE
  /\ found' = {} /\ events' = {}

\* run() ends after a poll: a signal, --once or --max-polls.
Stop ==
  /\ step = "emit" /\ events = {}
  /\ Down
  /\ UNCHANGED <<pending, arrivals, disk, history>>

\* The process dies.
Die ==
  /\ step # "down" /\ mishaps < MaxMishaps
  /\ Down
  /\ lost' = IF disk = None THEN lost ELSE lost \cup (events \cap ToSet(disk))
  /\ mishaps' = mishaps + 1
  /\ UNCHANGED <<pending, arrivals, disk, announced, backlog, forgotten>>

-----------------------------------------------------------------------------
(* The seats around it: atomic writes of the tools and files written by hand.  *)

Arrive(h) ==
  /\ pending[h] = "absent" /\ arrivals[h] < MaxArrivals
  /\ \E content \in {"torn", "whole"} : pending' = [pending EXCEPT ![h] = content]
  /\ arrivals' = [arrivals EXCEPT ![h] = @ + 1]
  /\ UNCHANGED <<disk, volatile, history>>

Finish(h) ==
  /\ pending[h] = "torn"
  /\ pending' = [pending EXCEPT ![h] = "whole"]
  /\ UNCHANGED <<arrivals, disk, volatile, history>>

\* Claimed, or withdrawn.
Leave(h) ==
  /\ pending[h] = "whole"
  /\ pending' = [pending EXCEPT ![h] = "absent"]
  /\ UNCHANGED <<arrivals, disk, volatile, history>>

Poll ==
  \/ Prime \/ PrimeFlush \/ Scan \/ Mark \/ PollFlush \/ Sleep
  \/ \E h \in Handoffs : Load(h) \/ Emit(h)

Next ==
  \/ Start \/ Poll \/ Stop \/ Die
  \/ \E h \in Handoffs : Arrive(h) \/ Finish(h) \/ Leave(h)

Spec == Init /\ [][Next]_vars

\* The watcher's loop runs; nobody has to start it, or to write a handoff.
FairSpec == Spec /\ WF_vars(Poll)

-----------------------------------------------------------------------------
TypeOK ==
  /\ pending \in [Handoffs -> {"absent", "torn", "whole"}]
  /\ arrivals \in [Handoffs -> 0 .. MaxArrivals]
  /\ disk # None => ToSet(disk) \subseteq Handoffs /\ IsInjective(disk) /\ Len(disk) <= Limit
  /\ step \in {"down", "poll", "primed", "load", "flush", "emit"}
  /\ ToSet(seen) \subseteq Handoffs /\ IsInjective(seen)
  /\ dirty \in BOOLEAN /\ primed \in BOOLEAN
  /\ found \subseteq Handoffs /\ events \subseteq Mine
  /\ announced \in [Handoffs -> 0 .. 2]
  /\ backlog \subseteq Handoffs /\ lost \subseteq Mine /\ forgotten \subseteq Handoffs
  /\ mishaps \in 0 .. MaxMishaps

\* "What a seat is shown, once, and never twice" (test_watch.py): across restarts,
\* and when a handoff comes back to pending/, only a key the bound of the seen-set
\* dropped or a failed write left out is announced again (watch.SeenSet).
RepeatsAreExplained ==
  \A h \in Handoffs : announced[h] > 1 => h \in forgotten

\* A handoff for this seat in pending/ that the watcher neither adopted as backlog
\* nor lost in a poll that died (watch.Watcher.poll): a running watcher announces
\* it, however often its file was half written when the poll read it.
Waiting ==
  /\ step # "down"
  /\ \E h \in Mine \ (backlog \cup lost) : pending[h] = "whole" /\ announced[h] = 0

ArrivalsAreAnnounced == Waiting ~> ~Waiting

\* "The seen-set is persisted after each successful emit, so a crash mid-poll can
\* re-announce a handoff ... a dropped review request is the failure mode this whole
\* system exists to prevent" (watch.py): what the seen-set file holds of this seat
\* was announced, or is about to be.
NothingIsDropped ==
  disk # None =>
    \A h \in Mine \cap ToSet(disk) : announced[h] > 0 \/ h \in backlog \/ h \in events

=============================================================================
