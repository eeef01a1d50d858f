---------------------------- MODULE HandoffStore ----------------------------
(***************************************************************************)
(* The handoff state machine of collabkit/store.py: one handoff, the four  *)
(* state directories a copy of its file may be in, and the seats that      *)
(* claim, answer, complete and archive it.  Handoffs are independent: each *)
(* has its own files and its own transition lock.                          *)
(*                                                                         *)
(* A transition is a rename under that lock; the bookkeeping rewrite that  *)
(* follows is outside it, and re-creates the file if somebody has moved it *)
(* on since.  The lock is taken here as exclusive (FileLocking says when   *)
(* it is).                                                                 *)
(***************************************************************************)
EXTENDS Integers, Sequences, FiniteSets

CONSTANTS
  Seat,        \* the processes and threads that call the store
  Operation,   \* the operations they call, of "claim", "complete", "archive", "reply"
  Clobbers,    \* TRUE: rename replaces an existing destination (POSIX)
  RacyRename,  \* TRUE: concurrent renames of one source may all report success
  MaxCrashes,  \* bound: seats that die
  None

VARIABLES
  tree,     \* directory -> the copy of the handoff in it
  lock,     \* the seat that holds the transition lock
  me,       \* seat -> its call and what it has in memory
  pc,
  claimant, \* the seats whose claim moved the file
  crashes

vars == <<tree, lock, me, pc, claimant, crashes>>

\* STATES.
State == {"pending", "claimed", "done", "archive"}

\* The bookkeeping a file carries: claimed_by, and the note of its completion.
Copy == [claimedBy : Seat \cup {None}, note : Seat \cup {None}]

StoreAssumption ==
  /\ Operation \subseteq {"claim", "complete", "archive", "reply"}
  /\ Clobbers \in BOOLEAN
  /\ RacyRename \in BOOLEAN
  /\ MaxCrashes \in Nat
  /\ None \notin Seat \cup Copy

\* Mutant of SearchOrder: every search looks where archive() does.
SearchDoneFirst(op) == <<"done", "archive", "claimed", "pending">>

\* The order in which find() is told to look.
SearchOrder(op) ==
  IF op = "archive" THEN <<"done", "archive", "claimed", "pending">>
                    ELSE <<"pending", "claimed", "done", "archive">>

\* The directory a search has reached: 1 to 4 is the exact pass, 5 to 8 the scan
\* for a prefix, which a full id that was not found goes through as well.
Looking(p) == SearchOrder(me[p].op)[((me[p].at - 1) % 4) + 1]

Exists == \E s \in State : tree[s] # None

Target(op) ==
  CASE op = "claim" -> "claimed"
    [] op = "complete" -> "done"
    [] op = "archive" -> "archive"

\* The statuses each operation accepts; a reply completes its parent.
MayMove(op, status) ==
  CASE op = "claim" -> status = "pending"
    [] op = "archive" -> status = "done"
    [] OTHER -> status \in {"pending", "claimed"}

\* A call: the operation, the position of its search, whether a probe saw the
\* file and the load did not, what the scan matched; the handoff object, where it
\* was found and what it said then; and, as history, whether it existed at the
\* start.
CallFields == {"op", "at", "vanished", "matches", "status", "copy", "existed"}

PCs == {"down", "idle", "probe", "load", "scan", "missing", "found", "locked",
        "rechecked", "moved", "unlocked"}

TypeOK ==
  /\ tree \in [State -> Copy \cup {None}]
  /\ lock \in Seat \cup {None}
  /\ pc \in [Seat -> PCs]
  /\ \A p \in Seat : pc[p] \notin {"down", "idle"} =>
       /\ DOMAIN me[p] = CallFields
       /\ me[p].at \in 1 .. 9
       /\ me[p].matches \subseteq (State \X Copy)
       /\ me[p].status \in State \cup {None}
       /\ \/ me[p].copy \in Copy
          \/ me[p].copy = None /\ pc[p] \in {"probe", "load", "scan", "missing"}
  /\ claimant \subseteq Seat
  /\ crashes \in 0 .. MaxCrashes

Init ==
  /\ tree = [s \in State |-> None]
  /\ lock = None
  /\ me = [p \in Seat |-> None]
  /\ pc = [p \in Seat |-> "idle"]
  /\ claimant = {}
  /\ crashes = 0

Goto(p, to) == pc' = [pc EXCEPT ![p] = to]

\* The call returns or raises: its handoff object is gone.
Finish(p) ==
  /\ me' = [me EXCEPT ![p] = None]
  /\ Goto(p, "idle")

-----------------------------------------------------------------------------
(* Creation, and calls *)

\* create(): a hard link to a finished temporary file.
Create(p) ==
  /\ pc[p] = "idle"
  /\ ~Exists
  /\ tree' = [tree EXCEPT !["pending"] = [claimedBy |-> None, note |-> None]]
  /\ UNCHANGED <<lock, me, pc, claimant, crashes>>

\* A lookup starts, by full id (1) or by a prefix of it (5).
Search(p, op, first) ==
  /\ me' = [me EXCEPT ![p] = [op |-> op, at |-> first, vanished |-> FALSE, matches |-> {},
                              status |-> None, copy |-> None, existed |-> Exists]]
  /\ Goto(p, IF first = 1 THEN "probe" ELSE "scan")

Start(p) ==
  /\ pc[p] = "idle"
  /\ \E op \in Operation, first \in {1, 5} : Search(p, op, first)
  /\ UNCHANGED <<tree, lock, claimant, crashes>>

-----------------------------------------------------------------------------
(* find(): one directory after another, while others move the file *)

\* The next directory, or the scan after the last one.
Advance(p) == Goto(p, IF me[p].at >= 4 THEN "scan" ELSE "probe")

Found(p, status, copy) ==
  /\ me' = [me EXCEPT ![p] = [op |-> me[p].op, at |-> 1, vanished |-> FALSE, matches |-> {},
                              status |-> status, copy |-> copy, existed |-> TRUE]]
  /\ Goto(p, "found")

\* is_file().
Probe(p) ==
  /\ pc[p] = "probe"
  /\ IF tree[Looking(p)] # None
     THEN Goto(p, "load") /\ UNCHANGED me
     ELSE Advance(p) /\ me' = [me EXCEPT ![p].at = @ + 1]
  /\ UNCHANGED <<tree, lock, claimant, crashes>>

\* Mutant of Load: the file the probe saw is taken to be there still.
LoadUnchecked(p) ==
  /\ pc[p] = "load"
  /\ Found(p, Looking(p), tree[Looking(p)])
  /\ UNCHANGED <<tree, lock, claimant, crashes>>

Load(p) ==
  /\ pc[p] = "load"
  /\ IF tree[Looking(p)] # None
     THEN Found(p, Looking(p), tree[Looking(p)])
     ELSE /\ me' = [me EXCEPT ![p].at = @ + 1, ![p].vanished = TRUE]
          /\ Advance(p)
  /\ UNCHANGED <<tree, lock, claimant, crashes>>

\* iter_state() of one directory.
Scan(p) ==
  /\ pc[p] = "scan"
  /\ me[p].at <= 8
  /\ me' = [me EXCEPT ![p].at = @ + 1,
                      ![p].matches = IF tree[Looking(p)] = None THEN @
                                     ELSE @ \cup {<<Looking(p), tree[Looking(p)]>>}]
  /\ UNCHANGED <<tree, lock, pc, claimant, crashes>>

\* One match is the handoff; several are ambiguous; none is a lost race if a
\* probe had seen it, and NotFoundError otherwise.
Resolve(p) ==
  /\ pc[p] = "scan"
  /\ me[p].at = 9
  /\ \/ \E m \in me[p].matches :
          /\ me[p].matches = {m}
          /\ Found(p, m[1], m[2])
     \/ /\ Cardinality(me[p].matches) > 1 \/ (me[p].matches = {} /\ me[p].vanished)
        /\ Finish(p)
     \/ /\ me[p].matches = {} /\ ~me[p].vanished
        /\ Goto(p, "missing")
        /\ UNCHANGED me
  /\ UNCHANGED <<tree, lock, claimant, crashes>>

\* The NotFoundError has reached the caller.
Missing(p) ==
  /\ pc[p] = "missing"
  /\ Finish(p)
  /\ UNCHANGED <<tree, lock, claimant, crashes>>

-----------------------------------------------------------------------------
(* The calls, once they have found it *)

\* Already claimed, done or archived.
Refuse(p) ==
  /\ pc[p] = "found"
  /\ me[p].op # "reply"
  /\ ~MayMove(me[p].op, me[p].status)
  /\ Finish(p)
  /\ UNCHANGED <<tree, lock, claimant, crashes>>

\* reply(): the answer is created, a handoff of its own; then the parent is
\* completed, by another lookup, if it was open when it was found.
Answer(p) ==
  /\ pc[p] = "found"
  /\ me[p].op = "reply"
  /\ IF MayMove("complete", me[p].status) THEN Search(p, "complete", 1) ELSE Finish(p)
  /\ UNCHANGED <<tree, lock, claimant, crashes>>

\* Mutant of Acquire: no lock, the rename alone decides.
AcquireNothing(p) ==
  /\ pc[p] = "found"
  /\ me[p].op # "reply"
  /\ MayMove(me[p].op, me[p].status)
  /\ lock' = p
  /\ Goto(p, "locked")
  /\ UNCHANGED <<tree, me, claimant, crashes>>

Acquire(p) ==
  /\ pc[p] = "found"
  /\ me[p].op # "reply"
  /\ MayMove(me[p].op, me[p].status)
  /\ lock = None
  /\ lock' = p
  /\ Goto(p, "locked")
  /\ UNCHANGED <<tree, me, claimant, crashes>>

LockTimesOut(p) ==
  /\ pc[p] = "found"
  /\ me[p].op # "reply"
  /\ MayMove(me[p].op, me[p].status)
  /\ lock # None
  /\ Finish(p)
  /\ UNCHANGED <<tree, lock, claimant, crashes>>

\* is_file() again, inside the lock.
Recheck(p) ==
  /\ pc[p] = "locked"
  /\ IF tree[me[p].status] # None
     THEN Goto(p, "rechecked") /\ UNCHANGED <<lock, me>>
     ELSE lock' = None /\ Finish(p)
  /\ UNCHANGED <<tree, claimant, crashes>>

\* os.rename.  Where renames do not exclude each other, one that comes late
\* reports success too.
Rename(p) ==
  LET source == me[p].status
      destination == Target(me[p].op)
  IN  /\ pc[p] = "rechecked"
      /\ tree[source] # None \/ RacyRename
      /\ tree[destination] = None \/ Clobbers
      /\ tree' = IF tree[source] = None THEN tree
                 ELSE [tree EXCEPT ![destination] = tree[source], ![source] = None]
      /\ me' = [me EXCEPT ![p].status = destination]
      /\ claimant' = IF me[p].op = "claim" THEN claimant \cup {p} ELSE claimant
      /\ Goto(p, "moved")
      /\ UNCHANGED <<lock, crashes>>

\* FileNotFoundError, FileExistsError, or a file somebody holds open to the end of
\* the retries.
RenameRaises(p) ==
  /\ pc[p] = "rechecked"
  /\ lock' = None
  /\ Finish(p)
  /\ UNCHANGED <<tree, claimant, crashes>>

Unlock(p) ==
  /\ pc[p] = "moved"
  /\ lock' = None
  /\ Goto(p, "unlocked")
  /\ UNCHANGED <<tree, me, claimant, crashes>>

\* The fields a transition adds to what the handoff said when it was found.
Stamped(p) ==
  LET copy == me[p].copy
  IN  CASE me[p].op = "claim" -> [copy EXCEPT !.claimedBy = p]
        [] me[p].op = "complete" ->
             [claimedBy |-> IF copy.claimedBy = None THEN p ELSE copy.claimedBy, note |-> p]
        [] OTHER -> copy

\* _rewrite(): an atomic replace of the path the file was moved to.
Rewrite(p) ==
  /\ pc[p] = "unlocked"
  /\ tree' = [tree EXCEPT ![me[p].status] = Stamped(p)]
  /\ Finish(p)
  /\ UNCHANGED <<lock, claimant, crashes>>

\* An OSError of it is logged and swallowed.
RewriteFails(p) ==
  /\ pc[p] = "unlocked"
  /\ Finish(p)
  /\ UNCHANGED <<tree, lock, claimant, crashes>>

-----------------------------------------------------------------------------
(* Deaths *)

Crash(p) ==
  /\ pc[p] # "down"
  /\ crashes < MaxCrashes
  /\ crashes' = crashes + 1
  /\ me' = [me EXCEPT ![p] = None]
  /\ Goto(p, "down")
  /\ UNCHANGED <<tree, lock, claimant>>

\* A waiter breaks a lock past its TTL whose owner is dead.
BreakLock ==
  /\ lock # None
  /\ pc[lock] = "down"
  /\ lock' = None
  /\ UNCHANGED <<tree, me, pc, claimant, crashes>>

-----------------------------------------------------------------------------
Find(p) == Probe(p) \/ Load(p) \/ Scan(p) \/ Resolve(p) \/ Missing(p)

Transition(p) ==
  \/ Acquire(p)
  \/ LockTimesOut(p)
  \/ Recheck(p)
  \/ Rename(p)
  \/ RenameRaises(p)
  \/ Unlock(p)
  \/ Rewrite(p)
  \/ RewriteFails(p)

Next ==
  \/ BreakLock
  \/ \E p \in Seat :
       Create(p) \/ Start(p) \/ Find(p) \/ Refuse(p) \/ Answer(p) \/ Transition(p) \/ Crash(p)

Spec == Init /\ [][Next]_vars

-----------------------------------------------------------------------------
(* Properties *)

\* "Exactly one caller can win" a claim (store.claim), whatever the rename does
\* about concurrent callers.
OneClaimWinner == Cardinality(claimant) <= 1

\* A lookup in the order in which handoffs move - claim, complete, reply - whose
\* handoff existed when it began does not answer "no handoff matching": a lost
\* race "is not a missing handoff, and the exit code must say so" (store.find),
\* however far the others move it meanwhile.
NotFoundMeansMissing ==
  \A p \in Seat : pc[p] = "missing" /\ me[p].op # "archive" => ~me[p].existed

\* What a seat is told of a handoff is true (store.claim, store.find).
AnswersAreTrue == OneClaimWinner /\ NotFoundMeansMissing

=============================================================================
