----------------------------- MODULE EntryReview -----------------------------
(***************************************************************************)
(* The life of one logical entry (logical.py) between the passes of the    *)
(* runner that services it (runner.py, _logical_entry_pass) and the        *)
(* reviewer who answers its questions through the verifier gate            *)
(* (approval.py).                                                          *)
(*                                                                         *)
(* The entry is the replay of an append-only log; every append compares    *)
(* the version its writer last read with the log's.  What one method of    *)
(* the manager does is several appends and handoff operations, each        *)
(* durable by itself: a runner carries the list of those still to do, and  *)
(* a crash loses the list.                                                 *)
(***************************************************************************)
EXTENDS Integers, Sequences, FiniteSets

CONSTANTS
  Runner,        \* processes that call run_once
  Worker,        \* the scheduled one of them
  Digest,        \* the spec digests the market may produce for this entry
  ReviewTTL,     \* ticks a packet, and so a review, lives
  Skew,          \* CLOCK_SKEW_TOLERANCE, in ticks
  ClaimedMax,    \* RefusalCooldownPolicy.claimed_max_age
  Cooldown,      \* RefusalCooldownPolicy.cooldown
  CooldownMax,   \* RefusalCooldownPolicy.cooldown_max_age
  TerminalAfter, \* RefusalCooldownPolicy.terminal_after
  MaxRevision,   \* bound: revisions filed
  MaxMishaps,    \* bound: runners that die, sends that raise, overlapping passes
  None

\* A reply, as long as it lives, and how old it is.
Answer == [decision : {"APPROVED", "REFUSED", "UNAVAILABLE"}, ttl : 0 .. ReviewTTL,
           age : 0 .. Skew + 1]

ASSUME ReviewAssumption ==
  /\ {ReviewTTL, TerminalAfter, ClaimedMax, CooldownMax, MaxRevision} \subseteq Nat \ {0}
  /\ {Skew, Cooldown, MaxMishaps} \subseteq Nat
  /\ Worker \in Runner
  /\ Cooldown <= CooldownMax
  /\ None \notin Digest \cup Runner \cup Answer

VARIABLES
  entry,    \* the replayed LogicalEntry
  current,  \* runners whose remembered version is the log's
  request,  \* digest -> its review request
  answer,   \* digest -> the reviewer's reply
  marked,   \* digests whose request marker is published
  asking,   \* digest -> holder of the marker's file lock
  spent,    \* digests whose approval is consumed
  sent,     \* digests of the orders placed, in order
  open,     \* how many of them the broker may still be working
  me,       \* runner -> what is left of its pass
  due,      \* the worker's next pass is due
  overlaps, \* passes begun beside another: none, in a one-runner deployment
  rowLost,  \* history: the ScanBook refused this entry's row
  faults    \* runners that died, and sends that raised with the order placed

vars == <<entry, current, request, answer, marked, asking, spent, sent, open, me,
          due, overlaps, rowLost, faults>>
gate == <<request, answer, marked, asking, spent>>
outside == <<sent, open, due, overlaps, rowLost, faults>>

EntryState == {"NONE", "CLAIMED", "AWAITING_REVIEW", "APPROVED_PENDING_EXECUTION",
               "EXECUTING", "FILLED", "REFUSED_COOLDOWN", "EXPIRED", "ABANDONED"}
Active == {"CLAIMED", "AWAITING_REVIEW", "APPROVED_PENDING_EXECUTION", "EXECUTING",
           "REFUSED_COOLDOWN"}
Final == {"FILLED", "EXPIRED", "ABANDONED"}

Larger(a, b) == IF a >= b THEN a ELSE b
MaxAge == Larger(ClaimedMax, CooldownMax)
Older(age, limit) == IF age < limit THEN age + 1 ELSE age

\* ttl: ticks until review_expires_at, or until current_approval_expires_at once
\* approved; age: ticks since created_at, or since refused_at once refused;
\* working: the lineage has a PHYSICAL_SUBMITTED without its resolution.
Entry == [state : EntryState, revision : 1 .. MaxRevision, digest : Digest \cup {None},
          ttl : 0 .. ReviewTTL, age : 0 .. MaxAge, refusals : Nat,
          reserved : BOOLEAN, working : BOOLEAN]

Request == [copies : 0 .. 2, status : {"none", "pending", "claimed", "done"},
            claimedBy : {"nobody", "builder", "reviewer"},
            note : {"none", "withdrawn", "answered"}, ttl : 0 .. ReviewTTL]

Event == {"release", "expired", "lapsed", "abandoned", "superseded", "file", "approved",
          "refused", "submitted", "resolved"}
Step == Event \cup {"claim", "row", "sweep", "service", "ask", "mark", "require",
                    "withdraw", "take", "close", "reread", "limit", "authorize",
                    "consume", "attempt", "place", "work", "outcome"}

NoEntry == [state |-> "NONE", revision |-> 1, digest |-> None, ttl |-> 0, age |-> 0,
            refusals |-> 0, reserved |-> FALSE, working |-> FALSE]
NoRequest == [copies |-> 0, status |-> "none", claimedBy |-> "nobody",
              note |-> "none", ttl |-> 0]
Idle == [todo |-> <<>>, packet |-> None, old |-> None, revision |-> 1, filled |-> FALSE]

\* A runner: the steps left, the digest of the packet it built, the digest whose
\* request it retires, the revision it files and how its order ended.
TypeOK ==
  /\ entry \in Entry
  /\ current \in SUBSET Runner
  /\ request \in [Digest -> Request]
  /\ answer \in [Digest -> Answer \cup {None}]
  /\ marked \in SUBSET Digest
  /\ asking \in [Digest -> Runner \cup {None}]
  /\ spent \in SUBSET Digest
  /\ sent \in Seq(Digest)
  /\ me \in [Runner -> [todo : Seq(Step), packet : Digest \cup {None},
                        old : Digest \cup {None}, revision : 1 .. MaxRevision,
                        filled : BOOLEAN]]
  /\ open \in 0 .. Len(sent)
  /\ due \in BOOLEAN /\ rowLost \in BOOLEAN
  /\ overlaps \in 0 .. MaxMishaps
  /\ faults \in 0 .. MaxMishaps

Init ==
  /\ entry = NoEntry
  /\ current = {}
  /\ request = [d \in Digest |-> NoRequest]
  /\ answer = [d \in Digest |-> None]
  /\ marked = {}
  /\ asking = [d \in Digest |-> None]
  /\ spent = {}
  /\ sent = <<>>
  /\ open = 0
  /\ me = [r \in Runner |-> Idle]
  /\ due = FALSE
  /\ overlaps = 0
  /\ rowLost = FALSE
  /\ faults = 0

Quiet == \A r \in Runner : me[r].todo = <<>>
At(r, step) == me[r].todo # <<>> /\ Head(me[r].todo) = step

\* The step is done; `steps` come before the rest of the pass.
Continue(r, steps) ==
  LET rest == steps \o Tail(me[r].todo)
  IN  me' = [me EXCEPT ![r] = IF rest = <<>> THEN Idle ELSE [@ EXCEPT !.todo = rest]]

\* The method the pass is in returns, or raises: the pass is over.
Finish(r) == me' = [me EXCEPT ![r] = Idle]

Sooner(ttl) == IF ttl > 0 THEN ttl - 1 ELSE 0

-----------------------------------------------------------------------------
(* What the methods of the manager do, as lists of steps *)

\* Mutant of Ending: the ending is recorded first.
EndingFirst(e, event) ==
  <<"reread", event>> \o (IF e.reserved THEN <<"reread", "release">> ELSE <<>>)

\* Every ending releases the reservation first: the replay refuses a terminal
\* entry that holds one.
Ending(e, event) ==
  (IF e.reserved THEN <<"release">> ELSE <<>>) \o <<"reread", event>>

Retire(e, event) == Ending(e, event) \o <<"withdraw">>

\* Mutant of SweepScript: the sweep leaves an entry refused too often to service().
SweepNoZombies(e) ==
  CASE e.state = "AWAITING_REVIEW" /\ e.ttl = 0 -> Retire(e, "expired")
    [] e.state = "APPROVED_PENDING_EXECUTION" /\ e.ttl = 0 -> Ending(e, "lapsed")
    [] e.state = "CLAIMED" /\ e.age >= ClaimedMax -> Retire(e, "abandoned")
    [] e.state = "REFUSED_COOLDOWN" /\ e.age >= CooldownMax -> Retire(e, "abandoned")
    [] OTHER -> <<>>

\* Mutant of SweepScript: no cooldown_max_age.
SweepNoCooldownMax(e) ==
  CASE e.state = "AWAITING_REVIEW" /\ e.ttl = 0 -> Retire(e, "expired")
    [] e.state = "APPROVED_PENDING_EXECUTION" /\ e.ttl = 0 -> Ending(e, "lapsed")
    [] e.state = "CLAIMED" /\ e.age >= ClaimedMax -> Retire(e, "abandoned")
    [] e.state = "REFUSED_COOLDOWN" /\ e.refusals >= TerminalAfter ->
         Retire(e, "abandoned")
    [] OTHER -> <<>>

\* sweep(): the packet-free hygiene at the start of every pass.
SweepScript(e) ==
  CASE e.state = "AWAITING_REVIEW" /\ e.ttl = 0 -> Retire(e, "expired")
    [] e.state = "APPROVED_PENDING_EXECUTION" /\ e.ttl = 0 -> Ending(e, "lapsed")
    [] e.state = "CLAIMED" /\ e.age >= ClaimedMax -> Retire(e, "abandoned")
    [] /\ e.state = "REFUSED_COOLDOWN"
       /\ e.refusals >= TerminalAfter \/ e.age >= CooldownMax -> Retire(e, "abandoned")
    [] OTHER -> <<>>

File == <<"ask", "file">>

Supersede == <<"superseded", "withdraw", "reread">> \o File

\* service(): one pass over the entry with a freshly built packet of digest d.
ServiceScript(e, d) ==
  CASE e.state = "CLAIMED" -> File
    [] e.state = "REFUSED_COOLDOWN" ->
         IF e.refusals >= TerminalAfter THEN Retire(e, "abandoned")
         ELSE IF e.age < Cooldown \/ d = e.digest THEN <<>> ELSE Supersede
    [] e.state = "APPROVED_PENDING_EXECUTION" ->
         IF d # e.digest THEN Supersede
         ELSE IF e.ttl = 0 THEN Ending(e, "lapsed") ELSE <<"authorize">>
    [] e.state = "AWAITING_REVIEW" ->
         IF e.ttl = 0 THEN Retire(e, "expired")
         ELSE IF d # e.digest THEN Supersede ELSE <<"require">>
    [] OTHER -> <<>>

\* One transition of the replay (_apply), written by runner m.
Applied(e, event, m) ==
  CASE event = "release" -> [e EXCEPT !.reserved = FALSE]
    [] event \in {"expired", "lapsed"} -> [e EXCEPT !.state = "EXPIRED"]
    [] event = "abandoned" -> [e EXCEPT !.state = "ABANDONED"]
    [] event = "superseded" -> e
    [] event = "file" -> [e EXCEPT !.state = "AWAITING_REVIEW", !.revision = m.revision,
                                   !.digest = m.packet, !.ttl = ReviewTTL]
    [] event = "approved" -> [e EXCEPT !.state = "APPROVED_PENDING_EXECUTION",
                                       !.ttl = answer[m.packet].ttl]
    [] event = "refused" -> [e EXCEPT !.state = "REFUSED_COOLDOWN", !.age = 0,
                                      !.refusals = @ + 1]
    [] event = "submitted" -> [e EXCEPT !.state = "EXECUTING", !.working = TRUE]
    [] event = "resolved" ->
         [e EXCEPT !.state = IF m.filled THEN "FILLED" ELSE "ABANDONED",
                   !.working = FALSE]

-----------------------------------------------------------------------------
(* A pass *)

\* The worker's passes are one at a time; a pass started by hand may run beside one.
Begin(r) ==
  /\ me[r].todo = <<>>
  /\ \/ r = Worker /\ Quiet /\ due /\ due' = FALSE /\ UNCHANGED overlaps
     \/ /\ r # Worker /\ ~Quiet /\ overlaps + faults < MaxMishaps
        /\ overlaps' = overlaps + 1
        /\ UNCHANGED due
  /\ me' = [me EXCEPT ![r].todo =
              IF entry.state = "NONE" THEN <<"claim">> ELSE <<"sweep", "service">>]
  /\ UNCHANGED <<entry, current, gate, sent, open, rowLost, faults>>

\* claim() of a nomination: ENTRY_CLAIMED is appended only while no active entry
\* holds the underlying; a caller that finds one services it.
Claim(r) ==
  /\ At(r, "claim")
  /\ \/ /\ entry.state = "NONE"
        /\ entry' = [NoEntry EXCEPT !.state = "CLAIMED", !.reserved = TRUE]
        /\ current' = {r}
        /\ Continue(r, <<"row">>)
     \/ /\ entry.state \in Active
        /\ Continue(r, <<"service">>)
        /\ UNCHANGED <<entry, current>>
     \/ /\ entry.state \in Final
        /\ Finish(r)
        /\ UNCHANGED <<entry, current>>
  /\ UNCHANGED <<gate, outside>>

\* The ScanBook row of the nomination is marked claimed; a row that is lost, or a
\* writer that raises, is compensated by ending the entry.
ClaimRow(r) ==
  /\ At(r, "row")
  /\ \/ Continue(r, <<"service">>) /\ UNCHANGED rowLost
     \/ Continue(r, Ending(entry, "abandoned")) /\ rowLost' = TRUE
  /\ UNCHANGED <<entry, current, gate, sent, open, due, overlaps, faults>>

Sweep(r) ==
  /\ At(r, "sweep")
  /\ current' = current \cup {r}
  /\ me' = [me EXCEPT ![r].todo = SweepScript(entry) \o Tail(@), ![r].old = entry.digest]
  /\ UNCHANGED <<entry, gate, outside>>

\* The candidate is rebuilt from the market, and with it the packet.
Service(r) ==
  /\ At(r, "service")
  /\ \E d \in Digest :
       /\ d = entry.digest \/ entry.digest = None \/ entry.revision < MaxRevision
       /\ LET steps == ServiceScript(entry, d)
          IN  IF steps = <<>> THEN Finish(r)
              ELSE me' = [me EXCEPT ![r] =
                     [@ EXCEPT !.todo = steps, !.packet = d, !.old = entry.digest,
                               !.revision = IF steps = Supersede THEN entry.revision + 1
                                                                 ELSE entry.revision]]
  /\ current' = current \cup {r}
  /\ UNCHANGED <<entry, gate, outside>>

\* A gate before the packet refuses (mandate, session, regime, quotes, risk), or one
\* of authorize_open's after the review (kill switch, daily count, arm, slot).
Refused(r) ==
  /\ At(r, "service") \/ At(r, "authorize")
  /\ Finish(r)
  /\ UNCHANGED <<entry, current, gate, outside>>

\* One append to the log, under its file lock: it conflicts when anybody wrote
\* since the runner read the version.
Record(r, event) ==
  /\ At(r, event)
  /\ IF r \in current
     THEN /\ entry' = Applied(entry, event, me[r])
          /\ current' = {}
          /\ Continue(r, <<>>)
     ELSE /\ Finish(r)
          /\ UNCHANGED <<entry, current>>
  /\ UNCHANGED <<gate, outside>>

Reread(r) ==
  /\ At(r, "reread")
  /\ current' = current \cup {r}
  /\ Continue(r, <<>>)
  /\ UNCHANGED <<entry, gate, outside>>

\* After REVIEW_REFUSED: terminal_after.
Limit(r) ==
  /\ At(r, "limit")
  /\ current' = current \cup {r}
  /\ Continue(r, IF entry.refusals >= TerminalAfter THEN Retire(entry, "abandoned")
                                                    ELSE <<>>)
  /\ UNCHANGED <<entry, gate, outside>>

-----------------------------------------------------------------------------
(* The gate *)

\* Mutant of Found: a request whose marker was never published is not looked for.
FoundByMarker(d) == d \in marked

\* request_id_for, then _find_request_for_digest.
Found(d) == d \in marked \/ request[d].copies > 0

\* propose(): the request of this digest is found, or created; its marker is
\* published under the same lock.
Ask(r) ==
  LET d == me[r].packet IN
  /\ At(r, "ask")
  /\ asking[d] = None
  /\ IF d \in marked
     THEN Continue(r, <<>>) /\ UNCHANGED <<request, asking>>
     ELSE /\ Continue(r, <<"mark">>)
          /\ asking' = [asking EXCEPT ![d] = r]
          /\ request' = IF Found(d) THEN request
                        ELSE [request EXCEPT ![d] =
                                IF @.copies > 0 THEN [@ EXCEPT !.copies = 2]
                                ELSE [@ EXCEPT !.copies = 1, !.status = "pending",
                                               !.ttl = ReviewTTL]]
  /\ UNCHANGED <<entry, current, answer, marked, spent, outside>>

Mark(r) ==
  /\ At(r, "mark")
  /\ marked' = marked \cup {me[r].packet}
  /\ asking' = [asking EXCEPT ![me[r].packet] = None]
  /\ Continue(r, <<>>)
  /\ UNCHANGED <<entry, current, request, answer, spent, outside>>

\* Mutant of Covers: an answer counts whoever closed the request.
CoversUnclosed(d) ==
  /\ answer[d].age <= Skew
  /\ answer[d].ttl > 0
  /\ d \notin spent

\* _mismatches: the reviewer claimed and closed the request naming its answer,
\* the answer is not older than the packet by more than the skew, not expired and
\* not consumed.
Covers(d) ==
  /\ request[d].status = "done"
  /\ request[d].claimedBy = "reviewer"
  /\ request[d].note = "answered"
  /\ answer[d].age <= Skew
  /\ answer[d].ttl > 0
  /\ d \notin spent

\* What require() does with the answers to the request of digest d.
Verdict(d) ==
  IF answer[d] = None THEN "AWAITING"
  ELSE IF answer[d].decision # "APPROVED" THEN answer[d].decision
  ELSE IF Covers(d) THEN "APPROVED" ELSE "RAISES"

\* require() inside service().
Require(r) ==
  LET verdict == Verdict(me[r].packet) IN
  /\ At(r, "require")
  /\ CASE verdict = "APPROVED" -> Continue(r, <<"approved", "authorize">>)
       [] verdict = "REFUSED" -> Continue(r, <<"refused", "limit">>)
       [] OTHER -> Finish(r)
  /\ UNCHANGED <<entry, current, gate, outside>>

\* require() inside authorize_open().
Authorize(r) ==
  /\ At(r, "authorize")
  /\ Verdict(me[r].packet) = "APPROVED"
  /\ Continue(r, <<"consume">>)
  /\ UNCHANGED <<entry, current, gate, outside>>

\* consume(): the marker is created exclusively.
Consume(r) ==
  LET d == me[r].packet IN
  /\ At(r, "consume")
  /\ IF d \in spent THEN Finish(r) ELSE Continue(r, <<"attempt">>)
  /\ spent' = spent \cup {d}
  /\ UNCHANGED <<entry, current, request, answer, marked, asking, outside>>

\* withdraw(): the builder's own question is claimed, if nobody has, and closed.
Withdraw(r) ==
  LET status == IF me[r].old = None THEN "none" ELSE request[me[r].old].status IN
  /\ At(r, "withdraw")
  /\ Continue(r, CASE status = "pending" -> <<"take", "close">>
                   [] status = "claimed" -> <<"close">>
                   [] OTHER -> <<>>)
  /\ UNCHANGED <<entry, current, gate, outside>>

\* A claim that the reviewer won raises: withdraw() returns without closing.
TakeBack(r) ==
  LET d == me[r].old IN
  /\ At(r, "take")
  /\ IF request[d].status = "pending"
     THEN /\ request' = [request EXCEPT ![d].status = "claimed",
                                        ![d].claimedBy = "builder"]
          /\ Continue(r, <<>>)
     ELSE /\ me' = [me EXCEPT ![r].todo = Tail(Tail(@))]
          /\ UNCHANGED request
  /\ UNCHANGED <<entry, current, answer, marked, asking, spent, outside>>

Close(r) ==
  LET d == me[r].old IN
  /\ At(r, "close")
  /\ request' = IF request[d].status = "done" THEN request
                ELSE [request EXCEPT ![d].status = "done", ![d].note = "withdrawn"]
  /\ Continue(r, <<>>)
  /\ UNCHANGED <<entry, current, answer, marked, asking, spent, outside>>

-----------------------------------------------------------------------------
(* The physical order *)

\* Mutant of MaySubmit: the lineage is not asked for a working order.
MaySubmitByState(e) == e.state = "APPROVED_PENDING_EXECUTION"

MaySubmit(e) == e.state = "APPROVED_PENDING_EXECUTION" /\ ~e.working

\* record_physical_attempt().
Attempt(r) ==
  /\ At(r, "attempt")
  /\ current' = current \cup {r}
  /\ IF MaySubmit(entry) THEN Continue(r, <<"submitted", "place">>) ELSE Finish(r)
  /\ UNCHANGED <<entry, gate, outside>>

\* place_combo(): it fails before the broker has the order, or succeeds.
Place(r) ==
  /\ At(r, "place")
  /\ \/ Continue(r, <<"outcome">>) /\ UNCHANGED <<sent, open>>
     \/ /\ sent' = Append(sent, me[r].packet)
        /\ open' = open + 1
        /\ Continue(r, <<"work">>)
  /\ UNCHANGED <<entry, current, gate, due, overlaps, rowLost, faults>>

\* It raises with the order at the broker: to the corridor, a failed transmission.
PlaceRaises(r) ==
  /\ At(r, "place")
  /\ overlaps + faults < MaxMishaps
  /\ faults' = faults + 1
  /\ sent' = Append(sent, me[r].packet)
  /\ open' = open + 1
  /\ Continue(r, <<"outcome">>)
  /\ UNCHANGED <<entry, current, gate, due, overlaps, rowLost>>

\* Mutant of Work: an order that died is worked again.
WorkDeadOrder(r) ==
  /\ At(r, "work")
  /\ \/ open' = open - 1 /\ UNCHANGED me
     \/ Finish(r) /\ UNCHANGED open
  /\ UNCHANGED <<entry, current, gate, sent, due, overlaps, rowLost, faults>>

\* The ladder works the order until it is filled or dead, or gives up not knowing:
\* then nothing is recorded on the entry.
Work(r) ==
  /\ At(r, "work")
  /\ \/ /\ open' = open - 1
        /\ \E filled \in BOOLEAN :
             me' = [me EXCEPT ![r].todo = <<"outcome">>, ![r].filled = filled]
     \/ Finish(r) /\ UNCHANGED open
  /\ UNCHANGED <<entry, current, gate, sent, due, overlaps, rowLost, faults>>

\* record_physical_outcome().
Outcome(r) ==
  /\ At(r, "outcome")
  /\ current' = current \cup {r}
  /\ IF entry.state = "EXECUTING" THEN Continue(r, Ending(entry, "resolved"))
                                  ELSE Finish(r)
  /\ UNCHANGED <<entry, gate, outside>>

-----------------------------------------------------------------------------
(* The reviewer, the clock and the operating system *)

reviewerUnchanged == <<entry, current, marked, asking, spent, me, outside>>

ReviewerClaims(d) ==
  /\ request[d].status = "pending"
  /\ request' = [request EXCEPT ![d].status = "claimed", ![d].claimedBy = "reviewer"]
  /\ UNCHANGED <<answer, reviewerUnchanged>>

\* reply() creates the answer first ...
ReviewerReplies(d, decision) ==
  /\ request[d].claimedBy = "reviewer"
  /\ answer[d] = None
  /\ request[d].ttl > 0
  /\ answer' = [answer EXCEPT ![d] =
                  [decision |-> decision, ttl |-> request[d].ttl, age |-> 0]]
  /\ UNCHANGED <<request, reviewerUnchanged>>

\* ... and completes its parent, unless somebody has.
ReviewerCloses(d) ==
  /\ answer[d] # None
  /\ request[d].status = "claimed"
  /\ request' = [request EXCEPT ![d].status = "done", ![d].note = "answered"]
  /\ UNCHANGED <<answer, reviewerUnchanged>>

Reviewer ==
  \E d \in Digest :
    \/ ReviewerClaims(d)
    \/ \E decision \in {"APPROVED", "REFUSED", "UNAVAILABLE"} : ReviewerReplies(d, decision)
    \/ ReviewerCloses(d)

\* Time passes between passes: a pass reads the clock once.
Tick ==
  /\ Quiet
  /\ due' = TRUE
  /\ entry' = [entry EXCEPT !.ttl = Sooner(@), !.age = Older(@, MaxAge)]
  /\ request' = [d \in Digest |-> [request[d] EXCEPT !.ttl = Sooner(@)]]
  /\ answer' = [d \in Digest |-> IF answer[d] = None THEN None
                  ELSE [answer[d] EXCEPT !.ttl = Sooner(@), !.age = Older(@, Skew + 1)]]
  /\ UNCHANGED <<current, marked, asking, spent, sent, open, me, overlaps, rowLost,
                 faults>>

Crash(r) ==
  /\ me[r].todo # <<>>
  /\ overlaps + faults < MaxMishaps
  /\ faults' = faults + 1
  /\ Finish(r)
  /\ asking' = [d \in Digest |-> IF asking[d] = r THEN None ELSE asking[d]]
  /\ UNCHANGED <<entry, current, request, answer, marked, spent, sent, open, due,
                 overlaps, rowLost>>

Pass(r) ==
  \/ Begin(r) \/ Claim(r) \/ ClaimRow(r) \/ Sweep(r) \/ Service(r) \/ Refused(r)
  \/ \E event \in Event : Record(r, event)
  \/ Reread(r) \/ Limit(r) \/ Ask(r) \/ Mark(r) \/ Require(r) \/ Authorize(r)
  \/ Consume(r) \/ Withdraw(r) \/ TakeBack(r) \/ Close(r)
  \/ Attempt(r) \/ Place(r) \/ PlaceRaises(r) \/ Work(r) \/ Outcome(r)

Next == Tick \/ Reviewer \/ \E r \in Runner : Pass(r) \/ Crash(r)

\* The scheduler starts every pass that is due and the clock goes on; the reviewer
\* owes nothing.
Spec ==
  /\ Init /\ [][Next]_vars
  /\ WF_vars(Tick)
  /\ \A r \in Runner : WF_vars(Pass(r))

-----------------------------------------------------------------------------
(* Properties *)

\* "One working physical order per entry" (logical.py:1838), although a second pass
\* runs beside the worker's and may file a new revision under its order: the lineage
\* refuses.  With one runner SentIsReviewed says more, faults or not.
OneWorkingOrder == faults = 0 => open <= 1

\* One review request per spec digest: propose() recovers a request whose creator
\* died before it published the marker.
OneQuestion == \A d \in Digest : request[d].copies <= 1

\* With one runner the entry has one order ever: it is the one the entry names, it
\* was approved through the whole lifecycle of its own request, and the entry knows
\* that it was sent.
SentIsReviewed ==
  overlaps = 0 => \A i \in DOMAIN sent :
    /\ i = 1
    /\ sent[i] = entry.digest
    /\ sent[i] \in spent
    /\ answer[sent[i]].decision = "APPROVED"
    /\ request[sent[i]].note = "answered"
    /\ entry.state \in {"EXECUTING", "FILLED", "ABANDONED"}

\* With one runner, a crash inside an ending leaves no active entry without its
\* reservation but one that the next sweep ends.  An entry whose ScanBook row was
\* refused is not covered: nothing redoes its compensation.
UnreservedIsEnding ==
  /\ overlaps = 0 /\ ~rowLost /\ Quiet
  /\ entry.state \in Active \ {"EXECUTING"}
  /\ ~entry.reserved
  => SweepScript(entry) # <<>>

\* An entry has one order, and one that was reviewed (approval.py, logical.py).
EntryIsSafe == OneWorkingOrder /\ OneQuestion /\ SentIsReviewed /\ UnreservedIsEnding

\* With one runner, whoever crashed, an ended entry is never revived, and it does
\* not hold a reservation that is let go later.
EndingsAreFinal ==
  [][ overlaps = 0 /\ entry.state \in Final =>
        entry'.state = entry.state /\ entry'.reserved = entry.reserved ]_vars

\* A reservation is released in the end, unless an order was sent under it.
ReservationsEnd ==
  overlaps = 0 /\ entry.reserved ~> ~entry.reserved \/ entry.state = "EXECUTING"

\* AWAITING_REVIEW: "A review request for the current revision is on file and
\* unanswered" (logical.py:147-149): while nobody crashed, somebody may still
\* answer it or has.
AskedMeansOpen ==
  overlaps = 0 /\ faults = 0 /\ Quiet /\ entry.state = "AWAITING_REVIEW" =>
    request[entry.digest].status # "done" \/ answer[entry.digest] # None

\* "The answer is picked up on a later pass" (approval.py:53-54): an APPROVED answer
\* that came through the lifecycle and is neither expired nor consumed is accepted
\* by the pass that asks for it.
AnswerIsPickedUp ==
  \A r \in Runner : LET d == me[r].packet IN
    At(r, "require") /\ answer[d] # None =>
      ( /\ answer[d].decision = "APPROVED" /\ answer[d].ttl > 0 /\ d \notin spent
        /\ request[d].note = "answered"
        => Verdict(d) = "APPROVED" )

=============================================================================
