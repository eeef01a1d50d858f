---------------------------- MODULE ReviewProofs ----------------------------
(***************************************************************************)
(* Proofs about EntryReview, for every set of digests and runners, every   *)
(* policy of the cooldowns and every number of crashes and overlapping     *)
(* passes.                                                                 *)
(*                                                                         *)
(* What is left of a pass is a list of steps.  The proofs look at such a   *)
(* list through its first step and the set of its steps, and through which *)
(* step may come after which.                                              *)
(***************************************************************************)
EXTENDS EntryReview, TLAPS

-----------------------------------------------------------------------------
(* Lists of steps *)

Of(t) == {t[i] : i \in DOMAIN t}

Endings == {"expired", "lapsed", "abandoned", "resolved"}
Closing == {"withdraw", "close", "service"}
Filing == {"ask", "file"}

\* What may come after a step in the rest of a pass.
Follows(x, y) ==
  \/ x = "release" /\ y \in {"reread"} \cup Endings \cup Closing
  \/ x = "reread" /\ y \in Endings \cup Closing \cup Filing
  \/ x \in Endings /\ y \in Closing
  \/ x \in {"superseded", "withdraw", "take", "close"}
     /\ y \in Closing \cup {"reread"} \cup Filing
  \/ x \in {"ask", "mark"} /\ y = "file"
  \/ x = "approved" /\ y = "authorize"
  \/ x = "refused" /\ y = "limit"
  \/ x = "submitted" /\ y = "place"
  \/ x = "sweep" /\ y = "service"

Ordered(t) == \A i, j \in DOMAIN t : i < j => Follows(t[i], t[j])

Plan(t) == t \in Seq(Step) /\ Ordered(t)

\* The first step of a list and the rest of it.
LEMMA FirstAndRest ==
  ASSUME NEW t, Plan(t), t # <<>>
  PROVE  /\ Plan(Tail(t)) /\ Len(Tail(t)) = Len(t) - 1 /\ Len(t) \in Nat
         /\ Of(t) = {Head(t)} \cup Of(Tail(t))
         /\ \A y \in Of(Tail(t)) : Follows(Head(t), y)
<1> USE DEF Plan
<1>1. /\ Len(t) \in Nat \ {0} /\ DOMAIN t = 1 .. Len(t)
      /\ Head(t) = t[1] /\ Head(t) \in Step
  OBVIOUS
<1>2. /\ Tail(t) \in Seq(Step) /\ DOMAIN Tail(t) = 1 .. Len(t) - 1
      /\ Len(Tail(t)) = Len(t) - 1
      /\ \A i \in 1 .. Len(t) - 1 : Tail(t)[i] = t[i + 1]
  OBVIOUS
<1>3. Of(t) = {Head(t)} \cup Of(Tail(t))
  <2>1. ASSUME NEW i \in DOMAIN t
        PROVE  t[i] = Head(t) \/ \E j \in DOMAIN Tail(t) : t[i] = Tail(t)[j]
    <3>1. CASE i = 1
      BY <1>1, <3>1
    <3>2. CASE i # 1
      <4>1. i - 1 \in DOMAIN Tail(t) /\ Tail(t)[i - 1] = t[i]
        BY <1>1, <1>2, <3>2
      <4>2. QED
        BY <4>1
    <3>3. QED
      BY <3>1, <3>2
  <2>2. ASSUME NEW j \in DOMAIN Tail(t) PROVE \E i \in DOMAIN t : t[i] = Tail(t)[j]
    BY <1>1, <1>2
  <2>3. Head(t) \in Of(t)
    BY <1>1 DEF Of
  <2>4. Of(Tail(t)) \subseteq Of(t)
    BY <2>2 DEF Of
  <2>5. Of(t) \subseteq {Head(t)} \cup Of(Tail(t))
    BY <2>1 DEF Of
  <2>6. QED
    BY <2>3, <2>4, <2>5
<1>4. Ordered(Tail(t))
  <2> SUFFICES ASSUME NEW i \in 1 .. Len(t) - 1, NEW j \in 1 .. Len(t) - 1, i < j
               PROVE  Follows(Tail(t)[i], Tail(t)[j])
    BY <1>2 DEF Ordered
  <2>1. /\ i + 1 \in DOMAIN t /\ j + 1 \in DOMAIN t /\ i + 1 < j + 1
        /\ Tail(t)[i] = t[i + 1] /\ Tail(t)[j] = t[j + 1]
    BY <1>1, <1>2
  <2>2. QED
    BY <2>1 DEF Ordered
<1>5. \A y \in Of(Tail(t)) : Follows(Head(t), y)
  <2>1. ASSUME NEW j \in DOMAIN Tail(t) PROVE Follows(Head(t), Tail(t)[j])
    <3>1. j + 1 \in DOMAIN t /\ 1 \in DOMAIN t /\ 1 < j + 1 /\ Tail(t)[j] = t[j + 1]
      BY <1>1, <1>2
    <3>2. QED
      BY <1>1, <3>1 DEF Ordered
  <2>2. QED
    BY <2>1 DEF Of
<1>6. QED
  BY <1>1, <1>2, <1>3, <1>4, <1>5

\* What comes after the first two steps.
LEMMA RestOfTwo ==
  ASSUME NEW t, Plan(t), Len(t) > 1
  PROVE  Plan(Tail(Tail(t))) /\ Of(Tail(Tail(t))) \subseteq Of(Tail(t))
<1>1. t # <<>>
  BY DEF Plan
<1>2. Plan(Tail(t)) /\ Len(Tail(t)) = Len(t) - 1 /\ Len(t) \in Nat
  BY <1>1, FirstAndRest
<1>3. ASSUME NEW u, Plan(u), Len(u) = Len(t) - 1
      PROVE  Plan(Tail(u)) /\ Of(Tail(u)) \subseteq Of(u)
  <2>1. Len(u) # 0
    BY <1>2, <1>3
  <2>2. u # <<>>
    BY <2>1
  <2>3. QED
    BY <1>3, <2>2, FirstAndRest
<1>4. QED
  BY <1>2, <1>3, Zenon

\* One list before another.
LEMMA Joined ==
  ASSUME NEW s, Plan(s), NEW t, Plan(t), \A x \in Of(s), y \in Of(t) : Follows(x, y)
  PROVE  /\ Plan(s \o t) /\ Of(s \o t) = Of(s) \cup Of(t)
         /\ Len(s \o t) = Len(s) + Len(t)
<1> USE DEF Plan
<1>1. /\ s \o t \in Seq(Step) /\ Len(s \o t) = Len(s) + Len(t)
      /\ Len(s) \in Nat /\ Len(t) \in Nat
      /\ DOMAIN s = 1 .. Len(s) /\ DOMAIN t = 1 .. Len(t)
      /\ DOMAIN (s \o t) = 1 .. Len(s) + Len(t)
  OBVIOUS
<1>2. /\ \A i \in 1 .. Len(s) : (s \o t)[i] = s[i]
      /\ \A i \in 1 .. Len(s) + Len(t) : i > Len(s) => (s \o t)[i] = t[i - Len(s)]
  OBVIOUS
<1>3. Of(s \o t) \subseteq Of(s) \cup Of(t)
  BY <1>1, <1>2 DEF Of
<1>4. Of(s) \subseteq Of(s \o t)
  BY <1>1, <1>2 DEF Of
<1>5. Of(t) \subseteq Of(s \o t)
  <2>1. ASSUME NEW j \in 1 .. Len(t)
        PROVE  (s \o t)[j + Len(s)] = t[j] /\ j + Len(s) \in 1 .. Len(s) + Len(t)
    BY <1>1, <1>2
  <2>2. QED
    BY <1>1, <2>1 DEF Of
<1>6. Ordered(s \o t)
  <2> SUFFICES ASSUME NEW i \in 1 .. Len(s) + Len(t), NEW j \in 1 .. Len(s) + Len(t), i < j
               PROVE  Follows((s \o t)[i], (s \o t)[j])
    BY <1>1 DEF Ordered
  <2>1. CASE j <= Len(s)
    BY <1>1, <1>2, <2>1 DEF Ordered
  <2>2. CASE i > Len(s)
    <3>1. /\ i - Len(s) \in DOMAIN t /\ j - Len(s) \in DOMAIN t
          /\ i - Len(s) < j - Len(s)
      BY <1>1, <2>2
    <3>2. (s \o t)[i] = t[i - Len(s)] /\ (s \o t)[j] = t[j - Len(s)]
      BY <1>1, <1>2, <2>2
    <3>3. QED
      BY <3>1, <3>2 DEF Ordered
  <2>3. CASE i <= Len(s) /\ j > Len(s)
    <3>1. (s \o t)[i] \in Of(s)
      BY <1>1, <1>2, <2>3 DEF Of
    <3>2. (s \o t)[j] \in Of(t)
      BY <1>1, <1>2, <2>3 DEF Of
    <3>3. QED
      BY <3>1, <3>2
  <2>4. QED
    BY <1>1, <2>1, <2>2, <2>3
<1>7. QED
  BY <1>1, <1>3, <1>4, <1>5, <1>6

\* The short lists that the actions put together.
LEMMA None0 == Plan(<<>>) /\ Of(<<>>) = {} /\ Len(<<>>) = 0
  BY DEF Plan, Ordered, Of

\* A list of one step.
LEMMA One ==
  ASSUME NEW a \in Step
  PROVE  Plan(<<a>>) /\ Of(<<a>>) = {a} /\ Len(<<a>>) = 1
  BY DEF Plan, Ordered, Of

\* A list of two steps, the second of which may follow the first.
LEMMA Two ==
  ASSUME NEW a \in Step, NEW b \in Step, Follows(a, b)
  PROVE  Plan(<<a, b>>) /\ Of(<<a, b>>) = {a, b} /\ Len(<<a, b>>) = 2
<1>1. <<a, b>> \in Seq(Step) /\ Len(<<a, b>>) = 2 /\ DOMAIN <<a, b>> = 1 .. 2
  OBVIOUS
<1>2. Of(<<a, b>>) = {a, b}
  BY DEF Of
<1>3. Ordered(<<a, b>>)
  BY <1>1 DEF Ordered
<1>4. QED
  BY <1>1, <1>2, <1>3 DEF Plan

\* The list of a supersession.
LEMMA Five ==
  ASSUME NEW t \in Seq(Step), Len(t) = 5,
         t[1] = "superseded", t[2] = "withdraw", t[3] = "reread", t[4] = "ask", t[5] = "file"
  PROVE  /\ Plan(t)
         /\ Of(t) = {"superseded", "withdraw", "reread", "ask", "file"}
<1>1. DOMAIN t = 1 .. 5
  OBVIOUS
<1>3. Of(t) = {"superseded", "withdraw", "reread", "ask", "file"}
  BY <1>1 DEF Of
<1>4. Ordered(t)
  <2> SUFFICES ASSUME NEW i \in 1 .. 5, NEW j \in 1 .. 5, i < j
               PROVE  Follows(t[i], t[j])
    BY <1>1 DEF Ordered
  <2>1. i \in {1, 2, 3, 4} /\ j \in {2, 3, 4, 5}
    OBVIOUS
  <2>2. QED
    BY <2>1 DEF Follows, Endings, Closing, Filing
<1>5. QED
  BY <1>1, <1>3, <1>4 DEF Plan

-----------------------------------------------------------------------------
(* The inductive invariant, whoever runs beside whom *)

\* Steps that use the packet, and steps that ask or answer for the current revision.
Packaged == {"ask", "mark", "file", "require", "approved", "authorize", "consume",
             "attempt", "submitted", "place"}
Asked == {"require", "approved", "refused", "authorize", "consume", "attempt", "submitted"}

Todo(r) == Of(me[r].todo)

\* What a runner m with the steps S before it relies on: e is the entry, q the
\* requests and a the answers.
Backed(S, m, e, q, a) ==
  /\ S \cap Packaged # {} => m.packet \in Digest
  /\ S \cap {"take", "close"} # {} => m.old \in Digest /\ q[m.old].status # "none"
  /\ "approved" \in S => a[m.packet] # None
  /\ S \cap Asked # {} => e.digest # None
  /\ ~(S \subseteq {"claim"}) => e.state # "NONE"

\* The rest of a pass, whatever the other runners do meanwhile.
Planned(r) ==
  /\ Plan(me[r].todo)
  /\ "take" \in Todo(r) => Len(me[r].todo) > 1
  /\ "release" \in Todo(r) => Todo(r) \cap Endings # {}
  /\ Backed(Todo(r), me[r], entry, request, answer)

\* Between the record of the submission and that of its outcome.
Working(r) ==
  \/ Todo(r) \cap {"work", "outcome", "resolved"} # {}
  \/ "place" \in Todo(r) /\ "submitted" \notin Todo(r)

\* The lineage admits one working order.
Lineage ==
  /\ \A r \in Runner : Working(r) => entry.working
  /\ \A r, q \in Runner : Working(r) /\ Working(q) => r = q
  /\ \A r \in Runner : "submitted" \in Todo(r) /\ r \in current => ~entry.working
  /\ \A r \in Runner : "work" \in Todo(r) => open > 0
  /\ faults = 0 =>
       /\ open <= 1
       /\ open = 1 => entry.working
       /\ \A r \in Runner : open = 1 /\ Working(r) => "work" \in Todo(r)

\* What the state of the entry says of it.
Known ==
  /\ entry.state \in {"AWAITING_REVIEW", "APPROVED_PENDING_EXECUTION", "EXECUTING",
                      "REFUSED_COOLDOWN"} => entry.digest # None
  /\ entry.state = "NONE" => ~entry.working /\ entry.digest = None

Questions ==
  \A d \in Digest : /\ request[d].copies <= 1
                    /\ request[d].status # "none" => request[d].copies > 0

RaceInv ==
  /\ TypeOK
  /\ \A r \in Runner : Planned(r)
  /\ Lineage
  /\ Known
  /\ Questions

-----------------------------------------------------------------------------
(* What one runner alone adds *)

Reviewed(d) ==
  /\ request[d].status = "done" /\ request[d].note = "answered"
  /\ answer[d] # None /\ answer[d].decision = "APPROVED"

Has(step) == step \in Todo(Worker)
Live == {"CLAIMED", "AWAITING_REVIEW", "APPROVED_PENDING_EXECUTION", "REFUSED_COOLDOWN"}
Approved == entry.state = "APPROVED_PENDING_EXECUTION" /\ me[Worker].packet = entry.digest

\* The rest of the pass fits the entry.
Fits ==
  /\ Has("claim") => entry.state = "NONE"
  /\ Has("row") => entry.state = "CLAIMED"
  /\ Todo(Worker) \cap {"file", "ask", "mark", "superseded"} # {} => entry.state \in Live
  /\ Has("expired") => entry.state = "AWAITING_REVIEW"
  /\ Has("lapsed") => entry.state = "APPROVED_PENDING_EXECUTION"
  /\ Has("abandoned") => entry.state \in {"CLAIMED", "REFUSED_COOLDOWN"}
  /\ Todo(Worker) \cap {"expired", "lapsed", "abandoned"} # {} =>
       rowLost \/ SweepScript(entry) # <<>>
  /\ Has("require") => entry.state = "AWAITING_REVIEW" /\ me[Worker].packet = entry.digest
  /\ Has("approved") =>
       /\ entry.state = "AWAITING_REVIEW" /\ me[Worker].packet = entry.digest
       /\ Reviewed(entry.digest)
  /\ Has("refused") => entry.state = "AWAITING_REVIEW"
  /\ Has("limit") /\ ~Has("refused") => entry.state = "REFUSED_COOLDOWN"
  /\ Has("authorize") /\ ~Has("approved") => Approved
  /\ Todo(Worker) \cap {"consume", "attempt", "submitted"} # {} =>
       Approved /\ Reviewed(entry.digest)
  /\ Has("attempt") \/ Has("submitted") => entry.digest \in spent
  /\ Working(Worker) => entry.state = "EXECUTING"
  /\ Has("place") /\ ~Has("submitted") =>
       /\ me[Worker].packet = entry.digest /\ entry.digest \in spent
       /\ Reviewed(entry.digest) /\ sent = <<>>

NobodyElse == \A r \in Runner \ {Worker} : me[r].todo = <<>>

\* What is true of the entry once its order is sent.
SentFits ==
  sent # <<>> =>
    /\ Len(sent) = 1 /\ sent[1] = entry.digest
    /\ entry.digest \in spent /\ Reviewed(entry.digest)
    /\ entry.state \in {"EXECUTING", "FILLED", "ABANDONED"}

\* An active entry that has lost its reservation is about to end.
Loose == entry.state \in Live /\ ~entry.reserved /\ ~rowLost

LooseFits ==
  Loose =>
    /\ SweepScript(entry) # <<>>
    /\ \/ me[Worker].todo = <<>>
       \/ Has("sweep")
       \/ Todo(Worker) \cap Endings # {}

AloneInv == NobodyElse /\ Fits /\ SentFits /\ LooseFits

ReviewInv == RaceInv /\ (overlaps = 0 => AloneInv)

-----------------------------------------------------------------------------
(* The scripts of the manager's methods *)

\* When sweep() has something to do.
Due(e) ==
  \/ e.state \in {"AWAITING_REVIEW", "APPROVED_PENDING_EXECUTION"} /\ e.ttl = 0
  \/ e.state = "CLAIMED" /\ e.age >= ClaimedMax
  \/ /\ e.state = "REFUSED_COOLDOWN"
     /\ e.refusals >= TerminalAfter \/ e.age >= CooldownMax

Dying == {"expired", "lapsed", "abandoned"}

\* The steps of an ending of entry e that sweep() or service() decides.
Ends(e, t) ==
  /\ Plan(t) /\ t # <<>>
  /\ Of(t) \subseteq {"release", "reread", "withdraw"} \cup Dying
  /\ "reread" \in Of(t) /\ Of(t) \cap Dying # {}
  /\ "expired" \in Of(t) => e.state = "AWAITING_REVIEW"
  /\ "lapsed" \in Of(t) => e.state = "APPROVED_PENDING_EXECUTION"
  /\ "abandoned" \in Of(t) => e.state \in {"CLAIMED", "REFUSED_COOLDOWN"}

\* An ending lets the reservation go, if there is one, and records the end.
LEMMA EndingShape ==
  ASSUME NEW e, NEW x \in Endings
  PROVE  /\ Plan(Ending(e, x)) /\ Ending(e, x) # <<>>
         /\ Of(Ending(e, x)) = (IF e.reserved THEN {"release"} ELSE {}) \cup {"reread", x}
<1>1. /\ "reread" \in Step /\ x \in Step /\ "release" \in Step
      /\ Follows("reread", x) /\ Follows("release", "reread") /\ Follows("release", x)
  BY DEF Step, Event, Endings, Follows
<1>2. Plan(<<"reread", x>>) /\ Of(<<"reread", x>>) = {"reread", x}
  BY <1>1, Two
<1>3. CASE e.reserved
  <2>1. Ending(e, x) = <<"release">> \o <<"reread", x>>
    BY <1>3 DEF Ending
  <2>2. Plan(<<"release">>) /\ Of(<<"release">>) = {"release"}
    BY <1>1, One
  <2>3. \A a \in Of(<<"release">>), b \in Of(<<"reread", x>>) : Follows(a, b)
    BY <1>1, <1>2, <2>2
  <2>4. /\ Plan(Ending(e, x))
        /\ Of(Ending(e, x)) = Of(<<"release">>) \cup Of(<<"reread", x>>)
    BY <1>2, <2>1, <2>2, <2>3, Joined
  <2>5. Of(Ending(e, x)) = {"release"} \cup {"reread", x}
    BY <1>2, <2>2, <2>4
  <2>6. Ending(e, x) # <<>>
    BY <2>5, None0
  <2>7. QED
    BY <1>3, <2>4, <2>5, <2>6
<1>4. CASE ~e.reserved
  <2>1. Ending(e, x) = <<>> \o <<"reread", x>>
    BY <1>4 DEF Ending
  <2>2. \A a \in Of(<<>>), b \in Of(<<"reread", x>>) : Follows(a, b)
    BY None0
  <2>3. Plan(Ending(e, x)) /\ Of(Ending(e, x)) = Of(<<>>) \cup Of(<<"reread", x>>)
    BY <1>2, <2>1, <2>2, None0, Joined
  <2>4. Of(Ending(e, x)) = {"reread", x}
    BY <1>2, <2>3, None0
  <2>5. Ending(e, x) # <<>>
    BY <2>4, None0
  <2>6. QED
    BY <1>4, <2>3, <2>4, <2>5
<1>5. QED
  BY <1>3, <1>4

\* ... and then withdraws the question.
LEMMA RetireShape ==
  ASSUME NEW e, NEW x \in Endings
  PROVE  /\ Plan(Retire(e, x)) /\ Retire(e, x) # <<>>
         /\ Of(Retire(e, x)) =
              (IF e.reserved THEN {"release"} ELSE {}) \cup {"reread", x, "withdraw"}
<1>1. /\ "withdraw" \in Step
      /\ \A a \in {"release", "reread", x} : Follows(a, "withdraw")
  BY DEF Step, Follows, Closing, Endings
<1>2. Plan(<<"withdraw">>) /\ Of(<<"withdraw">>) = {"withdraw"}
  BY <1>1, One
<1>3. /\ Plan(Ending(e, x))
      /\ Of(Ending(e, x)) = (IF e.reserved THEN {"release"} ELSE {}) \cup {"reread", x}
  BY EndingShape
<1>4. \A a \in Of(Ending(e, x)), b \in Of(<<"withdraw">>) : Follows(a, b)
  BY <1>1, <1>2, <1>3
<1>5. /\ Plan(Retire(e, x))
      /\ Of(Retire(e, x)) = Of(Ending(e, x)) \cup Of(<<"withdraw">>)
  BY <1>2, <1>3, <1>4, Joined DEF Retire
<1>6. Of(Retire(e, x)) =
        (IF e.reserved THEN {"release"} ELSE {}) \cup {"reread", x, "withdraw"}
  BY <1>2, <1>3, <1>5
<1>7. Retire(e, x) # <<>>
  BY <1>6, None0
<1>8. QED
  BY <1>5, <1>6, <1>7

\* A list that ends an entry in the state that its ending asks for.
LEMMA Dies ==
  ASSUME NEW e, NEW x \in Dying, NEW t, t \in {Ending(e, x), Retire(e, x)},
         x = "expired" => e.state = "AWAITING_REVIEW",
         x = "lapsed" => e.state = "APPROVED_PENDING_EXECUTION",
         x = "abandoned" => e.state \in {"CLAIMED", "REFUSED_COOLDOWN"}
  PROVE  Ends(e, t)
<1>1. x \in Endings
  BY DEF Dying, Endings
<1>2. /\ Plan(t) /\ t # <<>>
      /\ Of(t) \subseteq {"release", "reread", x, "withdraw"}
      /\ {"reread", x} \subseteq Of(t)
  BY <1>1, EndingShape, RetireShape
<1>3. /\ "expired" \in Of(t) => x = "expired"
      /\ "lapsed" \in Of(t) => x = "lapsed"
      /\ "abandoned" \in Of(t) => x = "abandoned"
  BY <1>2
<1>4. QED
  BY <1>2, <1>3 DEF Ends

\* sweep() ends the entries that are due, and nothing else.
LEMMA SweepShape ==
  ASSUME NEW e
  PROVE  /\ Due(e) => Ends(e, SweepScript(e))
         /\ ~Due(e) => SweepScript(e) = <<>>
<1>1. CASE e.state = "AWAITING_REVIEW" /\ e.ttl = 0
  <2>1. SweepScript(e) = Retire(e, "expired")
    BY <1>1 DEF SweepScript
  <2>2. QED
    BY <1>1, <2>1, Dies DEF Due, Dying
<1>2. CASE e.state = "APPROVED_PENDING_EXECUTION" /\ e.ttl = 0
  <2>1. SweepScript(e) = Ending(e, "lapsed")
    BY <1>2 DEF SweepScript
  <2>2. QED
    BY <1>2, <2>1, Dies DEF Due, Dying
<1>3. CASE e.state = "CLAIMED" /\ e.age >= ClaimedMax
  <2>1. SweepScript(e) = Retire(e, "abandoned")
    BY <1>3 DEF SweepScript
  <2>2. QED
    BY <1>3, <2>1, Dies DEF Due, Dying
<1>4. CASE /\ e.state = "REFUSED_COOLDOWN"
           /\ e.refusals >= TerminalAfter \/ e.age >= CooldownMax
  <2>1. SweepScript(e) = Retire(e, "abandoned")
    BY <1>4 DEF SweepScript
  <2>2. QED
    BY <1>4, <2>1, Dies DEF Due, Dying
<1>5. CASE ~Due(e)
  BY <1>5 DEF SweepScript, Due
<1>6. QED
  BY <1>1, <1>2, <1>3, <1>4, <1>5 DEF Due

\* What service() may be left to do about entry e with a packet of digest d.
Serves(e, d, t) ==
  \/ t = <<>>
  \/ t = File /\ e.state = "CLAIMED"
  \/ Ends(e, t) /\ Due(e)
  \/ /\ t = Supersede /\ d # e.digest
     /\ e.state \in {"AWAITING_REVIEW", "APPROVED_PENDING_EXECUTION", "REFUSED_COOLDOWN"}
  \/ t = <<"authorize">> /\ d = e.digest /\ e.state = "APPROVED_PENDING_EXECUTION"
  \/ t = <<"require">> /\ d = e.digest /\ e.state = "AWAITING_REVIEW"

\* What service() may put before the rest, for each state of the entry.
LEMMA ServiceShape ==
  ASSUME NEW e, NEW d
  PROVE  Serves(e, d, ServiceScript(e, d))
<1>1. CASE e.state = "CLAIMED"
  BY <1>1 DEF ServiceScript, Serves
<1>2. CASE e.state = "REFUSED_COOLDOWN"
  <2>1. CASE e.refusals >= TerminalAfter
    <3>1. ServiceScript(e, d) = Retire(e, "abandoned")
      BY <1>2, <2>1 DEF ServiceScript
    <3>2. Ends(e, ServiceScript(e, d)) /\ Due(e)
      BY <1>2, <2>1, <3>1, Dies DEF Due, Dying
    <3>3. QED
      BY <3>2 DEF Serves
  <2>2. CASE ~(e.refusals >= TerminalAfter)
    BY <1>2, <2>2 DEF ServiceScript, Serves
  <2>3. QED
    BY <2>1, <2>2
<1>3. CASE e.state = "APPROVED_PENDING_EXECUTION"
  <2>1. CASE d = e.digest /\ e.ttl = 0
    <3>1. ServiceScript(e, d) = Ending(e, "lapsed")
      BY <1>3, <2>1 DEF ServiceScript
    <3>2. Ends(e, ServiceScript(e, d)) /\ Due(e)
      BY <1>3, <2>1, <3>1, Dies DEF Due, Dying
    <3>3. QED
      BY <3>2 DEF Serves
  <2>2. CASE ~(d = e.digest /\ e.ttl = 0)
    BY <1>3, <2>2 DEF ServiceScript, Serves
  <2>3. QED
    BY <2>1, <2>2
<1>4. CASE e.state = "AWAITING_REVIEW"
  <2>1. CASE e.ttl = 0
    <3>1. ServiceScript(e, d) = Retire(e, "expired")
      BY <1>4, <2>1 DEF ServiceScript
    <3>2. Ends(e, ServiceScript(e, d)) /\ Due(e)
      BY <1>4, <2>1, <3>1, Dies DEF Due, Dying
    <3>3. QED
      BY <3>2 DEF Serves
  <2>2. CASE e.ttl # 0
    BY <1>4, <2>2 DEF ServiceScript, Serves
  <2>3. QED
    BY <2>1, <2>2
<1>5. CASE e.state \notin {"CLAIMED", "REFUSED_COOLDOWN", "APPROVED_PENDING_EXECUTION",
                           "AWAITING_REVIEW"}
  BY <1>5 DEF ServiceScript, Serves
<1>6. QED
  BY <1>1, <1>2, <1>3, <1>4, <1>5

\* The two lists that file a request.
LEMMA FilingShape ==
  /\ Plan(File) /\ Of(File) = {"ask", "file"} /\ Len(File) = 2
  /\ Plan(Supersede) /\ Len(Supersede) = 5
  /\ Of(Supersede) = {"superseded", "withdraw", "reread", "ask", "file"}
<1>1. Plan(File) /\ Of(File) = {"ask", "file"} /\ Len(File) = 2
  BY Two DEF File, Follows, Step, Event
<1>2. /\ Supersede \in Seq(Step) /\ Len(Supersede) = 5
      /\ Supersede[1] = "superseded" /\ Supersede[2] = "withdraw"
      /\ Supersede[3] = "reread" /\ Supersede[4] = "ask" /\ Supersede[5] = "file"
  BY DEF Supersede, File, Step, Event
<1>3. QED
  BY <1>1, <1>2, Five

-----------------------------------------------------------------------------
(* How a step moves a runner *)

RunnerState == [todo : Seq(Step), packet : Digest \cup {None}, old : Digest \cup {None},
                revision : 1 .. MaxRevision, filled : BOOLEAN]

\* The steps after the one the runner is at.
Rest(r) == Of(Tail(me[r].todo))

\* What another runner relies on is not taken from it.
Keeps ==
  /\ entry.digest # None => entry'.digest # None
  /\ entry.state # "NONE" => entry'.state # "NONE"
  /\ \A d \in Digest : answer[d] # None => answer'[d] # None
  /\ \A d \in Digest : request[d].status # "none" => request'[d].status # "none"

\* Runner r alone moves: to a typed state.
Moves(r) ==
  /\ me' \in [Runner -> RunnerState]
  /\ \A q \in Runner \ {r} : me'[q] = me[q]

Heavy == {"work", "outcome", "resolved", "place", "submitted"}

\* A runner at the step x: its list is x and the rest.
LEMMA AtPlan ==
  ASSUME NEW r, Planned(r), NEW x, At(r, x)
  PROVE  /\ me[r].todo # <<>> /\ x \in Step /\ x \in Todo(r)
         /\ Todo(r) = {x} \cup Rest(r)
         /\ Plan(Tail(me[r].todo)) /\ Len(Tail(me[r].todo)) = Len(me[r].todo) - 1
         /\ Len(me[r].todo) \in Nat
         /\ \A y \in Rest(r) : Follows(x, y)
<1>1. Plan(me[r].todo) /\ me[r].todo # <<>> /\ Head(me[r].todo) = x
  BY DEF Planned, At
<1>2. x \in Step
  BY <1>1 DEF Plan
<1>3. QED
  BY <1>1, <1>2, FirstAndRest DEF Rest, Todo

\* A pass that is over.
LEMMA Finished ==
  ASSUME TypeOK, NEW r \in Runner, Finish(r)
  PROVE  Moves(r) /\ me'[r] = Idle /\ me'[r].todo = <<>> /\ Todo(r)' = {}
<1>1. Idle \in RunnerState
  BY ReviewAssumption DEF Idle, RunnerState
<1>2. me \in [Runner -> RunnerState]
  BY DEF TypeOK, RunnerState
<1>3. Moves(r) /\ me'[r] = Idle
  BY <1>1, <1>2 DEF Finish, Moves
<1>4. me'[r].todo = <<>>
  BY <1>3 DEF Idle
<1>5. QED
  BY <1>3, <1>4, None0 DEF Todo

\* A runner whose state is replaced.
LEMMA Rewritten ==
  ASSUME TypeOK, NEW r \in Runner, NEW m \in RunnerState, me' = [me EXCEPT ![r] = m]
  PROVE  Moves(r) /\ me'[r] = m /\ Todo(r)' = Of(m.todo)
<1>1. me \in [Runner -> RunnerState]
  BY DEF TypeOK, RunnerState
<1>2. Moves(r) /\ me'[r] = m
  BY <1>1 DEF Moves
<1>3. QED
  BY <1>2 DEF Todo

\* A pass that goes on with the steps s before the rest.
LEMMA Continued ==
  ASSUME TypeOK, NEW r \in Runner, Planned(r), NEW x, At(r, x), NEW s, Plan(s),
         \A a \in Of(s), b \in Rest(r) : Follows(a, b), Continue(r, s)
  PROVE  /\ Moves(r)
         /\ Plan(me'[r].todo) /\ Todo(r)' = Of(s) \cup Rest(r)
         /\ Len(me'[r].todo) = Len(s) + Len(me[r].todo) - 1
         /\ Todo(r)' # {} =>
              /\ me'[r].packet = me[r].packet /\ me'[r].old = me[r].old
              /\ me'[r].revision = me[r].revision /\ me'[r].filled = me[r].filled
<1> DEFINE rest == s \o Tail(me[r].todo)
<1>1. /\ Plan(rest) /\ Of(rest) = Of(s) \cup Rest(r)
      /\ Len(rest) = Len(s) + Len(me[r].todo) - 1
  <2>1. /\ Plan(Tail(me[r].todo)) /\ Len(Tail(me[r].todo)) = Len(me[r].todo) - 1
        /\ Len(me[r].todo) \in Nat
    BY AtPlan
  <2>2. Len(s) \in Nat
    BY DEF Plan
  <2>3. QED
    BY <2>1, <2>2, Joined DEF Rest
<1>2. rest \in Seq(Step)
  BY <1>1 DEF Plan
<1>3. me \in [Runner -> RunnerState] /\ me[r] \in RunnerState
  BY DEF TypeOK, RunnerState
<1>4. CASE rest = <<>>
  <2>1. Finish(r)
    BY <1>4 DEF Continue, Finish
  <2>2. Moves(r) /\ me'[r].todo = rest /\ Todo(r)' = {}
    BY <1>4, <2>1, Finished
  <2>3. Todo(r)' = Of(rest)
    BY <1>4, <2>2, None0
  <2>4. QED
    BY <1>1, <2>2, <2>3
<1>5. CASE rest # <<>>
  <2>1. me' = [me EXCEPT ![r] = [@ EXCEPT !.todo = rest]]
    BY <1>5 DEF Continue
  <2>2. [me[r] EXCEPT !.todo = rest] \in RunnerState
    BY <1>2, <1>3, Zenon DEF RunnerState
  <2>3. me' = [me EXCEPT ![r] = [me[r] EXCEPT !.todo = rest]]
    BY <2>1
  <2>4. Moves(r) /\ me'[r] = [me[r] EXCEPT !.todo = rest]
    BY <2>2, <2>3, Rewritten
  <2>5. /\ me'[r].todo = rest /\ me'[r].packet = me[r].packet /\ me'[r].old = me[r].old
        /\ me'[r].revision = me[r].revision /\ me'[r].filled = me[r].filled
    BY <1>3, <2>4 DEF RunnerState
  <2>6. Todo(r)' = Of(rest)
    BY <2>5 DEF Todo
  <2>7. QED
    BY <1>1, <2>4, <2>5, <2>6
<1>6. QED
  BY <1>4, <1>5

\* What backs a list backs its parts, and nothing that others do takes it away.
LEMMA BackedOn ==
  ASSUME Keeps, NEW S, NEW m, Backed(S, m, entry, request, answer),
         NEW T, NEW n,
         T \subseteq S, n.packet = m.packet, n.old = m.old
  PROVE  Backed(T, n, entry', request', answer')
<1>1. S \cap T = T
  OBVIOUS
<1>2. T \cap Packaged # {} => n.packet \in Digest
  BY DEF Backed
<1>3. T \cap {"take", "close"} # {} => n.old \in Digest /\ request'[n.old].status # "none"
  BY DEF Backed, Keeps
<1>4. "approved" \in T => answer'[n.packet] # None
  BY DEF Backed, Keeps, Packaged
<1>5. T \cap Asked # {} => entry'.digest # None
  BY DEF Backed, Keeps
<1>6. ~(T \subseteq {"claim"}) => entry'.state # "NONE"
  BY DEF Backed, Keeps
<1>7. QED
  BY <1>2, <1>3, <1>4, <1>5, <1>6 DEF Backed

\* A pass that goes on as planned, if the new steps have what they rely on.
LEMMA Onward ==
  ASSUME TypeOK, NEW r \in Runner, Planned(r), NEW x, At(r, x), NEW s, Plan(s),
         \A a \in Of(s), b \in Rest(r) : Follows(a, b), Continue(r, s), Keeps,
         "take" \in Of(s) => Len(s) + Len(me[r].todo) > 2,
         "release" \in Of(s) => Of(s) \cap Endings # {},
         \A n : n.packet = me[r].packet /\ n.old = me[r].old =>
           Backed(Of(s), n, entry', request', answer')
  PROVE  /\ Planned(r)' /\ Moves(r) /\ Todo(r)' = Of(s) \cup Rest(r)
         /\ Todo(r)' # {} => me'[r].packet = me[r].packet /\ me'[r].old = me[r].old
<1>1. /\ Moves(r)
      /\ Plan(me'[r].todo) /\ Todo(r)' = Of(s) \cup Rest(r)
      /\ Len(me'[r].todo) = Len(s) + Len(me[r].todo) - 1
      /\ Todo(r)' # {} => me'[r].packet = me[r].packet /\ me'[r].old = me[r].old
  BY Continued
<1>2. /\ "take" \notin Rest(r) /\ "release" \notin Rest(r)
      /\ Rest(r) \subseteq Todo(r)
  BY AtPlan DEF Follows, Endings, Closing, Filing
<1>3. "take" \in Todo(r)' => Len(me'[r].todo) > 1
  <2>1. Len(s) \in Nat /\ Len(me[r].todo) \in Nat
    BY AtPlan DEF Plan
  <2>2. QED
    BY <1>1, <1>2, <2>1
<1>4. "release" \in Todo(r)' => Todo(r)' \cap Endings # {}
  BY <1>1, <1>2
<1>5. Backed(Todo(r)', me'[r], entry', request', answer')
  <2>1. CASE Todo(r)' = {}
    BY <2>1 DEF Backed
  <2>2. CASE Todo(r)' # {}
    <3>1. Backed(Of(s), me'[r], entry', request', answer')
      BY <1>1, <2>2
    <3>2. Backed(Rest(r), me'[r], entry', request', answer')
      BY <1>1, <1>2, <2>2, BackedOn DEF Planned
    <3>3. QED
      BY <1>1, <3>1, <3>2 DEF Backed
  <2>3. QED
    BY <2>1, <2>2
<1>6. QED
  BY <1>1, <1>3, <1>4, <1>5 DEF Planned

\* The step is done, and nothing takes its place.
LEMMA Stepped ==
  ASSUME TypeOK, NEW r \in Runner, Planned(r), NEW x, At(r, x), Continue(r, <<>>), Keeps
  PROVE  /\ Planned(r)' /\ Moves(r) /\ Todo(r)' = Rest(r)
         /\ Todo(r)' # {} => me'[r].packet = me[r].packet /\ me'[r].old = me[r].old
<1>1. \A n : Backed({}, n, entry', request', answer')
  BY DEF Backed
<1>2. Plan(<<>>) /\ Of(<<>>) = {}
  BY None0
<1>3. QED
  BY <1>1, <1>2, Onward

\* A pass that is over relies on nothing.
LEMMA Over ==
  ASSUME TypeOK, NEW r \in Runner, Finish(r)
  PROVE  Planned(r)' /\ Moves(r) /\ Todo(r)' = {}
<1>1. Moves(r) /\ me'[r].todo = <<>> /\ Todo(r)' = {}
  BY Finished
<1>2. Backed({}, me'[r], entry', request', answer')
  BY DEF Backed
<1>3. QED
  BY <1>1, <1>2, None0 DEF Planned

\* The others rely on what they relied on.
LEMMA OthersPlanned ==
  ASSUME Keeps, NEW q \in Runner, Planned(q), me'[q] = me[q]
  PROVE  Planned(q)'
<1>1. Todo(q)' = Todo(q)
  BY DEF Todo
<1>2. Backed(Todo(q), me'[q], entry', request', answer')
  BY <1>1, BackedOn DEF Planned
<1>3. QED
  BY <1>1, <1>2 DEF Planned

\* Where the runner is with an order, if anywhere, before and after a step.
Steady(r) ==
  \/ Todo(r)' \cap Heavy = {}
  \/ /\ Todo(r)' \cap Heavy = Todo(r) \cap Heavy
     /\ r \in current' => r \in current \/ "submitted" \notin Todo(r)
  \/ Todo(r)' \cap Heavy = {"submitted", "place"} /\ ~entry.working
  \/ /\ Todo(r) \cap Heavy \in {{"place"}, {"outcome"}}
     /\ Todo(r)' \cap Heavy \in {{"outcome"}, {"resolved"}}

\* A step that neither submits nor works an order, nor records how one ended.
LEMMA Preserved ==
  ASSUME RaceInv, NEW r \in Runner, TypeOK', Keeps, Moves(r), Planned(r)', Known',
         Questions', entry'.working <=> entry.working, open' = open,
         faults' = 0 => faults = 0, current' \subseteq current \cup {r},
         Steady(r)
  PROVE  RaceInv'
<1>1. \A q \in Runner \ {r} : me'[q] = me[q] /\ Todo(q)' = Todo(q)
  BY DEF Moves, Todo
<1>2. \A q \in Runner : Planned(q)'
  <2> TAKE q \in Runner
  <2>1. CASE q = r
    BY <2>1
  <2>2. CASE q # r
    BY <1>1, <2>2, OthersPlanned DEF RaceInv
  <2>3. QED
    BY <2>1, <2>2
<1>3. \A q \in Runner : Working(q)' => Working(q)
  <2> TAKE q \in Runner
  <2>1. CASE q = r
    BY <2>1 DEF Working, Heavy, Steady
  <2>2. CASE q # r
    BY <1>1, <2>2 DEF Working
  <2>3. QED
    BY <2>1, <2>2
<1>4. \A q \in Runner :
        /\ "work" \in Todo(q)' => "work" \in Todo(q)
        /\ Working(q)' => ("work" \in Todo(q)' <=> "work" \in Todo(q))
  <2> TAKE q \in Runner
  <2>1. CASE q = r
    BY <2>1 DEF Working, Heavy, Steady
  <2>2. CASE q # r
    BY <1>1, <2>2
  <2>3. QED
    BY <2>1, <2>2
<1>5. \A q \in Runner : "submitted" \in Todo(q)' /\ q \in current' =>
        \/ "submitted" \in Todo(q) /\ q \in current
        \/ ~entry.working
  <2> TAKE q \in Runner
  <2>1. CASE q = r
    BY <2>1 DEF Heavy, Steady
  <2>2. CASE q # r
    BY <1>1, <2>2
  <2>3. QED
    BY <2>1, <2>2
<1>6. Lineage'
  <2>1. /\ \A q \in Runner : Working(q)' => entry'.working
        /\ \A q, p \in Runner : Working(q)' /\ Working(p)' => q = p
        /\ \A q \in Runner : "submitted" \in Todo(q)' /\ q \in current' => ~entry'.working
        /\ \A q \in Runner : "work" \in Todo(q)' => open' > 0
    BY <1>3, <1>4, <1>5 DEF RaceInv, Lineage
  <2>2. faults' = 0 =>
          /\ open' <= 1
          /\ open' = 1 => entry'.working
          /\ \A q \in Runner : open' = 1 /\ Working(q)' => "work" \in Todo(q)'
    BY <1>3, <1>4 DEF RaceInv, Lineage
  <2>3. QED
    BY <2>1, <2>2 DEF Lineage
<1>7. QED
  BY <1>2, <1>6 DEF RaceInv

\* The same for a step that changes nothing but the runner.
LEMMA Inner ==
  ASSUME RaceInv, NEW r \in Runner, UNCHANGED <<entry, gate, outside>>, Moves(r),
         Planned(r)', current' \subseteq current \cup {r},
         Steady(r)
  PROVE  RaceInv'
<1>1. TypeOK'
  BY DEF RaceInv, TypeOK, gate, outside, Moves, RunnerState
<1>2. Keeps /\ Known' /\ Questions'
  BY DEF RaceInv, Keeps, Known, Questions, gate
<1>3. QED
  BY <1>1, <1>2, Preserved DEF outside

-----------------------------------------------------------------------------
(* The clock, the reviewer and the operating system keep the invariant *)

\* The constants are numbers.
LEMMA Numbers ==
  /\ ReviewTTL \in Nat \ {0} /\ TerminalAfter \in Nat \ {0} /\ ClaimedMax \in Nat \ {0}
  /\ CooldownMax \in Nat \ {0} /\ MaxRevision \in Nat \ {0}
  /\ Skew \in Nat /\ Cooldown \in Nat /\ MaxMishaps \in Nat
  /\ MaxAge \in Nat
<1>1. {ReviewTTL, TerminalAfter, ClaimedMax, CooldownMax, MaxRevision} \subseteq Nat \ {0}
  BY ReviewAssumption
<1>2. {Skew, Cooldown, MaxMishaps} \subseteq Nat
  BY ReviewAssumption
<1>3. QED
  BY <1>1, <1>2 DEF MaxAge, Larger

\* Nobody moves: the runners are where they were.
LEMMA Still ==
  ASSUME RaceInv, me' = me
  PROVE  /\ Worker \in Runner /\ Moves(Worker)
         /\ Todo(Worker)' = Todo(Worker)
         /\ Keeps => Planned(Worker)'
<1>1. Worker \in Runner
  BY ReviewAssumption
<1>2. Moves(Worker)
  BY DEF RaceInv, TypeOK, Moves, RunnerState
<1>3. Todo(Worker)' = Todo(Worker)
  BY DEF Todo
<1>4. Keeps => Planned(Worker)'
  BY <1>1, OthersPlanned DEF RaceInv
<1>5. QED
  BY <1>1, <1>2, <1>3, <1>4

\* An answer ages, and stays one.
LEMMA AnswerAges ==
  ASSUME RaceInv, Tick, NEW d \in Digest, answer[d] # None
  PROVE  answer'[d] \in Answer
<1>1. answer[d] \in Answer
  BY DEF RaceInv, TypeOK
<1>2. /\ Sooner(answer[d].ttl) \in 0 .. ReviewTTL
      /\ Older(answer[d].age, Skew + 1) \in 0 .. Skew + 1
  BY <1>1, Numbers DEF Answer, Sooner, Older
<1>3. answer'[d] = [answer[d] EXCEPT !.ttl = Sooner(@), !.age = Older(@, Skew + 1)]
  BY DEF Tick
<1>4. QED
  BY <1>1, <1>2, <1>3, Zenon DEF Answer

\* Time passes: ages grow, lives and waits run down.
LEMMA RaceTick ==
  ASSUME RaceInv, Tick
  PROVE  RaceInv'
<1>1. /\ entry \in Entry /\ request \in [Digest -> Request]
      /\ answer \in [Digest -> Answer \cup {None}]
  BY DEF RaceInv, TypeOK
<1>2. /\ entry' \in Entry /\ entry'.state = entry.state /\ entry'.digest = entry.digest
      /\ entry'.working = entry.working
  <2>1. Sooner(entry.ttl) \in 0 .. ReviewTTL /\ Older(entry.age, MaxAge) \in 0 .. MaxAge
    BY <1>1, Numbers DEF Entry, Sooner, Older
  <2>2. entry' = [entry EXCEPT !.ttl = Sooner(entry.ttl), !.age = Older(entry.age, MaxAge)]
    BY DEF Tick
  <2>3. entry' \in Entry
    BY <1>1, <2>1, <2>2, Zenon DEF Entry
  <2>4. QED
    BY <1>1, <2>2, <2>3 DEF Entry
<1>3. /\ request' \in [Digest -> Request]
      /\ \A d \in Digest : /\ request'[d].status = request[d].status
                           /\ request'[d].copies = request[d].copies
  <2>1. ASSUME NEW d \in Digest
        PROVE  [request[d] EXCEPT !.ttl = Sooner(@)] \in Request
    <3>1. request[d] \in Request /\ Sooner(request[d].ttl) \in 0 .. ReviewTTL
      BY <1>1, Numbers DEF Request, Sooner
    <3>2. QED
      BY <3>1, Zenon DEF Request
  <2>2. request' = [d \in Digest |-> [request[d] EXCEPT !.ttl = Sooner(@)]]
    BY DEF Tick
  <2>3. QED
    BY <1>1, <2>1, <2>2 DEF Request
<1>4. /\ answer' \in [Digest -> Answer \cup {None}]
      /\ \A d \in Digest : answer[d] # None => answer'[d] # None
  <2>1. \A d \in Digest : answer[d] # None => answer'[d] \in Answer
    BY AnswerAges
  <2>2. None \notin Answer
    BY ReviewAssumption
  <2>3. answer' = [d \in Digest |-> IF answer[d] = None THEN None
                     ELSE [answer[d] EXCEPT !.ttl = Sooner(@), !.age = Older(@, Skew + 1)]]
    BY DEF Tick
  <2>4. QED
    BY <2>1, <2>2, <2>3
<1>5. UNCHANGED <<current, marked, asking, spent, sent, open, me, overlaps, rowLost, faults>>
      /\ due' \in BOOLEAN
  BY DEF Tick
<1>6. TypeOK'
  BY <1>2, <1>3, <1>4, <1>5 DEF RaceInv, TypeOK
<1>7. Keeps /\ Known' /\ Questions'
  BY <1>2, <1>3, <1>4 DEF RaceInv, Keeps, Known, Questions
<1>8. QED
  BY <1>2, <1>5, <1>6, <1>7, Still, Preserved DEF Steady

\* The reviewer answers, or leaves the request.
LEMMA RaceReviewer ==
  ASSUME RaceInv, Reviewer
  PROVE  RaceInv'
<1>1. /\ entry \in Entry /\ request \in [Digest -> Request]
      /\ answer \in [Digest -> Answer \cup {None}]
  BY DEF RaceInv, TypeOK
<1>2. UNCHANGED <<entry, current, marked, asking, spent, me, sent, open, due, overlaps,
                  rowLost, faults>>
  BY DEF Reviewer, ReviewerClaims, ReviewerReplies, ReviewerCloses, reviewerUnchanged, outside
<1>3. /\ request' \in [Digest -> Request]
      /\ \A d \in Digest : /\ request'[d].copies = request[d].copies
                           /\ request[d].status # "none" <=> request'[d].status # "none"
      /\ answer' \in [Digest -> Answer \cup {None}]
      /\ \A d \in Digest : answer[d] # None => answer'[d] # None
  <2> PICK d \in Digest :
        \/ ReviewerClaims(d)
        \/ \E decision \in {"APPROVED", "REFUSED", "UNAVAILABLE"} :
             ReviewerReplies(d, decision)
        \/ ReviewerCloses(d)
    BY DEF Reviewer
  <2> request[d] \in Request
    BY <1>1
  <2>1. CASE ReviewerClaims(d)
    <3> DEFINE q == [request[d] EXCEPT !.status = "claimed", !.claimedBy = "reviewer"]
    <3>1. q \in Request
      BY Zenon DEF Request
    <3>2. request' = [request EXCEPT ![d] = q] /\ answer' = answer
      BY <1>1, <2>1 DEF ReviewerClaims
    <3>3. q.copies = request[d].copies /\ q.status = "claimed" /\ request[d].status # "none"
      BY <2>1 DEF Request, ReviewerClaims
    <3> HIDE DEF q
    <3>4. QED
      BY <1>1, <3>1, <3>2, <3>3
  <2>2. CASE ReviewerCloses(d)
    <3> DEFINE q == [request[d] EXCEPT !.status = "done", !.note = "answered"]
    <3>1. q \in Request
      BY Zenon DEF Request
    <3>2. request' = [request EXCEPT ![d] = q] /\ answer' = answer
      BY <1>1, <2>2 DEF ReviewerCloses
    <3>3. q.copies = request[d].copies /\ q.status = "done" /\ request[d].status # "none"
      BY <2>2 DEF Request, ReviewerCloses
    <3> HIDE DEF q
    <3>4. QED
      BY <1>1, <3>1, <3>2, <3>3
  <2>3. ASSUME NEW decision \in {"APPROVED", "REFUSED", "UNAVAILABLE"},
               ReviewerReplies(d, decision)
        PROVE  /\ request' = request /\ answer' \in [Digest -> Answer \cup {None}]
               /\ \A b \in Digest : answer[b] # None => answer'[b] # None
    <3> DEFINE a == [decision |-> decision, ttl |-> request[d].ttl, age |-> 0]
    <3>1. a \in Answer
      BY Numbers DEF Answer, Request
    <3>2. answer' = [answer EXCEPT ![d] = a] /\ request' = request
      BY <2>3 DEF ReviewerReplies
    <3>3. a # None
      BY <3>1, ReviewAssumption
    <3> HIDE DEF a
    <3>4. QED
      BY <1>1, <3>1, <3>2, <3>3
  <2>4. QED
    BY <1>1, <2>1, <2>2, <2>3
<1>4. TypeOK'
  BY <1>2, <1>3 DEF RaceInv, TypeOK
<1>5. Keeps /\ Known' /\ Questions'
  BY <1>2, <1>3 DEF RaceInv, Keeps, Known, Questions
<1>6. QED
  BY <1>2, <1>4, <1>5, Still, Preserved DEF Steady

\* A process dies in the middle of its pass.
LEMMA RaceCrash ==
  ASSUME RaceInv, NEW r \in Runner, Crash(r)
  PROVE  RaceInv'
<1>1. Planned(r)' /\ Moves(r) /\ Todo(r)' = {}
  BY Over DEF RaceInv, Crash
<1>2. /\ UNCHANGED <<entry, current, request, answer, marked, spent, sent, open, due,
                     overlaps, rowLost>>
      /\ faults' \in 0 .. MaxMishaps /\ faults' # 0
      /\ asking' \in [Digest -> Runner \cup {None}]
  BY Numbers DEF Crash, RaceInv, TypeOK
<1>3. TypeOK'
  BY <1>1, <1>2 DEF RaceInv, TypeOK, Moves, RunnerState
<1>4. Keeps /\ Known' /\ Questions'
  BY <1>2 DEF RaceInv, Keeps, Known, Questions
<1>5. QED
  BY <1>1, <1>2, <1>3, <1>4, Preserved DEF Steady

-----------------------------------------------------------------------------
(* A pass keeps the invariant *)

\* A step that leaves the entry, the requests and the answers alone.
LEMMA Frame ==
  ASSUME RaceInv, UNCHANGED <<entry, request, answer>>
  PROVE  Keeps /\ Known' /\ Questions'
BY DEF RaceInv, Keeps, Known, Questions

\* The steps of the passes that begin.
LEMMA Beginnings ==
  /\ Plan(<<"claim">>) /\ Of(<<"claim">>) = {"claim"}
  /\ Plan(<<"sweep", "service">>) /\ Of(<<"sweep", "service">>) = {"sweep", "service"}
<1>1. Plan(<<"claim">>) /\ Of(<<"claim">>) = {"claim"}
  BY One DEF Step
<1>2. Plan(<<"sweep", "service">>) /\ Of(<<"sweep", "service">>) = {"sweep", "service"}
  BY Two DEF Step, Follows
<1>3. QED
  BY <1>1, <1>2

\* A pass begins with a claim, or with a sweep and a service.
LEMMA RaceBegin ==
  ASSUME RaceInv, NEW r \in Runner, Begin(r)
  PROVE  RaceInv'
<1>1. UNCHANGED <<entry, current, gate, sent, open, rowLost, faults>>
  BY DEF Begin
<1>2. overlaps' \in 0 .. MaxMishaps /\ due' \in BOOLEAN
  <2>1. overlaps \in 0 .. MaxMishaps /\ faults \in 0 .. MaxMishaps /\ due \in BOOLEAN
    BY DEF RaceInv, TypeOK
  <2>2. \/ due' = FALSE /\ overlaps' = overlaps
        \/ overlaps + faults < MaxMishaps /\ overlaps' = overlaps + 1 /\ due' = due
    BY DEF Begin
  <2>3. due' \in BOOLEAN
    BY <2>1, <2>2, Zenon
  <2>4. overlaps' \in 0 .. MaxMishaps
    BY <2>1, <2>2, Numbers
  <2>5. QED
    BY <2>3, <2>4
<1> DEFINE t == IF entry.state = "NONE" THEN <<"claim">> ELSE <<"sweep", "service">>
           m == [me[r] EXCEPT !.todo = t]
<1>3. /\ Plan(t) /\ Of(t) \in {{"claim"}, {"sweep", "service"}}
      /\ entry.state = "NONE" => Of(t) = {"claim"}
  BY Beginnings
<1>4. me \in [Runner -> RunnerState] /\ me[r] \in RunnerState
  BY DEF RaceInv, TypeOK, RunnerState
<1>5. t \in Seq(Step)
  BY <1>3 DEF Plan
<1>6. me' = [me EXCEPT ![r] = m]
  BY <1>4 DEF Begin
<1> HIDE DEF t
<1>7. m \in RunnerState
  BY <1>4, <1>5, Zenon DEF RunnerState
<1>8. m.todo = t
  BY <1>4 DEF RunnerState
<1> HIDE DEF m
<1>9. Moves(r) /\ me'[r] = m /\ Todo(r)' = Of(t)
  BY <1>6, <1>7, <1>8, Rewritten DEF RaceInv
<1>10. Planned(r)'
  <2>1. Backed(Of(t), me'[r], entry', request', answer')
    BY <1>1, <1>3 DEF Backed, Packaged, Asked
  <2>2. QED
    BY <1>3, <1>8, <1>9, <2>1 DEF Planned
<1>11. TypeOK'
  BY <1>1, <1>2, <1>9 DEF RaceInv, TypeOK, gate, Moves, RunnerState
<1>12. Keeps /\ Known' /\ Questions'
  BY <1>1, Frame DEF gate
<1>13. Todo(r)' \cap Heavy = {}
  BY <1>3, <1>9 DEF Heavy
<1>14. QED
  BY <1>1, <1>9, <1>10, <1>11, <1>12, <1>13, Preserved DEF Steady

\* A pass that is over changes nothing else.
LEMMA RaceOver ==
  ASSUME RaceInv, NEW r \in Runner, Finish(r), UNCHANGED <<entry, gate, outside>>,
         current' \subseteq current \cup {r}
  PROVE  RaceInv'
<1>1. Planned(r)' /\ Moves(r) /\ Todo(r)' = {}
  BY Over DEF RaceInv
<1>2. QED
  BY <1>1, Inner DEF Steady

\* A step that is done, and changed nothing but what the runner knows of the log.
LEMMA RaceDone ==
  ASSUME RaceInv, NEW r \in Runner, NEW x, At(r, x), x \notin Heavy,
         Continue(r, <<>>), UNCHANGED <<entry, gate, outside>>,
         current' \subseteq current \cup {r}
  PROVE  RaceInv'
<1>1. Keeps
  BY Frame DEF gate
<1>2. Planned(r)' /\ Moves(r) /\ Todo(r)' = Rest(r)
  BY <1>1, Stepped DEF RaceInv
<1>3. Planned(r)
  BY DEF RaceInv
<1>4. Todo(r) = {x} \cup Rest(r) /\ \A y \in Rest(r) : Follows(x, y)
  BY <1>3, AtPlan
<1>5. Todo(r)' \cap Heavy = Todo(r) \cap Heavy
  BY <1>2, <1>4
<1>6. "submitted" \notin Todo(r)
  BY <1>4 DEF Follows, Endings, Closing, Filing, Heavy
<1>7. QED
  BY <1>2, <1>5, <1>6, Inner DEF Steady

\* claim() writes the new entry, services the one it finds, or is over.
LEMMA RaceClaim ==
  ASSUME RaceInv, NEW r \in Runner, Claim(r)
  PROVE  RaceInv'
<1> TypeOK /\ Planned(r)
  BY DEF RaceInv
<1>1. At(r, "claim") /\ UNCHANGED <<gate, outside>>
  BY DEF Claim
<1>2. Rest(r) = {}
  BY <1>1, AtPlan DEF Follows, Endings, Closing, Filing
<1>3. CASE /\ entry.state = "NONE"
           /\ entry' = [NoEntry EXCEPT !.state = "CLAIMED", !.reserved = TRUE]
           /\ current' = {r}
           /\ Continue(r, <<"row">>)
  <2>1. /\ entry' \in Entry /\ entry'.state = "CLAIMED" /\ entry'.digest = None
        /\ ~entry'.working
    <3>1. entry' = [state |-> "CLAIMED", revision |-> 1, digest |-> None, ttl |-> 0,
                    age |-> 0, refusals |-> 0, reserved |-> TRUE, working |-> FALSE]
      BY <1>3 DEF NoEntry
    <3>2. 1 \in 1 .. MaxRevision /\ 0 \in 0 .. ReviewTTL /\ 0 \in 0 .. MaxAge /\ 0 \in Nat
      BY Numbers
    <3>3. entry' \in Entry
      BY <3>1, <3>2, Zenon DEF Entry, EntryState
    <3>4. QED
      BY <3>1, <3>3, Zenon
  <2>2. entry.digest = None /\ ~entry.working
    BY <1>3 DEF RaceInv, Known
  <2>3. Keeps /\ Known' /\ Questions'
    BY <1>1, <2>1, <2>2 DEF RaceInv, Keeps, Known, Questions, gate
  <2>4. Plan(<<"row">>) /\ Of(<<"row">>) = {"row"}
    BY One DEF Step
  <2>5. \A n : Backed({"row"}, n, entry', request', answer')
    BY <2>1 DEF Backed, Packaged, Asked
  <2>6. Planned(r)' /\ Moves(r) /\ Todo(r)' = {"row"}
    BY <1>1, <1>2, <1>3, <2>3, <2>4, <2>5, Onward
  <2>7. TypeOK'
    BY <1>1, <1>3, <2>1, <2>6 DEF TypeOK, gate, outside, Moves, RunnerState
  <2>8. Todo(r)' \cap Heavy = {}
    BY <2>6 DEF Heavy
  <2>9. QED
    BY <1>1, <1>3, <2>1, <2>2, <2>3, <2>6, <2>7, <2>8, Preserved DEF outside, Steady
<1>4. CASE entry.state \in Active /\ Continue(r, <<"service">>) /\ UNCHANGED <<entry, current>>
  <2>1. Keeps
    BY <1>1, <1>4, Frame DEF gate
  <2>2. Plan(<<"service">>) /\ Of(<<"service">>) = {"service"}
    BY One DEF Step
  <2>3. \A n : Backed({"service"}, n, entry', request', answer')
    BY <1>4 DEF Backed, Packaged, Asked, Active
  <2>4. Planned(r)' /\ Moves(r) /\ Todo(r)' = {"service"}
    BY <1>1, <1>2, <1>4, <2>1, <2>2, <2>3, Onward
  <2>5. Todo(r)' \cap Heavy = {}
    BY <2>4 DEF Heavy
  <2>6. QED
    BY <1>1, <1>4, <2>4, <2>5, Inner DEF Steady
<1>5. CASE Finish(r) /\ UNCHANGED <<entry, current>>
  BY <1>1, <1>5, RaceOver
<1>6. QED
  BY <1>3, <1>4, <1>5 DEF Claim

\* The row of the nomination is marked claimed, or the claim is compensated.
LEMMA RaceClaimRow ==
  ASSUME RaceInv, NEW r \in Runner, ClaimRow(r)
  PROVE  RaceInv'
<1> TypeOK /\ Planned(r)
  BY DEF RaceInv
<1>1. /\ At(r, "row") /\ UNCHANGED <<entry, current, gate, sent, open, due, overlaps, faults>>
      /\ rowLost' \in BOOLEAN
  BY DEF ClaimRow, TypeOK
<1>2. Rest(r) = {} /\ entry.state # "NONE"
  BY <1>1, AtPlan DEF Follows, Endings, Closing, Filing, Planned, Backed
<1>3. Keeps /\ Known' /\ Questions'
  BY <1>1, Frame DEF gate
<1>4. Planned(r)' /\ Moves(r) /\ Todo(r)' \cap Heavy = {}
  <2>1. CASE Continue(r, <<"service">>)
    <3>1. Plan(<<"service">>) /\ Of(<<"service">>) = {"service"}
      BY One DEF Step
    <3>2. \A n : Backed({"service"}, n, entry', request', answer')
      BY <1>1, <1>2 DEF Backed, Packaged, Asked
    <3>3. Planned(r)' /\ Moves(r) /\ Todo(r)' = {"service"}
      BY <1>1, <1>2, <1>3, <2>1, <3>1, <3>2, Onward
    <3>4. QED
      BY <3>3 DEF Heavy
  <2>2. CASE Continue(r, Ending(entry, "abandoned"))
    <3> PICK s : s = Ending(entry, "abandoned")
      OBVIOUS
    <3>1. "abandoned" \in Endings
      BY DEF Endings
    <3>2. Plan(s) /\ Of(s) \subseteq {"release", "reread", "abandoned"} /\ "abandoned" \in Of(s)
      BY <3>1, EndingShape
    <3>3. \A n : Backed(Of(s), n, entry', request', answer')
      BY <1>1, <1>2, <3>2 DEF Backed, Packaged, Asked
    <3>4. Continue(r, s)
      BY <2>2
    <3>5. "take" \notin Of(s) /\ Of(s) \cap Endings # {}
      BY <3>1, <3>2
    <3>6. Planned(r)' /\ Moves(r) /\ Todo(r)' = Of(s)
      BY <1>1, <1>2, <1>3, <3>2, <3>3, <3>4, <3>5, Onward
    <3>7. QED
      BY <3>2, <3>6 DEF Heavy
  <2>3. QED
    BY <2>1, <2>2 DEF ClaimRow
<1>5. TypeOK'
  BY <1>1, <1>4 DEF TypeOK, gate, Moves, RunnerState
<1>6. QED
  BY <1>1, <1>3, <1>4, <1>5, Preserved DEF Steady

\* sweep() puts the ending of an entry that is due before the rest.
LEMMA RaceSweep ==
  ASSUME RaceInv, NEW r \in Runner, Sweep(r)
  PROVE  RaceInv'
<1> TypeOK /\ Planned(r)
  BY DEF RaceInv
<1>1. At(r, "sweep") /\ current' = current \cup {r} /\ UNCHANGED <<entry, gate, outside>>
  BY DEF Sweep
<1>2. /\ Rest(r) \subseteq {"service"} /\ entry.state # "NONE"
      /\ Plan(Tail(me[r].todo))
  BY <1>1, AtPlan DEF Follows, Endings, Closing, Filing, Planned, Backed
<1> PICK s : s = SweepScript(entry)
  OBVIOUS
<1>3. /\ Plan(s) /\ Of(s) \subseteq {"release", "reread", "withdraw"} \cup Dying
      /\ Of(s) # {} => Of(s) \cap Dying # {}
  BY SweepShape, None0 DEF Ends
<1> DEFINE t == s \o Tail(me[r].todo)
<1>4. Plan(t) /\ Of(t) = Of(s) \cup Rest(r)
  <2>1. \A a \in Of(s), b \in Rest(r) : Follows(a, b)
    BY <1>2, <1>3 DEF Follows, Endings, Closing, Dying
  <2>2. QED
    BY <1>2, <1>3, <2>1, Joined DEF Rest
<1> DEFINE m == [me[r] EXCEPT !.todo = t, !.old = entry.digest]
<1>5. me \in [Runner -> RunnerState] /\ me[r] \in RunnerState
  BY DEF TypeOK, RunnerState
<1>6. me' = [me EXCEPT ![r] = m]
  BY <1>5 DEF Sweep
<1>7. t \in Seq(Step) /\ entry.digest \in Digest \cup {None}
  BY <1>4 DEF Plan, TypeOK, Entry
<1> HIDE DEF t
<1>8. m \in RunnerState
  BY <1>5, <1>7, Zenon DEF RunnerState
<1>9. m.todo = t
  BY <1>5 DEF RunnerState
<1> HIDE DEF m
<1>10. Moves(r) /\ me'[r] = m /\ Todo(r)' = Of(t)
  BY <1>6, <1>8, <1>9, Rewritten
<1>11. Of(t) \subseteq {"release", "reread", "withdraw", "service"} \cup Dying
  BY <1>2, <1>3, <1>4
<1>12. Planned(r)'
  <2>1. Backed(Of(t), me'[r], entry', request', answer')
    BY <1>1, <1>2, <1>11 DEF Backed, Packaged, Asked, Dying
  <2>2. "release" \in Of(t) => Of(t) \cap Endings # {}
    BY <1>2, <1>3, <1>4 DEF Dying, Endings
  <2>3. "take" \notin Of(t)
    BY <1>11 DEF Dying
  <2>4. QED
    BY <1>4, <1>9, <1>10, <2>1, <2>2, <2>3 DEF Planned
<1>13. Todo(r)' \cap Heavy = {}
  BY <1>10, <1>11 DEF Heavy, Dying
<1>14. QED
  BY <1>1, <1>10, <1>12, <1>13, Inner DEF Steady

\* service() chooses what the state of the entry asks for.
LEMMA RaceService ==
  ASSUME RaceInv, NEW r \in Runner, Service(r)
  PROVE  RaceInv'
<1> TypeOK /\ Planned(r)
  BY DEF RaceInv
<1>1. At(r, "service") /\ current' = current \cup {r} /\ UNCHANGED <<entry, gate, outside>>
  BY DEF Service
<1>2. entry.state # "NONE"
  BY <1>1, AtPlan DEF Planned, Backed
<1> PICK d \in Digest :
      /\ d = entry.digest \/ entry.digest = None \/ entry.revision < MaxRevision
      /\ IF ServiceScript(entry, d) = <<>> THEN Finish(r)
         ELSE me' = [me EXCEPT ![r] =
                [@ EXCEPT !.todo = ServiceScript(entry, d), !.packet = d,
                          !.old = entry.digest,
                          !.revision = IF ServiceScript(entry, d) = Supersede
                                         THEN entry.revision + 1 ELSE entry.revision]]
  BY DEF Service
<1> PICK t : t = ServiceScript(entry, d)
  OBVIOUS
<1>3. CASE t = <<>>
  BY <1>1, <1>3, RaceOver
<1>4. CASE t # <<>>
  <2> PICK n : n = (IF t = Supersede THEN entry.revision + 1 ELSE entry.revision)
    OBVIOUS
  <2> DEFINE m == [me[r] EXCEPT !.todo = t, !.packet = d, !.old = entry.digest,
                                !.revision = n]
  <2>1. Serves(entry, d, t)
    BY ServiceShape
  <2>2. /\ Plan(t)
        /\ Of(t) \cap Heavy = {} /\ "take" \notin Of(t)
        /\ "release" \in Of(t) => Of(t) \cap Endings # {}
        /\ Of(t) \cap {"take", "close", "approved"} = {}
        /\ Of(t) \cap Asked # {} => entry.digest # None
    <3>1. CASE t = File \/ t = Supersede
      BY <3>1, FilingShape DEF Heavy, Asked
    <3>2. CASE Ends(entry, t)
      BY <3>2 DEF Ends, Heavy, Asked, Endings, Dying
    <3>3. CASE t = <<"authorize">> /\ d = entry.digest
      <4>1. Plan(t) /\ Of(t) = {"authorize"}
        BY <3>3, One DEF Step
      <4>2. QED
        BY <3>3, <4>1, ReviewAssumption DEF Heavy
    <3>4. CASE t = <<"require">> /\ d = entry.digest
      <4>1. Plan(t) /\ Of(t) = {"require"}
        BY <3>4, One DEF Step
      <4>2. QED
        BY <3>4, <4>1, ReviewAssumption DEF Heavy
    <3>5. QED
      BY <1>4, <2>1, <3>1, <3>2, <3>3, <3>4 DEF Serves
  <2>3. n \in 1 .. MaxRevision
    <3>1. entry.revision \in 1 .. MaxRevision
      BY DEF TypeOK, Entry
    <3>2. CASE t = Supersede
      <4>1. /\ d # entry.digest
            /\ entry.state \in {"AWAITING_REVIEW", "APPROVED_PENDING_EXECUTION",
                                "REFUSED_COOLDOWN"}
        <5>1. "superseded" \in Of(t)
          BY <3>2, FilingShape
        <5>2. t # File
          BY <5>1, FilingShape
        <5>3. ~Ends(entry, t)
          BY <5>1 DEF Ends, Dying
        <5>4. t # <<"authorize">> /\ t # <<"require">>
          BY <5>1, One DEF Step
        <5>5. QED
          BY <1>4, <2>1, <5>2, <5>3, <5>4 DEF Serves
      <4>2. entry.digest # None
        BY <4>1 DEF RaceInv, Known
      <4>3. QED
        BY <3>1, <3>2, <4>1, <4>2, Numbers
    <3>3. CASE t # Supersede
      BY <3>1, <3>3
    <3>4. QED
      BY <3>2, <3>3
  <2>4. me \in [Runner -> RunnerState] /\ me[r] \in RunnerState
    BY DEF TypeOK, RunnerState
  <2>5. me' = [me EXCEPT ![r] = m]
    BY <1>4, <2>4
  <2>6. t \in Seq(Step) /\ entry.digest \in Digest \cup {None} /\ d \in Digest \cup {None}
    BY <2>2 DEF Plan, TypeOK, Entry
  <2>7. m \in RunnerState
    BY <2>3, <2>4, <2>6, Zenon DEF RunnerState
  <2>8. m.todo = t /\ m.packet = d
    BY <2>4 DEF RunnerState
  <2> HIDE DEF m
  <2>9. Moves(r) /\ me'[r] = m /\ Todo(r)' = Of(t)
    BY <2>5, <2>7, <2>8, Rewritten
  <2>10. Backed(Of(t), me'[r], entry', request', answer')
    BY <1>1, <1>2, <2>2, <2>8, <2>9 DEF Backed
  <2>11. Planned(r)'
    BY <2>2, <2>8, <2>9, <2>10 DEF Planned
  <2>12. QED
    BY <1>1, <2>2, <2>9, <2>11, Inner DEF Steady
<1>5. QED
  BY <1>3, <1>4

\* A pass reads the version of the log again.
LEMMA RaceReread ==
  ASSUME RaceInv, NEW r \in Runner, Reread(r)
  PROVE  RaceInv'
BY RaceDone DEF Reread, Heavy

\* A gate before the packet, or after the review, ends the pass.
LEMMA RaceRefused ==
  ASSUME RaceInv, NEW r \in Runner, Refused(r)
  PROVE  RaceInv'
BY RaceOver DEF Refused

\* After a refusal the entry waits, or is given up.
LEMMA RaceLimit ==
  ASSUME RaceInv, NEW r \in Runner, Limit(r)
  PROVE  RaceInv'
<1> TypeOK /\ Planned(r)
  BY DEF RaceInv
<1>1. At(r, "limit") /\ current' = current \cup {r} /\ UNCHANGED <<entry, gate, outside>>
  BY DEF Limit
<1>2. CASE Continue(r, <<>>)
  BY <1>1, <1>2, RaceDone DEF Heavy
<1>3. CASE Continue(r, Retire(entry, "abandoned"))
  <2> PICK s : s = Retire(entry, "abandoned")
    OBVIOUS
  <2>1. Rest(r) = {} /\ entry.state # "NONE"
    BY <1>1, AtPlan DEF Follows, Endings, Closing, Filing, Planned, Backed
  <2>2. "abandoned" \in Endings
    BY DEF Endings
  <2>3. /\ Plan(s) /\ Of(s) \subseteq {"release", "reread", "abandoned", "withdraw"}
        /\ "abandoned" \in Of(s)
    BY <2>2, RetireShape
  <2>4. \A n : Backed(Of(s), n, entry', request', answer')
    BY <1>1, <2>1, <2>3 DEF Backed, Packaged, Asked
  <2>5. Continue(r, s) /\ Keeps
    BY <1>1, <1>3, Frame DEF gate
  <2>6. "take" \notin Of(s) /\ Of(s) \cap Endings # {}
    BY <2>2, <2>3
  <2>7. Planned(r)' /\ Moves(r) /\ Todo(r)' = Of(s)
    BY <1>1, <2>1, <2>3, <2>4, <2>5, <2>6, Onward
  <2>8. Todo(r)' \cap Heavy = {}
    BY <2>3, <2>7 DEF Heavy
  <2>9. QED
    BY <1>1, <2>7, <2>8, Inner DEF Steady
<1>4. QED
  BY <1>2, <1>3 DEF Limit

\* The answer to the packet is read and put in the rest of the pass.
LEMMA RaceRequire ==
  ASSUME RaceInv, NEW r \in Runner, Require(r)
  PROVE  RaceInv'
<1> TypeOK /\ Planned(r)
  BY DEF RaceInv
<1>1. At(r, "require") /\ UNCHANGED <<entry, current, gate, outside>>
  BY DEF Require
<1>2. /\ Rest(r) = {} /\ entry.state # "NONE" /\ me[r].packet \in Digest
      /\ entry.digest # None
  BY <1>1, AtPlan DEF Follows, Endings, Closing, Filing, Planned, Backed, Packaged, Asked
<1>3. Keeps
  BY <1>1, Frame DEF gate
<1>4. CASE /\ Verdict(me[r].packet) = "APPROVED"
           /\ Continue(r, <<"approved", "authorize">>)
  <2>1. /\ Plan(<<"approved", "authorize">>)
        /\ Of(<<"approved", "authorize">>) = {"approved", "authorize"}
    BY Two DEF Step, Event, Follows
  <2>2. answer[me[r].packet] # None
    BY <1>4 DEF Verdict
  <2>3. \A n : n.packet = me[r].packet /\ n.old = me[r].old =>
          Backed({"approved", "authorize"}, n, entry', request', answer')
    BY <1>1, <1>2, <2>2 DEF Backed, gate
  <2>4. Planned(r)' /\ Moves(r) /\ Todo(r)' = {"approved", "authorize"}
    BY <1>1, <1>2, <1>3, <1>4, <2>1, <2>3, Onward
  <2>5. Todo(r)' \cap Heavy = {}
    BY <2>4 DEF Heavy
  <2>6. QED
    BY <1>1, <2>4, <2>5, Inner DEF Steady
<1>5. CASE Continue(r, <<"refused", "limit">>)
  <2>1. Plan(<<"refused", "limit">>) /\ Of(<<"refused", "limit">>) = {"refused", "limit"}
    BY Two DEF Step, Event, Follows
  <2>2. \A n : n.packet = me[r].packet /\ n.old = me[r].old =>
          Backed({"refused", "limit"}, n, entry', request', answer')
    BY <1>1, <1>2 DEF Backed, Packaged
  <2>3. Planned(r)' /\ Moves(r) /\ Todo(r)' = {"refused", "limit"}
    BY <1>1, <1>2, <1>3, <1>5, <2>1, <2>2, Onward
  <2>4. Todo(r)' \cap Heavy = {}
    BY <2>3 DEF Heavy
  <2>5. QED
    BY <1>1, <2>3, <2>4, Inner DEF Steady
<1>6. CASE Finish(r)
  BY <1>1, <1>6, RaceOver
<1>7. \/ /\ Verdict(me[r].packet) = "APPROVED"
         /\ Continue(r, <<"approved", "authorize">>)
      \/ Continue(r, <<"refused", "limit">>)
      \/ Finish(r)
  <2>1. CASE Verdict(me[r].packet) = "APPROVED"
    BY <2>1 DEF Require
  <2>2. CASE Verdict(me[r].packet) = "REFUSED"
    BY <2>2 DEF Require
  <2>3. CASE Verdict(me[r].packet) \notin {"APPROVED", "REFUSED"}
    BY <2>3 DEF Require
  <2>4. QED
    BY <2>1, <2>2, <2>3
<1>8. QED
  BY <1>4, <1>5, <1>6, <1>7

\* authorize_open() finds the approval again, and will spend it.
LEMMA RaceAuthorize ==
  ASSUME RaceInv, NEW r \in Runner, Authorize(r)
  PROVE  RaceInv'
<1> TypeOK /\ Planned(r)
  BY DEF RaceInv
<1>1. /\ At(r, "authorize") /\ UNCHANGED <<entry, current, gate, outside>>
      /\ Continue(r, <<"consume">>)
  BY DEF Authorize
<1>2. /\ Rest(r) = {} /\ entry.state # "NONE" /\ me[r].packet \in Digest
      /\ entry.digest # None
  BY <1>1, AtPlan DEF Follows, Endings, Closing, Filing, Planned, Backed, Packaged, Asked
<1>3. Keeps
  BY <1>1, Frame DEF gate
<1>4. Plan(<<"consume">>) /\ Of(<<"consume">>) = {"consume"}
  BY One DEF Step
<1>5. \A n : n.packet = me[r].packet /\ n.old = me[r].old =>
        Backed({"consume"}, n, entry', request', answer')
  BY <1>1, <1>2 DEF Backed
<1>6. Planned(r)' /\ Moves(r) /\ Todo(r)' = {"consume"}
  BY <1>1, <1>2, <1>3, <1>4, <1>5, Onward
<1>7. Todo(r)' \cap Heavy = {}
  BY <1>6 DEF Heavy
<1>8. QED
  BY <1>1, <1>6, <1>7, Inner DEF Steady

\* The answer is spent, or somebody spent it before.
LEMMA RaceConsume ==
  ASSUME RaceInv, NEW r \in Runner, Consume(r)
  PROVE  RaceInv'
<1> TypeOK /\ Planned(r)
  BY DEF RaceInv
<1>1. /\ At(r, "consume") /\ UNCHANGED <<entry, current, request, answer, marked, asking, outside>>
      /\ spent' = spent \cup {me[r].packet}
  BY DEF Consume
<1>2. /\ Rest(r) = {} /\ entry.state # "NONE" /\ me[r].packet \in Digest
      /\ entry.digest # None
  BY <1>1, AtPlan DEF Follows, Endings, Closing, Filing, Planned, Backed, Packaged, Asked
<1>3. Keeps /\ Known' /\ Questions'
  BY <1>1, Frame
<1>4. Planned(r)' /\ Moves(r) /\ Todo(r)' \subseteq {"attempt"}
  <2>1. CASE Finish(r)
    BY <2>1, Over
  <2>2. CASE Continue(r, <<"attempt">>)
    <3>1. Plan(<<"attempt">>) /\ Of(<<"attempt">>) = {"attempt"}
      BY One DEF Step
    <3>2. \A n : n.packet = me[r].packet /\ n.old = me[r].old =>
            Backed({"attempt"}, n, entry', request', answer')
      BY <1>1, <1>2 DEF Backed
    <3>3. Planned(r)' /\ Moves(r) /\ Todo(r)' = {"attempt"}
      BY <1>1, <1>2, <1>3, <2>2, <3>1, <3>2, Onward
    <3>4. QED
      BY <3>3
  <2>3. QED
    BY <2>1, <2>2 DEF Consume
<1>5. TypeOK'
  BY <1>1, <1>2, <1>4 DEF TypeOK, outside, Moves, RunnerState
<1>6. Todo(r)' \cap Heavy = {}
  BY <1>4 DEF Heavy
<1>7. QED
  BY <1>1, <1>3, <1>4, <1>5, <1>6, Preserved DEF outside, Steady

\* The superseded request is to be taken and closed, closed, or left.
LEMMA RaceWithdraw ==
  ASSUME RaceInv, NEW r \in Runner, Withdraw(r)
  PROVE  RaceInv'
<1> TypeOK /\ Planned(r)
  BY DEF RaceInv
<1>1. At(r, "withdraw") /\ UNCHANGED <<entry, current, gate, outside>>
  BY DEF Withdraw
<1>2. /\ Rest(r) \subseteq {"withdraw", "close", "service", "reread", "ask", "file"}
      /\ entry.state # "NONE" /\ Len(me[r].todo) \in Nat /\ Len(me[r].todo) > 0
  BY <1>1, AtPlan DEF Follows, Endings, Closing, Filing, Planned, Backed, Plan
<1>3. Keeps
  BY <1>1, Frame DEF gate
<1>4. ASSUME NEW s, s \in {<<"take", "close">>, <<"close">>}, Continue(r, s),
             me[r].old # None, request[me[r].old].status # "none"
      PROVE  RaceInv'
  <2>1. me[r].old \in Digest
    BY <1>4 DEF TypeOK
  <2>2. /\ Plan(s) /\ Of(s) \subseteq {"take", "close"} /\ Len(s) > 0
        /\ "take" \in Of(s) => Len(s) = 2
    <3>1. /\ Plan(<<"take", "close">>) /\ Of(<<"take", "close">>) = {"take", "close"}
          /\ Len(<<"take", "close">>) = 2
      BY Two DEF Step, Follows, Closing
    <3>2. Plan(<<"close">>) /\ Of(<<"close">>) = {"close"} /\ Len(<<"close">>) = 1
      BY One DEF Step
    <3>3. QED
      BY <1>4, <3>1, <3>2
  <2>3. \A a \in Of(s), b \in Rest(r) : Follows(a, b)
    BY <1>2, <2>2 DEF Follows, Closing, Filing
  <2>4. \A n : n.packet = me[r].packet /\ n.old = me[r].old =>
          Backed(Of(s), n, entry', request', answer')
    BY <1>1, <1>2, <1>4, <2>1, <2>2 DEF Backed, Packaged, Asked, gate
  <2>5. "take" \in Of(s) => Len(s) + Len(me[r].todo) > 2
    <3> HAVE "take" \in Of(s)
    <3>1. Len(s) = 2
      BY <2>2
    <3>2. QED
      BY <1>2, <3>1
  <2>6. "release" \notin Of(s)
    BY <2>2
  <2>7. Planned(r)' /\ Moves(r) /\ Todo(r)' = Of(s) \cup Rest(r)
    BY <1>1, <1>3, <1>4, <2>2, <2>3, <2>4, <2>5, <2>6, Onward
  <2>8. Todo(r)' \cap Heavy = {}
    BY <1>2, <2>2, <2>7 DEF Heavy
  <2>9. QED
    BY <1>1, <2>7, <2>8, Inner DEF Steady
<1>5. \/ Continue(r, <<>>)
      \/ /\ \/ Continue(r, <<"take", "close">>) \/ Continue(r, <<"close">>)
         /\ me[r].old # None /\ request[me[r].old].status # "none"
  <2> PICK status : status = (IF me[r].old = None THEN "none" ELSE request[me[r].old].status)
    OBVIOUS
  <2>1. Continue(r, CASE status = "pending" -> <<"take", "close">>
                      [] status = "claimed" -> <<"close">>
                      [] OTHER -> <<>>)
    BY DEF Withdraw
  <2>2. CASE status = "pending"
    <3>1. Continue(r, <<"take", "close">>)
      BY <2>1, <2>2
    <3>2. QED
      BY <2>2, <3>1
  <2>3. CASE status = "claimed"
    <3>1. Continue(r, <<"close">>)
      BY <2>1, <2>3
    <3>2. QED
      BY <2>3, <3>1
  <2>4. CASE status \notin {"pending", "claimed"}
    BY <2>1, <2>4
  <2>5. QED
    BY <2>2, <2>3, <2>4
<1>6. CASE Continue(r, <<>>)
  BY <1>1, <1>6, RaceDone DEF Heavy
<1>7. QED
  BY <1>4, <1>5, <1>6

\* The superseded request is taken, unless the reviewer took it.
LEMMA RaceTakeBack ==
  ASSUME RaceInv, NEW r \in Runner, TakeBack(r)
  PROVE  RaceInv'
<1> TypeOK /\ Planned(r)
  BY DEF RaceInv
<1>1. At(r, "take") /\ UNCHANGED <<entry, current, answer, marked, asking, spent, outside>>
  BY DEF TakeBack
<1>2. /\ me[r].old \in Digest /\ request[me[r].old].status # "none"
      /\ Len(me[r].todo) > 1
      /\ Rest(r) \subseteq {"withdraw", "close", "service", "reread", "ask", "file"}
  BY <1>1, AtPlan DEF Follows, Endings, Closing, Filing, Planned, Backed
<1> PICK d : d = me[r].old
  OBVIOUS
<1>3. CASE /\ request[d].status = "pending"
           /\ request' = [request EXCEPT ![d].status = "claimed", ![d].claimedBy = "builder"]
           /\ Continue(r, <<>>)
  <2> DEFINE q == [request[d] EXCEPT !.status = "claimed", !.claimedBy = "builder"]
  <2>1. request \in [Digest -> Request] /\ request[d] \in Request
    BY <1>2 DEF TypeOK
  <2>2. q \in Request
    BY <2>1, Zenon DEF Request
  <2>3. request' = [request EXCEPT ![d] = q]
    BY <1>2, <1>3, <2>1
  <2>4. q.copies = request[d].copies /\ q.status = "claimed"
    BY <2>1 DEF Request
  <2> HIDE DEF q
  <2>5. /\ request' \in [Digest -> Request]
        /\ \A b \in Digest : /\ request'[b].copies = request[b].copies
                             /\ request[b].status # "none" <=> request'[b].status # "none"
    BY <1>2, <2>1, <2>2, <2>3, <2>4
  <2>6. Keeps /\ Known' /\ Questions'
    BY <1>1, <2>5 DEF RaceInv, Keeps, Known, Questions
  <2>7. Planned(r)' /\ Moves(r) /\ Todo(r)' = Rest(r)
    BY <1>1, <1>3, <2>6, Stepped
  <2>8. TypeOK'
    BY <1>1, <2>5, <2>7 DEF TypeOK, outside, Moves, RunnerState
  <2>9. Todo(r)' \cap Heavy = {}
    BY <1>2, <2>7 DEF Heavy
  <2>10. QED
    BY <1>1, <2>6, <2>7, <2>8, <2>9, Preserved DEF outside, Steady
<1>4. CASE me' = [me EXCEPT ![r].todo = Tail(Tail(@))] /\ request' = request
  <2> PICK t : t = Tail(me[r].todo)
    OBVIOUS
  <2>1. Plan(t) /\ Of(t) = Rest(r)
    BY <1>1, AtPlan DEF Rest
  <2>2. Plan(Tail(t)) /\ Of(Tail(t)) \subseteq Rest(r)
    BY <1>2, RestOfTwo DEF Rest, Planned
  <2> DEFINE m == [me[r] EXCEPT !.todo = Tail(t)]
  <2>4. me \in [Runner -> RunnerState] /\ me[r] \in RunnerState
    BY DEF TypeOK, RunnerState
  <2>5. me' = [me EXCEPT ![r] = m]
    BY <1>4, <2>4
  <2>6. Tail(t) \in Seq(Step)
    BY <2>2 DEF Plan
  <2>7. m \in RunnerState
    BY <2>4, <2>6, Zenon DEF RunnerState
  <2>8. m.todo = Tail(t) /\ m.packet = me[r].packet /\ m.old = me[r].old
    BY <2>4 DEF RunnerState
  <2> HIDE DEF m
  <2>9. Moves(r) /\ me'[r] = m /\ Todo(r)' = Of(Tail(t))
    BY <2>5, <2>7, <2>8, Rewritten
  <2>10. Keeps
    BY <1>1, <1>4, Frame
  <2>11. Of(Tail(t)) \subseteq Todo(r)
    BY <1>1, <2>2, AtPlan
  <2>12. Backed(Of(Tail(t)), me'[r], entry', request', answer')
    BY <2>8, <2>9, <2>10, <2>11, BackedOn DEF Planned
  <2>13. "take" \notin Of(Tail(t)) /\ "release" \notin Of(Tail(t))
    BY <1>2, <2>2
  <2>14. Planned(r)'
    BY <2>2, <2>8, <2>9, <2>12, <2>13 DEF Planned
  <2>15. Todo(r)' \cap Heavy = {}
    BY <1>2, <2>2, <2>9 DEF Heavy
  <2>16. QED
    BY <1>1, <1>4, <2>9, <2>14, <2>15, Inner DEF Steady, gate
<1>5. QED
  BY <1>3, <1>4 DEF TakeBack

\* The superseded request is closed.
LEMMA RaceClose ==
  ASSUME RaceInv, NEW r \in Runner, Close(r)
  PROVE  RaceInv'
<1> TypeOK /\ Planned(r)
  BY DEF RaceInv
<1>1. /\ At(r, "close") /\ UNCHANGED <<entry, current, answer, marked, asking, spent, outside>>
      /\ Continue(r, <<>>)
  BY DEF Close
<1>2. /\ me[r].old \in Digest /\ request[me[r].old].status # "none"
      /\ Rest(r) \subseteq {"withdraw", "close", "service", "reread", "ask", "file"}
  BY <1>1, AtPlan DEF Follows, Endings, Closing, Filing, Planned, Backed
<1> PICK d : d = me[r].old
  OBVIOUS
<1> DEFINE q == [request[d] EXCEPT !.status = "done", !.note = "withdrawn"]
<1>3. request \in [Digest -> Request] /\ request[d] \in Request
  BY <1>2 DEF TypeOK
<1>4. q \in Request
  BY <1>3, Zenon DEF Request
<1>5. request' = request \/ request' = [request EXCEPT ![d] = q]
  BY <1>2, <1>3 DEF Close
<1>6. q.copies = request[d].copies /\ q.status = "done"
  BY <1>3 DEF Request
<1> HIDE DEF q
<1>7. /\ request' \in [Digest -> Request]
      /\ \A b \in Digest : /\ request'[b].copies = request[b].copies
                           /\ request[b].status # "none" <=> request'[b].status # "none"
  BY <1>2, <1>3, <1>4, <1>5, <1>6
<1>8. Keeps /\ Known' /\ Questions'
  BY <1>1, <1>7 DEF RaceInv, Keeps, Known, Questions
<1>9. Planned(r)' /\ Moves(r) /\ Todo(r)' = Rest(r)
  BY <1>1, <1>8, Stepped
<1>10. TypeOK'
  BY <1>1, <1>7, <1>9 DEF TypeOK, outside, Moves, RunnerState
<1>11. Todo(r)' \cap Heavy = {}
  BY <1>2, <1>9 DEF Heavy
<1>12. QED
  BY <1>1, <1>8, <1>9, <1>10, <1>11, Preserved DEF outside, Steady

\* The request of the packet is found or created.
LEMMA RaceAsk ==
  ASSUME RaceInv, NEW r \in Runner, Ask(r)
  PROVE  RaceInv'
<1> TypeOK /\ Planned(r)
  BY DEF RaceInv
<1>1. At(r, "ask") /\ UNCHANGED <<entry, current, answer, marked, spent, outside>>
  BY DEF Ask
<1>2. /\ me[r].packet \in Digest /\ entry.state # "NONE" /\ Rest(r) \subseteq {"file"}
  BY <1>1, AtPlan DEF Follows, Endings, Closing, Filing, Planned, Backed, Packaged
<1> PICK d : d = me[r].packet
  OBVIOUS
<1>3. CASE Continue(r, <<>>) /\ UNCHANGED <<request, asking>>
  BY <1>1, <1>3, RaceDone DEF Heavy, gate
<1>4. CASE /\ Continue(r, <<"mark">>)
           /\ asking' = [asking EXCEPT ![d] = r]
           /\ request' = IF Found(d) THEN request
                         ELSE [request EXCEPT ![d] =
                                 IF @.copies > 0 THEN [@ EXCEPT !.copies = 2]
                                 ELSE [@ EXCEPT !.copies = 1, !.status = "pending",
                                                !.ttl = ReviewTTL]]
  <2> DEFINE q == [request[d] EXCEPT !.copies = 1, !.status = "pending", !.ttl = ReviewTTL]
  <2>1. request \in [Digest -> Request] /\ request[d] \in Request
    BY <1>2 DEF TypeOK
  <2>2. 1 \in 0 .. 2 /\ ReviewTTL \in 0 .. ReviewTTL
    BY Numbers
  <2>3. q \in Request
    BY <2>1, <2>2, Zenon DEF Request
  <2>4. request' = request \/ request' = [request EXCEPT ![d] = q]
    BY <1>2, <1>4, <2>1 DEF Found
  <2>5. q.copies = 1 /\ q.status = "pending"
    BY <2>1 DEF Request
  <2> HIDE DEF q
  <2>6. /\ request' \in [Digest -> Request]
        /\ \A b \in Digest : /\ request'[b].copies <= 1
                             /\ request'[b].status # "none" => request'[b].copies > 0
                             /\ request[b].status # "none" => request'[b].status # "none"
    BY <1>2, <2>1, <2>3, <2>4, <2>5 DEF RaceInv, Questions
  <2>7. Keeps /\ Known' /\ Questions'
    BY <1>1, <2>6 DEF RaceInv, Keeps, Known, Questions
  <2>8. Plan(<<"mark">>) /\ Of(<<"mark">>) = {"mark"}
    BY One DEF Step
  <2>9. \A a \in Of(<<"mark">>), b \in Rest(r) : Follows(a, b)
    BY <1>2, <2>8 DEF Follows
  <2>10. \A n : n.packet = me[r].packet /\ n.old = me[r].old =>
           Backed({"mark"}, n, entry', request', answer')
    BY <1>1, <1>2 DEF Backed, Asked
  <2>11. Planned(r)' /\ Moves(r) /\ Todo(r)' = {"mark"} \cup Rest(r)
    BY <1>1, <1>4, <2>7, <2>8, <2>9, <2>10, Onward
  <2>12. asking' \in [Digest -> Runner \cup {None}]
    BY <1>4 DEF TypeOK
  <2>13. TypeOK'
    BY <1>1, <2>6, <2>11, <2>12 DEF TypeOK, outside, Moves, RunnerState
  <2>14. Todo(r)' \cap Heavy = {}
    BY <1>2, <2>11 DEF Heavy
  <2>15. QED
    BY <1>1, <2>7, <2>11, <2>13, <2>14, Preserved DEF outside, Steady
<1>5. QED
  BY <1>3, <1>4 DEF Ask

\* The marker of the request is published.
LEMMA RaceMark ==
  ASSUME RaceInv, NEW r \in Runner, Mark(r)
  PROVE  RaceInv'
<1> TypeOK /\ Planned(r)
  BY DEF RaceInv
<1>1. /\ At(r, "mark") /\ UNCHANGED <<entry, current, request, answer, spent, outside>>
      /\ Continue(r, <<>>)
  BY DEF Mark
<1>2. /\ me[r].packet \in Digest /\ Rest(r) \subseteq {"file"}
  BY <1>1, AtPlan DEF Follows, Endings, Closing, Filing, Planned, Backed, Packaged
<1>3. marked' \in SUBSET Digest /\ asking' \in [Digest -> Runner \cup {None}]
  BY <1>2 DEF Mark, TypeOK
<1>4. Keeps /\ Known' /\ Questions'
  BY <1>1, Frame
<1>5. Planned(r)' /\ Moves(r) /\ Todo(r)' = Rest(r)
  BY <1>1, <1>4, Stepped
<1>6. TypeOK'
  BY <1>1, <1>3, <1>5 DEF TypeOK, outside, Moves, RunnerState
<1>7. Todo(r)' \cap Heavy = {}
  BY <1>2, <1>5 DEF Heavy
<1>8. QED
  BY <1>1, <1>4, <1>5, <1>6, <1>7, Preserved DEF outside, Steady

-----------------------------------------------------------------------------
(* The order: from the record of its submission to that of its outcome *)

\* An entry that may submit goes on to the order.
LEMMA RaceAttempt ==
  ASSUME RaceInv, NEW r \in Runner, Attempt(r)
  PROVE  RaceInv'
<1> TypeOK /\ Planned(r)
  BY DEF RaceInv
<1>1. At(r, "attempt") /\ current' = current \cup {r} /\ UNCHANGED <<entry, gate, outside>>
  BY DEF Attempt
<1>2. /\ Rest(r) = {} /\ entry.state # "NONE" /\ me[r].packet \in Digest
      /\ entry.digest # None
  BY <1>1, AtPlan DEF Follows, Endings, Closing, Filing, Planned, Backed, Packaged, Asked
<1>3. CASE MaySubmit(entry) /\ Continue(r, <<"submitted", "place">>)
  <2>1. Plan(<<"submitted", "place">>) /\ Of(<<"submitted", "place">>) = {"submitted", "place"}
    BY Two DEF Step, Event, Follows
  <2>2. \A n : n.packet = me[r].packet /\ n.old = me[r].old =>
          Backed({"submitted", "place"}, n, entry', request', answer')
    BY <1>1, <1>2 DEF Backed
  <2>3. Keeps
    BY <1>1, Frame DEF gate
  <2>4. Planned(r)' /\ Moves(r) /\ Todo(r)' = {"submitted", "place"}
    BY <1>1, <1>2, <1>3, <2>1, <2>2, <2>3, Onward
  <2>5. Todo(r)' \cap Heavy = {"submitted", "place"} /\ ~entry.working
    BY <1>3, <2>4 DEF Heavy, MaySubmit
  <2>6. QED
    BY <1>1, <2>4, <2>5, Inner DEF Steady
<1>4. CASE Finish(r)
  BY <1>1, <1>4, RaceOver
<1>5. QED
  BY <1>3, <1>4 DEF Attempt

\* The entry is to be resolved, if it is still executing.
LEMMA RaceOutcome ==
  ASSUME RaceInv, NEW r \in Runner, Outcome(r)
  PROVE  RaceInv'
<1> TypeOK /\ Planned(r)
  BY DEF RaceInv
<1>1. At(r, "outcome") /\ current' = current \cup {r} /\ UNCHANGED <<entry, gate, outside>>
  BY DEF Outcome
<1>2. Rest(r) = {} /\ Todo(r) = {"outcome"} /\ entry.state # "NONE"
  BY <1>1, AtPlan DEF Follows, Endings, Closing, Filing, Planned, Backed
<1>3. CASE Continue(r, Ending(entry, "resolved"))
  <2> PICK s : s = Ending(entry, "resolved")
    OBVIOUS
  <2>1. "resolved" \in Endings
    BY DEF Endings
  <2>2. Plan(s) /\ Of(s) \subseteq {"release", "reread", "resolved"} /\ "resolved" \in Of(s)
    BY <2>1, EndingShape
  <2>3. \A n : Backed(Of(s), n, entry', request', answer')
    BY <1>1, <1>2, <2>2 DEF Backed, Packaged, Asked
  <2>4. Continue(r, s) /\ Keeps
    BY <1>1, <1>3, Frame DEF gate
  <2>5. "take" \notin Of(s) /\ Of(s) \cap Endings # {}
    BY <2>1, <2>2
  <2>6. Planned(r)' /\ Moves(r) /\ Todo(r)' = Of(s)
    BY <1>1, <1>2, <2>2, <2>3, <2>4, <2>5, Onward
  <2>7. Todo(r)' \cap Heavy = {"resolved"} /\ Todo(r) \cap Heavy = {"outcome"}
    BY <1>2, <2>2, <2>6 DEF Heavy
  <2>8. QED
    BY <1>1, <2>6, <2>7, Inner DEF Steady
<1>4. CASE Finish(r)
  BY <1>1, <1>4, RaceOver
<1>5. QED
  BY <1>3, <1>4 DEF Outcome

\* The runner that is at the placement, the work or the outcome is the one at an order.
LEMMA OneAtWork ==
  ASSUME RaceInv, NEW r \in Runner, NEW x \in {"place", "work"}, At(r, x)
  PROVE  /\ Rest(r) = {} /\ Todo(r) = {x} /\ Working(r) /\ entry.working
         /\ entry.state # "NONE"
         /\ \A q \in Runner : Working(q) => q = r
         /\ x = "place" => me[r].packet \in Digest
<1>1. Planned(r)
  BY DEF RaceInv
<1>2. Rest(r) = {} /\ Todo(r) = {x}
  BY <1>1, AtPlan DEF Follows, Endings, Closing, Filing
<1>3. Working(r)
  BY <1>2 DEF Working
<1>4. entry.state # "NONE" /\ (x = "place" => me[r].packet \in Digest)
  BY <1>1, <1>2 DEF Planned, Backed, Packaged
<1>5. QED
  BY <1>2, <1>3, <1>4 DEF RaceInv, Lineage

\* The runner goes on to one step of those after the submission.
LEMMA ToOne ==
  ASSUME RaceInv, NEW r \in Runner, NEW x \in {"place", "work"}, At(r, x),
         NEW y \in {"work", "outcome"}, Continue(r, <<y>>),
         UNCHANGED <<entry, request, answer>>
  PROVE  Planned(r)' /\ Moves(r) /\ Todo(r)' = {y}
<1> TypeOK /\ Planned(r)
  BY DEF RaceInv
<1>1. Rest(r) = {} /\ entry.state # "NONE"
  BY OneAtWork
<1>2. Plan(<<y>>) /\ Of(<<y>>) = {y} /\ "take" \notin {y} /\ "release" \notin {y}
  BY One DEF Step
<1>3. \A n : n.packet = me[r].packet /\ n.old = me[r].old =>
        Backed({y}, n, entry', request', answer')
  BY <1>1 DEF Backed, Packaged, Asked
<1>4. Keeps
  BY Frame
<1>5. QED
  BY <1>1, <1>2, <1>3, <1>4, Onward

\* A runner at its order moves on, and with it the number of orders at the broker.
LEMMA AtOrder ==
  ASSUME RaceInv, NEW r \in Runner, NEW x \in {"place", "work"}, At(r, x),
         NEW y \in {"work", "outcome"}, Moves(r), Planned(r)', Todo(r)' = {y}, TypeOK',
         UNCHANGED <<entry, request, answer, current>>,
         y = "work" => open' > 0,
         \/ faults' # 0
         \/ faults' = faults /\ x = "place" /\ y = "work" /\ open' = open + 1
         \/ faults' = faults /\ x = "work" /\ y = "outcome" /\ open' = open - 1
  PROVE  RaceInv'
<1>1. /\ Todo(r) = {x} /\ Working(r) /\ entry.working
      /\ \A q \in Runner : Working(q) => q = r
  BY OneAtWork
<1>2. \A q \in Runner \ {r} : me'[q] = me[q] /\ Todo(q)' = Todo(q)
  BY DEF Moves, Todo
<1>3. \A q \in Runner \ {r} : ~Working(q)'
  BY <1>1, <1>2 DEF Working
<1>4. Keeps /\ Known' /\ Questions'
  BY Frame
<1>5. \A q \in Runner : Planned(q)'
  <2> TAKE q \in Runner
  <2>1. CASE q = r
    BY <2>1
  <2>2. CASE q # r
    BY <1>2, <1>4, <2>2, OthersPlanned DEF RaceInv
  <2>3. QED
    BY <2>1, <2>2
<1>6. Lineage'
  <2>1. /\ \A q \in Runner : Working(q)' => entry'.working
        /\ \A q, p \in Runner : Working(q)' /\ Working(p)' => q = p
    BY <1>1, <1>3
  <2>2. \A q \in Runner : ~("submitted" \in Todo(q)' /\ q \in current')
    <3> TAKE q \in Runner
    <3>1. CASE q = r
      BY <3>1
    <3>2. CASE q # r
      BY <1>1, <1>2, <3>2 DEF RaceInv, Lineage
    <3>3. QED
      BY <3>1, <3>2
  <2>3. \A q \in Runner : "work" \in Todo(q)' => open' > 0
    BY <1>3 DEF Working
  <2>4. ASSUME faults' = 0
        PROVE  /\ open' <= 1
               /\ \A q \in Runner : open' = 1 /\ Working(q)' => "work" \in Todo(q)'
    <3>1. open \in Nat /\ faults = 0 /\ open <= 1
      BY <2>4 DEF TypeOK, RaceInv, Lineage
    <3>2. CASE x = "place" /\ y = "work" /\ open' = open + 1
      <4>1. open # 1
        BY <1>1, <3>1, <3>2 DEF RaceInv, Lineage
      <4>2. QED
        BY <1>3, <3>1, <3>2, <4>1
    <3>3. CASE open' = open - 1
      BY <3>1, <3>3
    <3>4. QED
      BY <2>4, <3>2, <3>3
  <2>5. QED
    BY <1>1, <2>1, <2>2, <2>3, <2>4 DEF Lineage
<1>7. QED
  BY <1>4, <1>5, <1>6 DEF RaceInv

\* The order fails before the broker has it, or is sent.
LEMMA RacePlaces ==
  ASSUME RaceInv, NEW r \in Runner, Place(r) \/ PlaceRaises(r)
  PROVE  RaceInv'
<1> TypeOK
  BY DEF RaceInv
<1>1. /\ At(r, "place")
      /\ UNCHANGED <<entry, current, gate, due, overlaps, rowLost>>
  BY DEF Place, PlaceRaises
<1>2. UNCHANGED <<request, answer, marked, asking, spent>>
  BY <1>1 DEF gate
<1>3. Rest(r) = {} /\ Todo(r) = {"place"} /\ me[r].packet \in Digest
  BY <1>1, OneAtWork
<1>4. CASE Continue(r, <<"outcome">>) /\ UNCHANGED <<sent, open, faults>>
  <2>1. Planned(r)' /\ Moves(r) /\ Todo(r)' = {"outcome"}
    BY <1>1, <1>2, <1>4, ToOne
  <2>2. Todo(r)' \cap Heavy = {"outcome"} /\ Todo(r) \cap Heavy = {"place"}
    BY <1>3, <2>1 DEF Heavy
  <2>3. QED
    BY <1>1, <1>4, <2>1, <2>2, Inner DEF Steady, outside
<1>5. ASSUME NEW y \in {"work", "outcome"}, Continue(r, <<y>>),
             sent' = Append(sent, me[r].packet), open' = open + 1,
             \/ faults' = faults /\ y = "work"
             \/ overlaps + faults < MaxMishaps /\ faults' = faults + 1
      PROVE  RaceInv'
  <2>1. Planned(r)' /\ Moves(r) /\ Todo(r)' = {y}
    BY <1>1, <1>2, <1>5, ToOne
  <2>2. sent' \in Seq(Digest) /\ open' \in 0 .. Len(sent') /\ open' > 0
    BY <1>3, <1>5 DEF TypeOK
  <2>3. faults' \in 0 .. MaxMishaps /\ (faults' = faults \/ faults' # 0)
    BY <1>5, Numbers DEF TypeOK
  <2>4. TypeOK'
    BY <1>1, <1>2, <2>1, <2>2, <2>3 DEF TypeOK, Moves, RunnerState
  <2>5. \/ faults' # 0
        \/ faults' = faults /\ y = "work" /\ open' = open + 1
    BY <1>5, <2>3
  <2>6. QED
    BY <1>1, <1>2, <2>1, <2>2, <2>4, <2>5, AtOrder
<1>6. QED
  BY <1>4, <1>5 DEF Place, PlaceRaises

\* The order is filled or dead, or nobody knows.
LEMMA RaceWork ==
  ASSUME RaceInv, NEW r \in Runner, Work(r)
  PROVE  RaceInv'
<1> TypeOK
  BY DEF RaceInv
<1>1. /\ At(r, "work")
      /\ UNCHANGED <<entry, current, gate, sent, due, overlaps, rowLost, faults>>
  BY DEF Work
<1>2. UNCHANGED <<request, answer, marked, asking, spent>>
  BY <1>1 DEF gate
<1>3. Todo(r) = {"work"} /\ entry.state # "NONE"
  BY <1>1, OneAtWork
<1>4. CASE Finish(r) /\ UNCHANGED open
  BY <1>1, <1>4, RaceOver DEF outside
<1>5. ASSUME NEW filled \in BOOLEAN, open' = open - 1,
             me' = [me EXCEPT ![r].todo = <<"outcome">>, ![r].filled = filled]
      PROVE  RaceInv'
  <2> DEFINE m == [me[r] EXCEPT !.todo = <<"outcome">>, !.filled = filled]
  <2>1. me \in [Runner -> RunnerState] /\ me[r] \in RunnerState
    BY DEF TypeOK, RunnerState
  <2>2. Plan(<<"outcome">>) /\ Of(<<"outcome">>) = {"outcome"} /\ <<"outcome">> \in Seq(Step)
    BY One DEF Step, Plan
  <2>3. m \in RunnerState
    BY <2>1, <2>2, Zenon DEF RunnerState
  <2>4. me' = [me EXCEPT ![r] = m]
    BY <1>5, <2>1
  <2>5. m.todo = <<"outcome">>
    BY <2>1 DEF RunnerState
  <2> HIDE DEF m
  <2>6. Moves(r) /\ me'[r] = m /\ Todo(r)' = {"outcome"}
    BY <2>2, <2>3, <2>4, <2>5, Rewritten
  <2>7. Backed({"outcome"}, me'[r], entry', request', answer')
    BY <1>1, <1>3 DEF Backed, Packaged, Asked
  <2>8. Planned(r)'
    BY <2>2, <2>5, <2>6, <2>7 DEF Planned
  <2>9. open > 0
    BY <1>3 DEF RaceInv, Lineage
  <2>10. open' \in 0 .. Len(sent')
    BY <1>1, <1>5, <2>9 DEF TypeOK
  <2>11. TypeOK'
    BY <1>1, <1>2, <2>6, <2>10 DEF TypeOK, Moves, RunnerState
  <2>12. QED
    BY <1>1, <1>2, <1>5, <2>6, <2>8, <2>11, AtOrder
<1>6. QED
  BY <1>4, <1>5 DEF Work

\* What the replay makes of an event that a runner may record.
LEMMA AppliedShape ==
  ASSUME RaceInv, NEW r \in Runner, NEW event \in Event, At(r, event),
         NEW e, e = Applied(entry, event, me[r])
  PROVE  /\ e \in Entry /\ e.state # "NONE"
         /\ entry.digest # None => e.digest # None
         /\ e.state \in {"AWAITING_REVIEW", "APPROVED_PENDING_EXECUTION", "EXECUTING",
                         "REFUSED_COOLDOWN"} => e.digest # None
         /\ event = "submitted" => e.working
         /\ event = "resolved" => ~e.working
         /\ event \notin {"submitted", "resolved"} => (e.working <=> entry.working)
<1> TypeOK /\ Planned(r) /\ Known
  BY DEF RaceInv
<1>1. entry \in Entry /\ me[r] \in RunnerState /\ answer \in [Digest -> Answer \cup {None}]
  BY DEF TypeOK, RunnerState
<1>2. entry.state # "NONE" /\ event \in Todo(r)
  BY AtPlan DEF Planned, Backed, Event
<1>3. CASE event \in {"expired", "lapsed", "abandoned", "superseded", "release"}
  <2>1. \/ e = [entry EXCEPT !.reserved = FALSE]
        \/ e = [entry EXCEPT !.state = "EXPIRED"]
        \/ e = [entry EXCEPT !.state = "ABANDONED"]
        \/ e = entry
    BY <1>3 DEF Applied
  <2>2. e \in Entry
    BY <1>1, <2>1, Zenon DEF Entry, EntryState
  <2>3. /\ e.state \in {entry.state, "EXPIRED", "ABANDONED"} /\ e.digest = entry.digest
        /\ e.working = entry.working
    BY <1>1, <2>1 DEF Entry
  <2>4. QED
    BY <1>2, <1>3, <2>2, <2>3 DEF Known
<1>4. CASE event = "file"
  <2>1. e = [entry EXCEPT !.state = "AWAITING_REVIEW", !.revision = me[r].revision,
                          !.digest = me[r].packet, !.ttl = ReviewTTL]
    BY <1>4 DEF Applied
  <2>2. me[r].packet \in Digest /\ me[r].packet # None
    BY <1>2, <1>4, ReviewAssumption DEF Planned, Backed, Packaged
  <2>3. me[r].revision \in 1 .. MaxRevision /\ ReviewTTL \in 0 .. ReviewTTL
    BY <1>1, Numbers DEF RunnerState
  <2>4. e \in Entry
    BY <1>1, <2>1, <2>2, <2>3, Zenon DEF Entry, EntryState
  <2>5. e.state = "AWAITING_REVIEW" /\ e.digest = me[r].packet /\ e.working = entry.working
    BY <1>1, <2>1 DEF Entry
  <2>6. QED
    BY <1>4, <2>2, <2>4, <2>5
<1>5. CASE event = "approved"
  <2>1. e = [entry EXCEPT !.state = "APPROVED_PENDING_EXECUTION",
                          !.ttl = answer[me[r].packet].ttl]
    BY <1>5 DEF Applied
  <2>2. me[r].packet \in Digest /\ answer[me[r].packet] # None /\ entry.digest # None
    BY <1>2, <1>5 DEF Planned, Backed, Packaged, Asked
  <2>3. answer[me[r].packet].ttl \in 0 .. ReviewTTL
    BY <1>1, <2>2 DEF Answer
  <2>4. e \in Entry
    BY <1>1, <2>1, <2>3, Zenon DEF Entry, EntryState
  <2>5. /\ e.state = "APPROVED_PENDING_EXECUTION" /\ e.digest = entry.digest
        /\ e.working = entry.working
    BY <1>1, <2>1 DEF Entry
  <2>6. QED
    BY <1>5, <2>2, <2>4, <2>5
<1>6. CASE event = "refused"
  <2>1. e = [entry EXCEPT !.state = "REFUSED_COOLDOWN", !.age = 0,
                          !.refusals = entry.refusals + 1]
    BY <1>6 DEF Applied
  <2>2. entry.digest # None
    BY <1>2, <1>6 DEF Planned, Backed, Asked
  <2>3. entry.refusals + 1 \in Nat /\ 0 \in 0 .. MaxAge
    BY <1>1, Numbers DEF Entry
  <2>4. e \in Entry
    BY <1>1, <2>1, <2>3, Zenon DEF Entry, EntryState
  <2>5. e.state = "REFUSED_COOLDOWN" /\ e.digest = entry.digest /\ e.working = entry.working
    BY <1>1, <2>1 DEF Entry
  <2>6. QED
    BY <1>6, <2>2, <2>4, <2>5
<1>7. CASE event = "submitted"
  <2>1. e = [entry EXCEPT !.state = "EXECUTING", !.working = TRUE]
    BY <1>7 DEF Applied
  <2>2. entry.digest # None
    BY <1>2, <1>7 DEF Planned, Backed, Asked
  <2>3. e \in Entry
    BY <1>1, <2>1, Zenon DEF Entry, EntryState
  <2>4. e.state = "EXECUTING" /\ e.digest = entry.digest /\ e.working
    BY <1>1, <2>1 DEF Entry
  <2>5. QED
    BY <1>7, <2>2, <2>3, <2>4
<1>8. CASE event = "resolved"
  <2>1. \/ e = [entry EXCEPT !.state = "FILLED", !.working = FALSE]
        \/ e = [entry EXCEPT !.state = "ABANDONED", !.working = FALSE]
    BY <1>8 DEF Applied
  <2>2. e \in Entry
    BY <1>1, <2>1, Zenon DEF Entry, EntryState
  <2>3. e.state \in {"FILLED", "ABANDONED"} /\ e.digest = entry.digest /\ ~e.working
    BY <1>1, <2>1 DEF Entry
  <2>4. QED
    BY <1>8, <2>2, <2>3
<1>9. QED
  BY <1>3, <1>4, <1>5, <1>6, <1>7, <1>8 DEF Event

\* An event of the life of the entry is recorded.
LEMMA RaceRecord ==
  ASSUME RaceInv, NEW r \in Runner, NEW event \in Event, Record(r, event)
  PROVE  RaceInv'
<1> TypeOK /\ Planned(r) /\ Known
  BY DEF RaceInv
<1>1. At(r, event) /\ UNCHANGED <<gate, outside>>
  BY DEF Record
<1>2. CASE Finish(r) /\ UNCHANGED <<entry, current>>
  BY <1>1, <1>2, RaceOver
<1>3. CASE /\ r \in current /\ entry' = Applied(entry, event, me[r])
           /\ current' = {} /\ Continue(r, <<>>)
  <2> PICK e : e = Applied(entry, event, me[r])
    OBVIOUS
  <2>1. /\ e \in Entry /\ e.state # "NONE"
        /\ entry.digest # None => e.digest # None
        /\ e.state \in {"AWAITING_REVIEW", "APPROVED_PENDING_EXECUTION", "EXECUTING",
                        "REFUSED_COOLDOWN"} => e.digest # None
        /\ event = "submitted" => e.working
        /\ event = "resolved" => ~e.working
        /\ event \notin {"submitted", "resolved"} => (e.working <=> entry.working)
    BY <1>1, AppliedShape
  <2>2. Keeps /\ Known' /\ Questions'
    BY <1>1, <1>3, <2>1 DEF RaceInv, Keeps, Known, Questions, gate
  <2>3. Planned(r)' /\ Moves(r) /\ Todo(r)' = Rest(r)
    BY <1>1, <1>3, <2>2, Stepped
  <2>4. TypeOK'
    BY <1>1, <1>3, <2>1, <2>3 DEF TypeOK, gate, outside, Moves, RunnerState
  <2>5. Todo(r) = {event} \cup Rest(r) /\ \A y \in Rest(r) : Follows(event, y)
    BY <1>1, AtPlan
  <2>6. CASE event \notin {"submitted", "resolved"}
    <3>1. Todo(r)' \cap Heavy = Todo(r) \cap Heavy
      BY <2>3, <2>5, <2>6 DEF Heavy, Event
    <3>2. QED
      BY <1>1, <1>3, <2>1, <2>2, <2>3, <2>4, <2>6, <3>1, Preserved DEF outside, Steady
  <2>7. CASE event \in {"submitted", "resolved"}
    <3>1. \A q \in Runner \ {r} : me'[q] = me[q] /\ Todo(q)' = Todo(q)
      BY <2>3 DEF Moves, Todo
    <3>2. \A q \in Runner \ {r} : ~Working(q)'
      <4>1. CASE event = "submitted"
        <5>1. ~entry.working
          BY <1>3, <2>5, <4>1 DEF RaceInv, Lineage
        <5>2. \A q \in Runner : ~Working(q)
          BY <5>1 DEF RaceInv, Lineage
        <5>3. QED
          BY <3>1, <5>2 DEF Working
      <4>2. CASE event = "resolved"
        <5>1. Working(r)
          BY <2>5, <4>2 DEF Working
        <5>2. \A q \in Runner \ {r} : ~Working(q)
          BY <5>1 DEF RaceInv, Lineage
        <5>3. QED
          BY <3>1, <5>2 DEF Working
      <4>3. QED
        BY <2>7, <4>1, <4>2
    <3>3. "work" \notin Todo(r)' /\ (event = "resolved" => ~Working(r)')
      BY <2>3, <2>5, <2>7 DEF Follows, Endings, Closing, Filing, Working
    <3>4. faults = 0 => open # 1 /\ open <= 1
      <4> HAVE faults = 0
      <4>1. CASE event = "submitted"
        <5>1. ~entry.working
          BY <1>3, <2>5, <4>1 DEF RaceInv, Lineage
        <5>2. QED
          BY <5>1 DEF RaceInv, Lineage
      <4>2. CASE event = "resolved"
        <5>1. Working(r) /\ "work" \notin Todo(r)
          BY <2>3, <2>5, <3>3, <4>2 DEF Working
        <5>2. QED
          BY <5>1 DEF RaceInv, Lineage
      <4>3. QED
        BY <2>7, <4>1, <4>2
    <3>5. open' = open /\ faults' = faults /\ current' = {} /\ entry' = e
      BY <1>1, <1>3 DEF outside
    <3>6. Lineage'
      <4>1. \A q \in Runner : Working(q)' => q = r /\ entry'.working
        BY <2>1, <2>7, <3>2, <3>3, <3>5
      <4>2. \A q \in Runner : "work" \notin Todo(q)'
        BY <3>2, <3>3 DEF Working
      <4>3. faults' = 0 => open' # 1 /\ open' <= 1
        BY <3>4, <3>5
      <4>4. QED
        BY <3>5, <4>1, <4>2, <4>3 DEF Lineage
    <3>7. \A q \in Runner : Planned(q)'
      <4> TAKE q \in Runner
      <4>1. CASE q = r
        BY <2>3, <4>1
      <4>2. CASE q # r
        BY <2>2, <3>1, <4>2, OthersPlanned DEF RaceInv
      <4>3. QED
        BY <4>1, <4>2
    <3>8. QED
      BY <2>2, <2>4, <3>6, <3>7 DEF RaceInv
  <2>8. QED
    BY <2>6, <2>7
<1>4. QED
  BY <1>2, <1>3 DEF Record

-----------------------------------------------------------------------------
(* Whoever runs beside whom *)

\* A first state satisfies the invariant.
LEMMA RaceInit ==
  ASSUME Init
  PROVE  RaceInv
<1>1. entry \in Entry /\ entry.state = "NONE" /\ entry.digest = None /\ ~entry.working
  <2>1. 1 \in 1 .. MaxRevision /\ 0 \in 0 .. ReviewTTL /\ 0 \in 0 .. MaxAge /\ 0 \in Nat
    BY Numbers
  <2>2. entry = [state |-> "NONE", revision |-> 1, digest |-> None, ttl |-> 0, age |-> 0,
                 refusals |-> 0, reserved |-> FALSE, working |-> FALSE]
    BY DEF Init, NoEntry
  <2>3. entry \in Entry
    BY <2>1, <2>2, Zenon DEF Entry, EntryState
  <2>4. QED
    BY <2>2, <2>3, Zenon
<1>2. request \in [Digest -> Request] /\ \A d \in Digest : request[d] = NoRequest
  BY Numbers DEF Init, NoRequest, Request
<1>3. Idle \in RunnerState /\ Idle.todo = <<>>
  BY Numbers DEF Idle, RunnerState
<1>4. me \in [Runner -> RunnerState] /\ \A r \in Runner : me[r] = Idle
  BY <1>3 DEF Init
<1>5. TypeOK
  <2>1. due \in BOOLEAN /\ rowLost \in BOOLEAN
    BY Zenon DEF Init
  <2>2. sent \in Seq(Digest) /\ open \in 0 .. Len(sent)
    BY DEF Init
  <2>3. overlaps \in 0 .. MaxMishaps /\ faults \in 0 .. MaxMishaps
    BY Numbers DEF Init
  <2>4. answer \in [Digest -> Answer \cup {None}] /\ asking \in [Digest -> Runner \cup {None}]
    BY DEF Init
  <2>5. current \in SUBSET Runner /\ marked \in SUBSET Digest /\ spent \in SUBSET Digest
    BY DEF Init
  <2>6. QED
    BY <1>1, <1>2, <1>4, <2>1, <2>2, <2>3, <2>4, <2>5 DEF TypeOK, RunnerState
<1>6. \A r \in Runner : Todo(r) = {}
  BY <1>3, <1>4, None0 DEF Todo
<1>7. \A r \in Runner : Planned(r)
  BY <1>3, <1>4, <1>6, None0 DEF Planned, Backed
<1>8. Lineage
  BY <1>6 DEF Init, Lineage, Working
<1>9. Known /\ Questions
  BY <1>1, <1>2 DEF Known, Questions, NoRequest
<1>10. QED
  BY <1>5, <1>7, <1>8, <1>9 DEF RaceInv

\* Every step keeps the invariant.
LEMMA RaceStep ==
  ASSUME RaceInv, [Next]_vars
  PROVE  RaceInv'
<1>1. CASE UNCHANGED vars
  <2>1. /\ entry' = entry /\ current' = current /\ request' = request /\ answer' = answer
        /\ marked' = marked /\ asking' = asking /\ spent' = spent /\ sent' = sent
        /\ open' = open /\ me' = me /\ due' = due /\ overlaps' = overlaps
        /\ rowLost' = rowLost /\ faults' = faults
    BY <1>1 DEF vars
  <2>2. Worker \in Runner /\ Moves(Worker) /\ Todo(Worker)' = Todo(Worker)
        /\ Planned(Worker)'
    BY <2>1, Still, Frame
  <2>3. UNCHANGED <<entry, gate, outside>>
    BY <2>1 DEF gate, outside
  <2>4. QED
    BY <2>1, <2>2, <2>3, Inner DEF Steady
<1>2. CASE Tick
  BY <1>2, RaceTick
<1>3. CASE Reviewer
  BY <1>3, RaceReviewer
<1>4. ASSUME NEW r \in Runner, Crash(r)
      PROVE  RaceInv'
  BY <1>4, RaceCrash
<1>5. ASSUME NEW r \in Runner, Pass(r)
      PROVE  RaceInv'
  <2>1. CASE Begin(r)
    BY <2>1, RaceBegin
  <2>2. CASE Claim(r)
    BY <2>2, RaceClaim
  <2>3. CASE ClaimRow(r)
    BY <2>3, RaceClaimRow
  <2>4. CASE Sweep(r)
    BY <2>4, RaceSweep
  <2>5. CASE Service(r)
    BY <2>5, RaceService
  <2>6. CASE Refused(r)
    BY <2>6, RaceRefused
  <2>7. CASE \E event \in Event : Record(r, event)
    BY <2>7, RaceRecord
  <2>8. CASE Reread(r)
    BY <2>8, RaceReread
  <2>9. CASE Limit(r)
    BY <2>9, RaceLimit
  <2>10. CASE Ask(r)
    BY <2>10, RaceAsk
  <2>11. CASE Mark(r)
    BY <2>11, RaceMark
  <2>12. CASE Require(r)
    BY <2>12, RaceRequire
  <2>13. CASE Authorize(r)
    BY <2>13, RaceAuthorize
  <2>14. CASE Consume(r)
    BY <2>14, RaceConsume
  <2>15. CASE Withdraw(r)
    BY <2>15, RaceWithdraw
  <2>16. CASE TakeBack(r)
    BY <2>16, RaceTakeBack
  <2>17. CASE Close(r)
    BY <2>17, RaceClose
  <2>18. CASE Attempt(r)
    BY <2>18, RaceAttempt
  <2>19. CASE Place(r) \/ PlaceRaises(r)
    BY <2>19, RacePlaces
  <2>20. CASE Work(r)
    BY <2>20, RaceWork
  <2>21. CASE Outcome(r)
    BY <2>21, RaceOutcome
  <2>22. QED
    BY <1>5, <2>1, <2>2, <2>3, <2>4, <2>5, <2>6, <2>7, <2>8, <2>9, <2>10, <2>11, <2>12,
       <2>13, <2>14, <2>15, <2>16, <2>17, <2>18, <2>19, <2>20, <2>21 DEF Pass
<1>6. QED
  BY <1>1, <1>2, <1>3, <1>4, <1>5 DEF Next

-----------------------------------------------------------------------------
(* The worker alone *)

\* Steps that ask nothing of the entry.
Free == {"take", "close", "withdraw", "service", "sweep", "reread", "release"}

\* A review that was answered stays answered.
ReviewsStay == \A d \in Digest : Reviewed(d) => Reviewed(d)'

\* An entry is due when sweep() has something to do about it.
LEMMA WhenDue ==
  ASSUME NEW e
  PROVE  Due(e) <=> SweepScript(e) # <<>>
BY SweepShape DEF Ends

\* Only sweep(), or an ending on its way, meets an entry without its reservation.
LEMMA NotLoose ==
  ASSUME RaceInv, AloneInv, NEW x, At(Worker, x),
         x \notin {"sweep", "release", "reread"} \cup Endings
  PROVE  ~Loose
<1>1. Worker \in Runner /\ Planned(Worker)
  BY ReviewAssumption DEF RaceInv
<1>2. /\ me[Worker].todo # <<>> /\ Todo(Worker) = {x} \cup Rest(Worker)
      /\ \A y \in Rest(Worker) : Follows(x, y)
  BY <1>1, AtPlan
<1>3. Rest(Worker) \cap Endings = {} /\ "sweep" \notin Rest(Worker)
  BY <1>2 DEF Follows, Endings, Closing, Filing
<1>4. QED
  BY <1>2, <1>3 DEF AloneInv, LooseFits, Has

\* The worker moves, and the entry does not.
LEMMA StillFits ==
  ASSUME RaceInv, AloneInv, Moves(Worker), Fits', ReviewsStay, entry' = entry, sent' = sent,
         spent \subseteq spent', rowLost => rowLost',
         Loose => \/ me'[Worker].todo = <<>>
                  \/ "sweep" \in Todo(Worker)'
                  \/ Todo(Worker)' \cap Endings # {}
  PROVE  AloneInv'
<1>1. NobodyElse'
  BY DEF AloneInv, NobodyElse, Moves
<1>2. SentFits'
  <2> SUFFICES ASSUME sent # <<>>
               PROVE  SentFits'
    BY DEF SentFits
  <2>1. /\ Len(sent) = 1 /\ sent[1] = entry.digest /\ entry.digest \in spent
        /\ Reviewed(entry.digest)
        /\ entry.state \in {"EXECUTING", "FILLED", "ABANDONED"}
    BY DEF AloneInv, SentFits
  <2>2. entry.digest \in Digest
    BY <2>1 DEF RaceInv, TypeOK
  <2>3. PICK d \in Digest : d = entry.digest
    BY <2>2
  <2>4. Reviewed(d)'
    BY <2>1, <2>3 DEF ReviewsStay
  <2>5. Reviewed(entry.digest)'
    BY <2>3, <2>4 DEF Reviewed
  <2>6. QED
    BY <2>1, <2>5 DEF SentFits
<1>3. LooseFits'
  <2>1. Loose' => Loose
    BY DEF Loose
  <2>2. SweepScript(entry)' = SweepScript(entry)
    BY DEF SweepScript, Retire, Ending
  <2>3. QED
    BY <2>1, <2>2 DEF AloneInv, LooseFits, Has
<1>4. QED
  BY <1>1, <1>2, <1>3 DEF AloneInv

\* A worker that does nothing new, or nothing at all, still fits the entry.
LEMMA RestFits ==
  ASSUME RaceInv, Fits, ReviewsStay, entry' = entry, sent' = sent, spent \subseteq spent',
         rowLost => rowLost', Todo(Worker)' \subseteq Todo(Worker) \cup Free,
         Todo(Worker)' # {} => me'[Worker].packet = me[Worker].packet,
         {"approved", "refused", "submitted"} \cap Todo(Worker) \subseteq Todo(Worker)'
           \/ Todo(Worker)' = {}
  PROVE  Fits'
<1>1. SweepScript(entry)' = SweepScript(entry)
  BY DEF SweepScript, Retire, Ending
<1>2. entry.digest \in Digest /\ Reviewed(entry.digest) => Reviewed(entry.digest)'
  <2> HAVE entry.digest \in Digest /\ Reviewed(entry.digest)
  <2>1. PICK d \in Digest : d = entry.digest
    OBVIOUS
  <2>2. Reviewed(d)'
    BY <2>1 DEF ReviewsStay
  <2>3. QED
    BY <2>1, <2>2 DEF Reviewed
<1>3. entry.state \in {"AWAITING_REVIEW", "APPROVED_PENDING_EXECUTION", "EXECUTING"} =>
        entry.digest \in Digest
  BY DEF RaceInv, TypeOK, Entry, Known
<1>4. CASE Todo(Worker)' = {}
  BY <1>4 DEF Fits, Has, Working
<1>5. CASE /\ Todo(Worker)' # {}
           /\ {"approved", "refused", "submitted"} \cap Todo(Worker) \subseteq Todo(Worker)'
  <2> DEFINE S == Todo(Worker)
             T == Todo(Worker)'
  <2>1. /\ Has("claim")' => entry'.state = "NONE"
        /\ Has("row")' => entry'.state = "CLAIMED"
        /\ T \cap {"file", "ask", "mark", "superseded"} # {} => entry'.state \in Live
        /\ Has("expired")' => entry'.state = "AWAITING_REVIEW"
        /\ Has("lapsed")' => entry'.state = "APPROVED_PENDING_EXECUTION"
        /\ Has("abandoned")' => entry'.state \in {"CLAIMED", "REFUSED_COOLDOWN"}
        /\ Has("refused")' => entry'.state = "AWAITING_REVIEW"
    BY DEF Fits, Has, Free
  <2>2. T \cap {"expired", "lapsed", "abandoned"} # {} =>
          rowLost' \/ SweepScript(entry)' # <<>>
    BY <1>1 DEF Fits, Free
  <2>3. /\ Has("require")' => entry'.state = "AWAITING_REVIEW" /\ me'[Worker].packet = entry'.digest
        /\ Has("limit")' /\ ~Has("refused")' => entry'.state = "REFUSED_COOLDOWN"
        /\ Has("authorize")' /\ ~Has("approved")' => Approved'
    BY <1>5 DEF Fits, Has, Free, Approved
  <2>4. Has("approved")' =>
          /\ entry'.state = "AWAITING_REVIEW" /\ me'[Worker].packet = entry'.digest
          /\ Reviewed(entry.digest)'
    BY <1>2, <1>3, <1>5 DEF Fits, Has, Free
  <2>5. T \cap {"consume", "attempt", "submitted"} # {} => Approved' /\ Reviewed(entry.digest)'
    BY <1>2, <1>3, <1>5 DEF Fits, Has, Free, Approved
  <2>6. Has("attempt")' \/ Has("submitted")' => entry'.digest \in spent'
    BY DEF Fits, Has, Free
  <2>7. Working(Worker)' => Working(Worker)
    BY <1>5 DEF Working, Free
  <2>8. Has("place")' /\ ~Has("submitted")' =>
          /\ me'[Worker].packet = entry'.digest /\ entry'.digest \in spent'
          /\ Reviewed(entry.digest)' /\ sent' = <<>>
    <3> HAVE Has("place")' /\ ~Has("submitted")'
    <3>1. Has("place") /\ ~Has("submitted")
      BY <1>5 DEF Has, Free
    <3>2. Working(Worker)
      BY <3>1 DEF Working, Has
    <3>3. QED
      BY <1>2, <1>3, <1>5, <3>1, <3>2 DEF Fits
  <2>9. QED
    BY <2>1, <2>2, <2>3, <2>4, <2>5, <2>6, <2>7, <2>8 DEF Fits
<1>6. QED
  BY <1>4, <1>5

\* No step takes an answered review back.
LEMMA ReviewsKept ==
  ASSUME RaceInv, [Next]_vars
  PROVE  ReviewsStay
<1> TypeOK
  BY DEF RaceInv
<1>0. request \in [Digest -> Request] /\ answer \in [Digest -> Answer \cup {None}]
  BY DEF TypeOK
<1>1. CASE UNCHANGED <<request, answer>>
  BY <1>1 DEF ReviewsStay, Reviewed
<1>2. CASE Tick
  <2>1. ASSUME NEW d \in Digest
        PROVE  /\ request'[d].status = request[d].status /\ request'[d].note = request[d].note
               /\ answer[d] # None =>
                    answer'[d] # None /\ answer'[d].decision = answer[d].decision
    <3>1. request'[d] = [request[d] EXCEPT !.ttl = Sooner(@)]
      BY <1>2 DEF Tick
    <3>2. request[d] \in Request
      BY <1>0
    <3>3. /\ request'[d].status = request[d].status /\ request'[d].note = request[d].note
      BY <3>1, <3>2 DEF Request
    <3>4. ASSUME answer[d] # None
          PROVE  answer'[d] # None /\ answer'[d].decision = answer[d].decision
      <4>1. answer[d] \in Answer
        BY <1>0, <3>4
      <4>2. answer'[d] = [answer[d] EXCEPT !.ttl = Sooner(@), !.age = Older(@, Skew + 1)]
        BY <1>2, <3>4 DEF Tick
      <4>3. answer'[d].decision = answer[d].decision
        BY <4>1, <4>2 DEF Answer
      <4>4. answer'[d] \in Answer
        BY <1>2, <3>4, AnswerAges
      <4>5. QED
        BY <4>3, <4>4, ReviewAssumption
    <3>5. QED
      BY <3>3, <3>4
  <2>2. QED
    BY <2>1 DEF ReviewsStay, Reviewed
<1>3. CASE Reviewer
  <2> PICK d \in Digest :
        \/ ReviewerClaims(d)
        \/ \E decision \in {"APPROVED", "REFUSED", "UNAVAILABLE"} :
             ReviewerReplies(d, decision)
        \/ ReviewerCloses(d)
    BY <1>3 DEF Reviewer
  <2> request[d] \in Request
    BY <1>0
  <2>1. CASE ReviewerClaims(d) \/ ReviewerCloses(d)
    <3>1. request[d].status # "done" /\ answer' = answer
      BY <2>1 DEF ReviewerClaims, ReviewerCloses
    <3>2. \A b \in Digest \ {d} : request'[b] = request[b]
      BY <1>0, <2>1 DEF ReviewerClaims, ReviewerCloses
    <3>3. QED
      BY <3>1, <3>2 DEF ReviewsStay, Reviewed
  <2>2. CASE \E decision \in {"APPROVED", "REFUSED", "UNAVAILABLE"} :
               ReviewerReplies(d, decision)
    <3>1. request' = request /\ answer[d] = None /\ \A b \in Digest \ {d} : answer'[b] = answer[b]
      BY <1>0, <2>2 DEF ReviewerReplies
    <3>2. QED
      BY <3>1 DEF ReviewsStay, Reviewed
  <2>3. QED
    BY <2>1, <2>2
<1>4. ASSUME NEW r \in Runner, Ask(r) \/ TakeBack(r) \/ Close(r)
      PROVE  ReviewsStay
  <2>1. Planned(r)
    BY DEF RaceInv
  <2>2. answer' = answer
    BY <1>4 DEF Ask, TakeBack, Close
  <2>3. CASE Ask(r)
    <3>1. me[r].packet \in Digest
      BY <2>1, <2>3, AtPlan DEF Ask, Planned, Backed, Packaged
    <3> PICK d : d = me[r].packet
      OBVIOUS
    <3>2. \A b \in Digest : b # d => request'[b] = request[b]
      BY <1>0, <2>3 DEF Ask
    <3>3. request[d].status = "done" => request'[d] = request[d]
      <4> HAVE request[d].status = "done"
      <4>1. Found(d)
        BY <3>1 DEF RaceInv, Questions, Found
      <4>2. QED
        BY <2>3, <4>1 DEF Ask
    <3>4. QED
      BY <2>2, <3>2, <3>3 DEF ReviewsStay, Reviewed
  <2>4. CASE TakeBack(r) \/ Close(r)
    <3>1. me[r].old \in Digest
      BY <2>1, <2>4, AtPlan DEF TakeBack, Close, Planned, Backed
    <3> PICK d : d = me[r].old
      OBVIOUS
    <3>2. \A b \in Digest : b # d => request'[b] = request[b]
      BY <1>0, <2>4 DEF TakeBack, Close
    <3>3. request[d].status = "done" => request'[d] = request[d]
      BY <2>4 DEF TakeBack, Close
    <3>4. QED
      BY <2>2, <3>2, <3>3 DEF ReviewsStay, Reviewed
  <2>5. QED
    BY <1>4, <2>3, <2>4
<1>5. ASSUME NEW r \in Runner, Pass(r) \/ Crash(r),
             ~(Ask(r) \/ TakeBack(r) \/ Close(r))
      PROVE  UNCHANGED <<request, answer>>
  BY <1>5 DEF Pass, Crash, Begin, Claim, ClaimRow, Sweep, Service, Refused, Record, Reread,
     Limit, Mark, Require, Authorize, Consume, Withdraw, Attempt, Place, PlaceRaises, Work,
     Outcome, gate
<1>6. QED
  BY <1>1, <1>2, <1>3, <1>4, <1>5 DEF Next, vars

\* What the worker's steps start from.
LEMMA AloneFacts ==
  ASSUME RaceInv, AloneInv, NEW x, At(Worker, x)
  PROVE  /\ Worker \in Runner /\ TypeOK /\ Planned(Worker) /\ Fits
         /\ x \in Todo(Worker) /\ Todo(Worker) = {x} \cup Rest(Worker)
         /\ Todo(Worker) # {}
         /\ \A y \in Rest(Worker) : Follows(x, y)
         /\ entry.digest \in Digest \cup {None}
<1>1. Worker \in Runner /\ TypeOK /\ Planned(Worker)
  BY ReviewAssumption DEF RaceInv
<1>2. QED
  BY <1>1, AtPlan DEF AloneInv, TypeOK, Entry

\* A pass that is over fits every entry.
LEMMA AloneOver ==
  ASSUME RaceInv, AloneInv, ReviewsStay, Finish(Worker), entry' = entry, sent' = sent,
         spent \subseteq spent', rowLost => rowLost'
  PROVE  AloneInv'
<1>1. Worker \in Runner /\ TypeOK
  BY ReviewAssumption DEF RaceInv
<1>2. Moves(Worker) /\ me'[Worker].todo = <<>> /\ Todo(Worker)' = {}
  BY <1>1, Finished
<1>3. Fits'
  BY <1>2, RestFits DEF AloneInv
<1>4. QED
  BY <1>2, <1>3, StillFits

\* A step that is done leaves the rest, which fits as before.
LEMMA AloneDone ==
  ASSUME RaceInv, AloneInv, ReviewsStay, NEW x, At(Worker, x),
         x \notin {"sweep", "approved", "refused", "submitted"} \cup Endings,
         Continue(Worker, <<>>), Keeps, entry' = entry, sent' = sent,
         spent \subseteq spent', rowLost => rowLost'
  PROVE  AloneInv'
<1>1. /\ Worker \in Runner /\ TypeOK /\ Planned(Worker)
      /\ Todo(Worker) = {x} \cup Rest(Worker)
      /\ \A y \in Rest(Worker) : Follows(x, y)
      /\ me[Worker].todo # <<>>
  BY AloneFacts DEF At
<1>2. /\ Moves(Worker) /\ Todo(Worker)' = Rest(Worker)
      /\ Todo(Worker)' # {} => me'[Worker].packet = me[Worker].packet
  BY <1>1, Stepped
<1>3. Fits'
  BY <1>1, <1>2, RestFits DEF AloneInv
<1>4. Loose => Todo(Worker)' \cap Endings # {}
  <2> HAVE Loose
  <2>1. "sweep" \notin Todo(Worker)
    BY <1>1 DEF Follows, Endings, Closing, Filing
  <2>2. Todo(Worker) \cap Endings # {}
    BY <1>1, <2>1 DEF AloneInv, LooseFits, Has
  <2>3. QED
    BY <1>1, <1>2, <2>2
<1>5. QED
  BY <1>2, <1>3, <1>4, StillFits

\* A pass begins with a claim, or with a sweep and a service.  (One runner.)
LEMMA AloneBegin ==
  ASSUME RaceInv, AloneInv, ReviewsStay, Begin(Worker), RaceInv'
  PROVE  AloneInv'
<1>1. UNCHANGED <<entry, current, gate, sent, open, rowLost, faults>>
  BY DEF Begin
<1>2. Worker \in Runner /\ me \in [Runner -> RunnerState]
  BY ReviewAssumption DEF RaceInv, TypeOK, RunnerState
<1>3. me' \in [Runner -> RunnerState] /\ \A q \in Runner \ {Worker} : me'[q] = me[q]
  BY <1>2 DEF Begin, RaceInv, TypeOK, RunnerState
<1>4. me'[Worker].todo = (IF entry.state = "NONE" THEN <<"claim">> ELSE <<"sweep", "service">>)
  BY <1>2 DEF Begin, RunnerState
<1>5. /\ entry.state = "NONE" => Todo(Worker)' = {"claim"}
      /\ entry.state # "NONE" => Todo(Worker)' = {"sweep", "service"}
  BY <1>4, Beginnings DEF Todo
<1>6. Fits'
  BY <1>1, <1>5 DEF Fits, Has, Working
<1>7. Loose => "sweep" \in Todo(Worker)'
  BY <1>5 DEF Loose, Live
<1>8. QED
  BY <1>1, <1>3, <1>6, <1>7, StillFits DEF Moves, gate

\* claim() writes the new entry, services the one it finds, or is over.  (One runner.)
LEMMA AloneClaim ==
  ASSUME RaceInv, AloneInv, ReviewsStay, Claim(Worker), RaceInv'
  PROVE  AloneInv'
<1>1. At(Worker, "claim") /\ UNCHANGED <<gate, outside>>
  BY DEF Claim
<1>2. /\ Worker \in Runner /\ TypeOK /\ Planned(Worker) /\ entry.state = "NONE"
      /\ Rest(Worker) = {}
  BY <1>1, AloneFacts DEF Fits, Has, Follows, Endings, Closing, Filing
<1>3. /\ entry' = [NoEntry EXCEPT !.state = "CLAIMED", !.reserved = TRUE]
      /\ Continue(Worker, <<"row">>)
  BY <1>2 DEF Claim, Active, Final
<1>4. Plan(<<"row">>) /\ Of(<<"row">>) = {"row"}
  BY One DEF Step
<1>5. Moves(Worker) /\ Todo(Worker)' = {"row"}
  BY <1>1, <1>2, <1>3, <1>4, Continued
<1>6. entry'.state = "CLAIMED" /\ entry'.reserved
  BY <1>3 DEF NoEntry
<1>7. Fits'
  BY <1>5, <1>6 DEF Fits, Has, Working
<1>8. sent' = <<>>
  BY <1>1, <1>2 DEF AloneInv, SentFits, outside
<1>9. NobodyElse'
  BY <1>5 DEF AloneInv, NobodyElse, Moves
<1>10. QED
  BY <1>6, <1>7, <1>8, <1>9 DEF AloneInv, SentFits, LooseFits, Loose

\* The row of the nomination is marked claimed, or the claim is compensated.  (One runner.)
LEMMA AloneClaimRow ==
  ASSUME RaceInv, AloneInv, ReviewsStay, ClaimRow(Worker), RaceInv'
  PROVE  AloneInv'
<1>1. /\ At(Worker, "row")
      /\ UNCHANGED <<entry, current, gate, sent, open, due, overlaps, faults>>
      /\ rowLost => rowLost'
  BY DEF ClaimRow
<1>2. /\ Worker \in Runner /\ TypeOK /\ Planned(Worker) /\ entry.state = "CLAIMED"
      /\ Rest(Worker) = {}
  BY <1>1, AloneFacts DEF Fits, Has, Follows, Endings, Closing, Filing
<1>3. ~Loose
  BY <1>1, NotLoose DEF Endings
<1>4. CASE Continue(Worker, <<"service">>)
  <2>1. Plan(<<"service">>) /\ Of(<<"service">>) = {"service"}
    BY One DEF Step
  <2>2. Moves(Worker) /\ Todo(Worker)' = {"service"}
    BY <1>1, <1>2, <1>4, <2>1, Continued
  <2>3. Fits'
    BY <2>2 DEF Fits, Has, Working
  <2>4. QED
    BY <1>1, <1>3, <2>2, <2>3, StillFits DEF gate
<1>5. CASE Continue(Worker, Ending(entry, "abandoned")) /\ rowLost'
  <2> PICK s : s = Ending(entry, "abandoned")
    OBVIOUS
  <2>1. "abandoned" \in Endings
    BY DEF Endings
  <2>2. Plan(s) /\ Of(s) \subseteq {"release", "reread", "abandoned"}
    BY <2>1, EndingShape
  <2>3. Continue(Worker, s)
    BY <1>5
  <2>4. Moves(Worker) /\ Todo(Worker)' = Of(s)
    BY <1>1, <1>2, <2>2, <2>3, Continued
  <2>5. Fits'
    BY <1>1, <1>2, <1>5, <2>2, <2>4 DEF Fits, Has, Working
  <2>6. QED
    BY <1>1, <1>3, <2>4, <2>5, StillFits DEF gate
<1>6. QED
  BY <1>4, <1>5 DEF ClaimRow

\* The steps of an ending fit the entry that it ends.
LEMMA EndsFit ==
  ASSUME NEW t, Ends(entry, t), Due(entry), entry' = entry,
         Todo(Worker)' \subseteq Of(t) \cup {"service"}
  PROVE  Fits'
<1>1. SweepScript(entry)' # <<>>
  <2>1. SweepScript(entry)' = SweepScript(entry)
    BY DEF SweepScript, Retire, Ending
  <2>2. QED
    BY <2>1, WhenDue
<1>2. Todo(Worker)' \subseteq {"release", "reread", "withdraw", "service"} \cup Dying
  BY DEF Ends
<1>3. /\ Has("expired")' => entry'.state = "AWAITING_REVIEW"
      /\ Has("lapsed")' => entry'.state = "APPROVED_PENDING_EXECUTION"
      /\ Has("abandoned")' => entry'.state \in {"CLAIMED", "REFUSED_COOLDOWN"}
  BY DEF Ends, Has
<1>4. ~Working(Worker)'
  BY <1>2 DEF Working, Dying
<1>5. QED
  BY <1>1, <1>2, <1>3, <1>4 DEF Fits, Has, Dying

\* sweep() puts the ending of an entry that is due before the rest.  (One runner.)
LEMMA AloneSweep ==
  ASSUME RaceInv, AloneInv, ReviewsStay, Sweep(Worker), RaceInv'
  PROVE  AloneInv'
<1>1. At(Worker, "sweep") /\ UNCHANGED <<entry, gate, outside>>
  BY DEF Sweep
<1>2. /\ Worker \in Runner /\ TypeOK /\ Planned(Worker) /\ Rest(Worker) \subseteq {"service"}
      /\ Plan(Tail(me[Worker].todo))
  BY <1>1, AloneFacts, AtPlan DEF Follows, Endings, Closing, Filing
<1> PICK s : s = SweepScript(entry)
  OBVIOUS
<1>3. /\ Due(entry) => Ends(entry, s)
      /\ ~Due(entry) => s = <<>>
  BY SweepShape
<1>4. me \in [Runner -> RunnerState] /\ me' \in [Runner -> RunnerState]
  BY <1>2 DEF RaceInv, TypeOK, RunnerState
<1>5. Moves(Worker) /\ me'[Worker].todo = s \o Tail(me[Worker].todo)
  BY <1>2, <1>4 DEF Sweep, Moves, RunnerState
<1>6. Todo(Worker)' = Of(s) \cup Rest(Worker)
  <2>1. Plan(s) /\ \A a \in Of(s), b \in Rest(Worker) : Follows(a, b)
    BY <1>2, <1>3, None0 DEF Ends, Follows, Endings, Closing, Dying
  <2>2. Of(s \o Tail(me[Worker].todo)) = Of(s) \cup Rest(Worker)
    BY <1>2, <2>1, Joined DEF Rest
  <2>3. QED
    BY <1>5, <2>2 DEF Todo
<1>7. Fits'
  <2>1. CASE Due(entry)
    BY <1>1, <1>2, <1>3, <1>6, <2>1, EndsFit
  <2>2. CASE ~Due(entry)
    <3>1. Todo(Worker)' \subseteq {"service"}
      BY <1>2, <1>3, <1>6, <2>2, None0
    <3>2. QED
      BY <3>1 DEF Fits, Has, Working
  <2>3. QED
    BY <2>1, <2>2
<1>8. Loose => Todo(Worker)' \cap Endings # {}
  <2> HAVE Loose
  <2>1. Due(entry)
    BY WhenDue DEF AloneInv, LooseFits
  <2>2. Of(s) \cap Dying # {}
    BY <1>3, <2>1 DEF Ends
  <2>3. QED
    BY <1>6, <2>2 DEF Dying, Endings
<1>9. QED
  BY <1>1, <1>5, <1>7, <1>8, StillFits DEF gate, outside

\* service() chooses what the state of the entry asks for.  (One runner.)
LEMMA AloneService ==
  ASSUME RaceInv, AloneInv, ReviewsStay, Service(Worker), RaceInv'
  PROVE  AloneInv'
<1>1. At(Worker, "service") /\ UNCHANGED <<entry, gate, outside>>
  BY DEF Service
<1>2. Worker \in Runner /\ TypeOK /\ ~Loose
  BY <1>1, AloneFacts, NotLoose DEF Endings
<1> PICK d \in Digest :
      /\ d = entry.digest \/ entry.digest = None \/ entry.revision < MaxRevision
      /\ IF ServiceScript(entry, d) = <<>> THEN Finish(Worker)
         ELSE me' = [me EXCEPT ![Worker] =
                [@ EXCEPT !.todo = ServiceScript(entry, d), !.packet = d,
                          !.old = entry.digest,
                          !.revision = IF ServiceScript(entry, d) = Supersede
                                         THEN entry.revision + 1 ELSE entry.revision]]
  BY DEF Service
<1> PICK t : t = ServiceScript(entry, d)
  OBVIOUS
<1>3. CASE t = <<>>
  BY <1>1, <1>3, AloneOver DEF gate, outside
<1>4. CASE t # <<>>
  <2>1. Serves(entry, d, t)
    BY ServiceShape
  <2>2. me \in [Runner -> RunnerState] /\ me' \in [Runner -> RunnerState]
    BY <1>2 DEF RaceInv, TypeOK, RunnerState
  <2>3. Moves(Worker) /\ me'[Worker].todo = t /\ me'[Worker].packet = d
    <3> PICK n : n = (IF t = Supersede THEN entry.revision + 1 ELSE entry.revision)
      OBVIOUS
    <3> DEFINE m == [me[Worker] EXCEPT !.todo = t, !.packet = d, !.old = entry.digest,
                                       !.revision = n]
    <3>1. me' = [me EXCEPT ![Worker] = m]
      BY <1>4, <2>2
    <3>2. m.todo = t /\ m.packet = d
      BY <1>2, <2>2 DEF RunnerState
    <3> HIDE DEF m
    <3>3. QED
      BY <1>2, <2>2, <3>1, <3>2 DEF Moves
  <2>4. Todo(Worker)' = Of(t)
    BY <2>3 DEF Todo
  <2>5. Fits'
    <3>1. CASE t = File /\ entry.state = "CLAIMED"
      <4>1. Todo(Worker)' = {"ask", "file"}
        BY <2>4, <3>1, FilingShape
      <4>2. QED
        BY <1>1, <3>1, <4>1 DEF Fits, Has, Working, Live
    <3>2. CASE Ends(entry, t) /\ Due(entry)
      BY <1>1, <2>4, <3>2, EndsFit
    <3>3. CASE /\ t = Supersede
               /\ entry.state \in {"AWAITING_REVIEW", "APPROVED_PENDING_EXECUTION",
                                   "REFUSED_COOLDOWN"}
      <4>1. Todo(Worker)' = {"superseded", "withdraw", "reread", "ask", "file"}
        BY <2>4, <3>3, FilingShape
      <4>2. QED
        BY <1>1, <3>3, <4>1 DEF Fits, Has, Working, Live
    <3>4. CASE /\ t = <<"authorize">> /\ d = entry.digest
               /\ entry.state = "APPROVED_PENDING_EXECUTION"
      <4>1. Todo(Worker)' = {"authorize"}
        BY <2>4, <3>4, One DEF Step
      <4>2. QED
        BY <1>1, <2>3, <3>4, <4>1 DEF Fits, Has, Working, Approved
    <3>5. CASE t = <<"require">> /\ d = entry.digest /\ entry.state = "AWAITING_REVIEW"
      <4>1. Todo(Worker)' = {"require"}
        BY <2>4, <3>5, One DEF Step
      <4>2. QED
        BY <1>1, <2>3, <3>5, <4>1 DEF Fits, Has, Working
    <3>6. QED
      BY <1>4, <2>1, <3>1, <3>2, <3>3, <3>4, <3>5 DEF Serves
  <2>6. QED
    BY <1>1, <1>2, <2>3, <2>5, StillFits DEF gate, outside
<1>5. QED
  BY <1>3, <1>4

\* After a refusal the entry waits, or is given up.  (One runner.)
LEMMA AloneLimit ==
  ASSUME RaceInv, AloneInv, ReviewsStay, Limit(Worker), RaceInv'
  PROVE  AloneInv'
<1>1. At(Worker, "limit") /\ UNCHANGED <<entry, gate, outside>>
  BY DEF Limit
<1>2. /\ Worker \in Runner /\ TypeOK /\ Planned(Worker) /\ Rest(Worker) = {}
      /\ Todo(Worker) = {"limit"}
  BY <1>1, AloneFacts DEF Follows, Endings, Closing, Filing
<1>3. entry.state = "REFUSED_COOLDOWN"
  BY <1>2 DEF AloneInv, Fits, Has
<1>4. CASE entry.refusals >= TerminalAfter
  <2> PICK s : s = Retire(entry, "abandoned")
    OBVIOUS
  <2>1. Continue(Worker, s)
    BY <1>4 DEF Limit
  <2>2. Ends(entry, s)
    BY <1>3, Dies DEF Dying
  <2>3. Due(entry)
    BY <1>3, <1>4 DEF Due
  <2>4. Moves(Worker) /\ Todo(Worker)' = Of(s)
    BY <1>1, <1>2, <2>1, <2>2, Continued DEF Ends
  <2>5. Fits'
    BY <1>1, <2>2, <2>3, <2>4, EndsFit
  <2>6. Todo(Worker)' \cap Endings # {}
    BY <2>2, <2>4 DEF Ends, Dying, Endings
  <2>7. QED
    BY <1>1, <2>4, <2>5, <2>6, StillFits DEF gate, outside
<1>5. CASE ~(entry.refusals >= TerminalAfter)
  <2>1. Continue(Worker, <<>>)
    BY <1>5 DEF Limit
  <2>2. Keeps
    BY <1>1, Frame DEF gate
  <2>3. QED
    BY <1>1, <2>1, <2>2, AloneDone DEF Endings, gate, outside
<1>6. QED
  BY <1>4, <1>5

\* The request of the packet is found or created.  (One runner.)
LEMMA AloneAsk ==
  ASSUME RaceInv, AloneInv, ReviewsStay, Ask(Worker), RaceInv'
  PROVE  AloneInv'
<1>1. At(Worker, "ask") /\ UNCHANGED <<entry, current, answer, marked, spent, outside>>
  BY DEF Ask
<1>2. /\ Worker \in Runner /\ TypeOK /\ Planned(Worker) /\ Rest(Worker) \subseteq {"file"}
      /\ entry.state \in Live
  BY <1>1, AloneFacts DEF Follows, Endings, Closing, Filing, Fits
<1>3. Moves(Worker) /\ Todo(Worker)' \subseteq {"mark", "file"}
  <2>1. CASE Continue(Worker, <<>>)
    <3>1. Plan(<<>>) /\ Of(<<>>) = {}
      BY None0
    <3>2. Moves(Worker) /\ Todo(Worker)' = Rest(Worker)
      BY <1>1, <1>2, <2>1, <3>1, Continued
    <3>3. QED
      BY <1>2, <3>2
  <2>2. CASE Continue(Worker, <<"mark">>)
    <3>1. Plan(<<"mark">>) /\ Of(<<"mark">>) = {"mark"}
      BY One DEF Step
    <3>2. \A a \in Of(<<"mark">>), b \in Rest(Worker) : Follows(a, b)
      BY <1>2, <3>1 DEF Follows
    <3>3. Moves(Worker) /\ Todo(Worker)' = {"mark"} \cup Rest(Worker)
      BY <1>1, <1>2, <2>2, <3>1, <3>2, Continued
    <3>4. QED
      BY <1>2, <3>3
  <2>3. QED
    BY <2>1, <2>2 DEF Ask
<1>4. Fits'
  BY <1>1, <1>2, <1>3 DEF Fits, Has, Working, Live
<1>5. ~Loose
  BY <1>1, NotLoose DEF Endings
<1>6. QED
  BY <1>1, <1>3, <1>4, <1>5, StillFits DEF outside

\* The answer to the packet is read and put in the rest of the pass.  (One runner.)
LEMMA AloneRequire ==
  ASSUME RaceInv, AloneInv, ReviewsStay, Require(Worker), RaceInv'
  PROVE  AloneInv'
<1>1. At(Worker, "require") /\ UNCHANGED <<entry, current, gate, outside>>
  BY DEF Require
<1>2. /\ Worker \in Runner /\ TypeOK /\ Planned(Worker) /\ Rest(Worker) = {}
      /\ entry.state = "AWAITING_REVIEW" /\ me[Worker].packet = entry.digest
  BY <1>1, AloneFacts DEF Follows, Endings, Closing, Filing, Fits, Has
<1>3. ~Loose
  BY <1>1, NotLoose DEF Endings
<1>4. CASE /\ Verdict(me[Worker].packet) = "APPROVED"
           /\ Continue(Worker, <<"approved", "authorize">>)
  <2>1. /\ Plan(<<"approved", "authorize">>)
        /\ Of(<<"approved", "authorize">>) = {"approved", "authorize"}
    BY Two DEF Step, Event, Follows
  <2>2. /\ Moves(Worker) /\ Todo(Worker)' = {"approved", "authorize"}
        /\ me'[Worker].packet = me[Worker].packet
    BY <1>1, <1>2, <1>4, <2>1, Continued
  <2>3. Reviewed(entry.digest)
    BY <1>2, <1>4 DEF Verdict, Covers, Reviewed
  <2>4. Reviewed(entry.digest)'
    BY <1>1, <2>3 DEF Reviewed, gate
  <2>5. Fits'
    BY <1>1, <1>2, <2>2, <2>4 DEF Fits, Has, Working
  <2>6. QED
    BY <1>1, <1>3, <2>2, <2>5, StillFits DEF gate, outside
<1>5. CASE Continue(Worker, <<"refused", "limit">>)
  <2>1. Plan(<<"refused", "limit">>) /\ Of(<<"refused", "limit">>) = {"refused", "limit"}
    BY Two DEF Step, Event, Follows
  <2>2. Moves(Worker) /\ Todo(Worker)' = {"refused", "limit"}
    BY <1>1, <1>2, <1>5, <2>1, Continued
  <2>3. Fits'
    BY <1>1, <1>2, <2>2 DEF Fits, Has, Working
  <2>4. QED
    BY <1>1, <1>3, <2>2, <2>3, StillFits DEF gate, outside
<1>6. CASE Finish(Worker)
  BY <1>1, <1>6, AloneOver DEF gate, outside
<1>7. \/ /\ Verdict(me[Worker].packet) = "APPROVED"
         /\ Continue(Worker, <<"approved", "authorize">>)
      \/ Continue(Worker, <<"refused", "limit">>)
      \/ Finish(Worker)
  <2>1. CASE Verdict(me[Worker].packet) = "APPROVED"
    BY <2>1 DEF Require
  <2>2. CASE Verdict(me[Worker].packet) = "REFUSED"
    BY <2>2 DEF Require
  <2>3. CASE Verdict(me[Worker].packet) \notin {"APPROVED", "REFUSED"}
    BY <2>3 DEF Require
  <2>4. QED
    BY <2>1, <2>2, <2>3
<1>8. QED
  BY <1>4, <1>5, <1>6, <1>7

\* authorize_open() finds the approval again, and will spend it.  (One runner.)
LEMMA AloneAuthorize ==
  ASSUME RaceInv, AloneInv, ReviewsStay, Authorize(Worker), RaceInv'
  PROVE  AloneInv'
<1>1. /\ At(Worker, "authorize") /\ UNCHANGED <<entry, current, gate, outside>>
      /\ Verdict(me[Worker].packet) = "APPROVED" /\ Continue(Worker, <<"consume">>)
  BY DEF Authorize
<1>2. /\ Worker \in Runner /\ TypeOK /\ Planned(Worker) /\ Rest(Worker) = {}
      /\ Todo(Worker) = {"authorize"}
  BY <1>1, AloneFacts DEF Follows, Endings, Closing, Filing
<1>3. Approved /\ ~Loose
  BY <1>1, <1>2, NotLoose DEF AloneInv, Fits, Has, Endings
<1>4. Reviewed(entry.digest)'
  BY <1>1, <1>3 DEF Approved, Verdict, Covers, Reviewed, gate
<1>5. Plan(<<"consume">>) /\ Of(<<"consume">>) = {"consume"}
  BY One DEF Step
<1>6. /\ Moves(Worker) /\ Todo(Worker)' = {"consume"}
      /\ me'[Worker].packet = me[Worker].packet
  BY <1>1, <1>2, <1>5, Continued
<1>7. Fits'
  BY <1>1, <1>3, <1>4, <1>6 DEF Fits, Has, Working, Approved
<1>8. QED
  BY <1>1, <1>3, <1>6, <1>7, StillFits DEF gate, outside

\* The answer is spent, or somebody spent it before.  (One runner.)
LEMMA AloneConsume ==
  ASSUME RaceInv, AloneInv, ReviewsStay, Consume(Worker), RaceInv'
  PROVE  AloneInv'
<1>1. /\ At(Worker, "consume")
      /\ UNCHANGED <<entry, current, request, answer, marked, asking, outside>>
      /\ spent' = spent \cup {me[Worker].packet}
  BY DEF Consume
<1>2. Worker \in Runner /\ TypeOK /\ Planned(Worker) /\ Rest(Worker) = {}
  BY <1>1, AloneFacts DEF Follows, Endings, Closing, Filing
<1>3. Approved /\ Reviewed(entry.digest) /\ ~Loose
  BY <1>1, AloneFacts, NotLoose DEF Fits, Endings
<1>4. CASE Finish(Worker)
  BY <1>1, <1>4, AloneOver DEF outside
<1>5. CASE Continue(Worker, <<"attempt">>)
  <2>1. Plan(<<"attempt">>) /\ Of(<<"attempt">>) = {"attempt"}
    BY One DEF Step
  <2>2. /\ Moves(Worker) /\ Todo(Worker)' = {"attempt"}
        /\ me'[Worker].packet = me[Worker].packet
    BY <1>1, <1>2, <1>5, <2>1, Continued
  <2>3. Reviewed(entry.digest)'
    BY <1>1, <1>3 DEF Reviewed
  <2>4. Fits'
    BY <1>1, <1>3, <2>2, <2>3 DEF Fits, Has, Working, Approved
  <2>5. QED
    BY <1>1, <1>3, <2>2, <2>4, StillFits DEF outside
<1>6. QED
  BY <1>4, <1>5 DEF Consume

\* The superseded request is to be taken and closed, closed, or left.  (One runner.)
LEMMA AloneWithdraw ==
  ASSUME RaceInv, AloneInv, ReviewsStay, Withdraw(Worker), RaceInv'
  PROVE  AloneInv'
<1>1. At(Worker, "withdraw") /\ UNCHANGED <<entry, current, gate, outside>>
  BY DEF Withdraw
<1>2. /\ Worker \in Runner /\ TypeOK /\ Planned(Worker)
      /\ Rest(Worker) \subseteq {"withdraw", "close", "service", "reread", "ask", "file"}
      /\ Todo(Worker) = {"withdraw"} \cup Rest(Worker)
  BY <1>1, AloneFacts DEF Follows, Endings, Closing, Filing
<1>3. ~Loose
  BY <1>1, NotLoose DEF Endings
<1>4. ASSUME NEW s, s \in {<<"take", "close">>, <<"close">>, <<>>}, Continue(Worker, s)
      PROVE  AloneInv'
  <2>1. Plan(s) /\ Of(s) \subseteq {"take", "close"}
    <3>1. Plan(<<"take", "close">>) /\ Of(<<"take", "close">>) = {"take", "close"}
      BY Two DEF Step, Follows, Closing
    <3>2. Plan(<<"close">>) /\ Of(<<"close">>) = {"close"}
      BY One DEF Step
    <3>3. QED
      BY <1>4, <3>1, <3>2, None0
  <2>2. \A a \in Of(s), b \in Rest(Worker) : Follows(a, b)
    BY <1>2, <2>1 DEF Follows, Closing, Filing
  <2>3. /\ Moves(Worker) /\ Todo(Worker)' = Of(s) \cup Rest(Worker)
        /\ Todo(Worker)' # {} => me'[Worker].packet = me[Worker].packet
    BY <1>1, <1>2, <1>4, <2>1, <2>2, Continued
  <2>4. Todo(Worker)' \subseteq Todo(Worker) \cup Free
    BY <1>2, <2>1, <2>3 DEF Free
  <2>5. {"approved", "refused", "submitted"} \cap Todo(Worker) = {}
    BY <1>2
  <2>6. Fits'
    BY <1>1, <2>3, <2>4, <2>5, RestFits DEF AloneInv, gate, outside
  <2>7. QED
    BY <1>1, <1>3, <2>3, <2>6, StillFits DEF gate, outside
<1>5. \E s \in {<<"take", "close">>, <<"close">>, <<>>} : Continue(Worker, s)
  <2> PICK status : status = (IF me[Worker].old = None THEN "none"
                                                        ELSE request[me[Worker].old].status)
    OBVIOUS
  <2>1. Continue(Worker, CASE status = "pending" -> <<"take", "close">>
                           [] status = "claimed" -> <<"close">>
                           [] OTHER -> <<>>)
    BY DEF Withdraw
  <2>2. CASE status = "pending"
    BY <2>1, <2>2
  <2>3. CASE status = "claimed"
    BY <2>1, <2>3
  <2>4. CASE status \notin {"pending", "claimed"}
    BY <2>1, <2>4
  <2>5. QED
    BY <2>2, <2>3, <2>4
<1>6. QED
  BY <1>4, <1>5

\* The superseded request is taken, unless the reviewer took it.  (One runner.)
LEMMA AloneTakeBack ==
  ASSUME RaceInv, AloneInv, ReviewsStay, TakeBack(Worker), RaceInv'
  PROVE  AloneInv'
<1>1. /\ At(Worker, "take")
      /\ UNCHANGED <<entry, current, answer, marked, asking, spent, outside>>
  BY DEF TakeBack
<1>2. /\ Worker \in Runner /\ TypeOK /\ Planned(Worker)
      /\ Rest(Worker) \subseteq {"withdraw", "close", "service", "reread", "ask", "file"}
      /\ Todo(Worker) = {"take"} \cup Rest(Worker) /\ Len(me[Worker].todo) > 1
  BY <1>1, AloneFacts DEF Follows, Endings, Closing, Filing, Planned
<1>3. ~Loose
  BY <1>1, NotLoose DEF Endings
<1>4. /\ Moves(Worker) /\ Todo(Worker)' \subseteq Rest(Worker)
      /\ Todo(Worker)' # {} => me'[Worker].packet = me[Worker].packet
  <2>1. CASE Continue(Worker, <<>>)
    <3>1. Plan(<<>>) /\ Of(<<>>) = {}
      BY None0
    <3>2. QED
      BY <1>1, <1>2, <2>1, <3>1, Continued
  <2>2. CASE me' = [me EXCEPT ![Worker].todo = Tail(Tail(@))]
    <3>1. me \in [Runner -> RunnerState] /\ me' \in [Runner -> RunnerState]
      BY <1>2 DEF RaceInv, TypeOK, RunnerState
    <3>2. /\ \A q \in Runner \ {Worker} : me'[q] = me[q]
          /\ me'[Worker].todo = Tail(Tail(me[Worker].todo))
          /\ me'[Worker].packet = me[Worker].packet
      BY <1>2, <2>2, <3>1 DEF RunnerState
    <3>3. Of(Tail(Tail(me[Worker].todo))) \subseteq Rest(Worker)
      BY <1>2, RestOfTwo DEF Rest, Planned
    <3>4. QED
      BY <3>1, <3>2, <3>3 DEF Moves, Todo
  <2>3. QED
    BY <2>1, <2>2 DEF TakeBack
<1>5. Todo(Worker)' \subseteq Todo(Worker) \cup Free
  BY <1>2, <1>4
<1>6. {"approved", "refused", "submitted"} \cap Todo(Worker) = {}
  BY <1>2
<1>7. Fits'
  BY <1>1, <1>4, <1>5, <1>6, RestFits DEF AloneInv, outside
<1>8. QED
  BY <1>1, <1>3, <1>4, <1>7, StillFits DEF outside

\* An entry that may submit goes on to the order.  (One runner.)
LEMMA AloneAttempt ==
  ASSUME RaceInv, AloneInv, ReviewsStay, Attempt(Worker), RaceInv'
  PROVE  AloneInv'
<1>1. At(Worker, "attempt") /\ UNCHANGED <<entry, gate, outside>>
  BY DEF Attempt
<1>2. Worker \in Runner /\ TypeOK /\ Planned(Worker) /\ Rest(Worker) = {}
  BY <1>1, AloneFacts DEF Follows, Endings, Closing, Filing
<1>3. Approved /\ Reviewed(entry.digest) /\ entry.digest \in spent /\ ~Loose
  BY <1>1, AloneFacts, NotLoose DEF Fits, Has, Endings
<1>4. CASE Finish(Worker)
  BY <1>1, <1>4, AloneOver DEF gate, outside
<1>5. CASE Continue(Worker, <<"submitted", "place">>)
  <2>1. Plan(<<"submitted", "place">>) /\ Of(<<"submitted", "place">>) = {"submitted", "place"}
    BY Two DEF Step, Event, Follows
  <2>2. /\ Moves(Worker) /\ Todo(Worker)' = {"submitted", "place"}
        /\ me'[Worker].packet = me[Worker].packet
    BY <1>1, <1>2, <1>5, <2>1, Continued
  <2>3. Reviewed(entry.digest)'
    BY <1>1, <1>3 DEF Reviewed, gate
  <2>4. Fits'
    BY <1>1, <1>3, <2>2, <2>3 DEF Fits, Has, Working, Approved, gate
  <2>5. QED
    BY <1>1, <1>3, <2>2, <2>4, StillFits DEF gate, outside
<1>6. QED
  BY <1>4, <1>5 DEF Attempt

\* From the placement to the outcome the entry is EXECUTING, and its order is sent.
LEMMA AloneOrder ==
  ASSUME RaceInv, AloneInv, ReviewsStay, NEW x \in {"place", "work"}, At(Worker, x),
         NEW y \in {"work", "outcome"}, Moves(Worker), Todo(Worker)' = {y},
         UNCHANGED <<entry, gate, rowLost>>,
         \/ sent' = sent
         \/ x = "place" /\ sent' = Append(sent, me[Worker].packet)
  PROVE  AloneInv'
<1>1. Todo(Worker) = {x} /\ Working(Worker) /\ TypeOK
  BY OneAtWork, ReviewAssumption DEF RaceInv
<1>2. entry.state = "EXECUTING"
  BY <1>1 DEF AloneInv, Fits
<1>3. Fits'
  BY <1>2 DEF Fits, Has, Working
<1>4. ~Loose
  BY <1>2 DEF Loose, Live
<1>5. CASE sent' = sent
  BY <1>3, <1>4, <1>5, StillFits DEF gate
<1>6. CASE x = "place" /\ sent' = Append(sent, me[Worker].packet)
  <2>1. /\ me[Worker].packet = entry.digest /\ entry.digest \in spent
        /\ Reviewed(entry.digest) /\ sent = <<>>
    BY <1>1, <1>6 DEF AloneInv, Fits, Has
  <2>2. Len(sent') = 1 /\ sent'[1] = entry.digest
    BY <1>6, <2>1
  <2>3. Reviewed(entry.digest)'
    BY <2>1 DEF Reviewed, gate
  <2>4. SentFits'
    BY <1>2, <2>1, <2>2, <2>3 DEF SentFits, gate
  <2>5. NobodyElse'
    BY DEF AloneInv, NobodyElse, Moves
  <2>6. LooseFits'
    BY <1>2 DEF LooseFits, Loose, Live
  <2>7. QED
    BY <1>3, <2>4, <2>5, <2>6 DEF AloneInv
<1>7. QED
  BY <1>5, <1>6

\* The order fails before the broker has it, or is sent.  (One runner.)
LEMMA AlonePlaces ==
  ASSUME RaceInv, AloneInv, ReviewsStay, Place(Worker) \/ PlaceRaises(Worker), RaceInv'
  PROVE  AloneInv'
<1>1. At(Worker, "place") /\ UNCHANGED <<entry, current, gate, rowLost>>
  BY DEF Place, PlaceRaises
<1>2. UNCHANGED <<request, answer>> /\ Worker \in Runner
  BY <1>1, ReviewAssumption DEF gate
<1>3. PICK y \in {"work", "outcome"} :
        /\ Continue(Worker, <<y>>)
        /\ sent' = sent \/ sent' = Append(sent, me[Worker].packet)
  BY DEF Place, PlaceRaises
<1>4. Moves(Worker) /\ Todo(Worker)' = {y}
  BY <1>1, <1>2, <1>3, ToOne
<1>5. QED
  BY <1>1, <1>3, <1>4, AloneOrder

\* The order is filled or dead, or nobody knows.  (One runner.)
LEMMA AloneWork ==
  ASSUME RaceInv, AloneInv, ReviewsStay, Work(Worker), RaceInv'
  PROVE  AloneInv'
<1>1. /\ At(Worker, "work")
      /\ UNCHANGED <<entry, current, gate, sent, due, overlaps, rowLost, faults>>
  BY DEF Work
<1>2. CASE Finish(Worker)
  BY <1>1, <1>2, AloneOver DEF gate
<1>3. ASSUME NEW filled \in BOOLEAN,
             me' = [me EXCEPT ![Worker].todo = <<"outcome">>, ![Worker].filled = filled]
      PROVE  AloneInv'
  <2>1. Worker \in Runner
    BY ReviewAssumption
  <2>2. me \in [Runner -> RunnerState] /\ me' \in [Runner -> RunnerState]
    BY DEF RaceInv, TypeOK, RunnerState
  <2>3. Moves(Worker) /\ me'[Worker].todo = <<"outcome">>
    BY <1>3, <2>1, <2>2 DEF Moves, RunnerState
  <2>4. Todo(Worker)' = {"outcome"}
    BY <2>3, One DEF Todo, Step
  <2>5. QED
    BY <1>1, <2>3, <2>4, AloneOrder
<1>4. QED
  BY <1>2, <1>3 DEF Work

\* The entry is to be resolved, if it is still executing.  (One runner.)
LEMMA AloneOutcome ==
  ASSUME RaceInv, AloneInv, ReviewsStay, Outcome(Worker), RaceInv'
  PROVE  AloneInv'
<1>1. At(Worker, "outcome") /\ UNCHANGED <<entry, gate, outside>>
  BY DEF Outcome
<1>2. /\ Worker \in Runner /\ TypeOK /\ Planned(Worker) /\ Rest(Worker) = {}
  BY <1>1, AloneFacts DEF Follows, Endings, Closing, Filing
<1>3. ~Loose
  BY <1>1, NotLoose DEF Endings
<1>4. CASE entry.state = "EXECUTING" /\ Continue(Worker, Ending(entry, "resolved"))
  <2> PICK s : s = Ending(entry, "resolved")
    OBVIOUS
  <2>1. "resolved" \in Endings
    BY DEF Endings
  <2>2. Plan(s) /\ Of(s) \subseteq {"release", "reread", "resolved"}
    BY <2>1, EndingShape
  <2>3. Continue(Worker, s)
    BY <1>4
  <2>4. Moves(Worker) /\ Todo(Worker)' = Of(s)
    BY <1>1, <1>2, <2>2, <2>3, Continued
  <2>5. Fits'
    BY <1>1, <1>4, <2>2, <2>4 DEF Fits, Has, Working
  <2>6. QED
    BY <1>1, <1>3, <2>4, <2>5, StillFits DEF gate, outside
<1>5. CASE Finish(Worker)
  BY <1>1, <1>5, AloneOver DEF gate, outside
<1>6. QED
  BY <1>4, <1>5 DEF Outcome

\* An order is sent only of an entry that is past its review.
LEMMA NothingSent ==
  ASSUME AloneInv, entry.state \in Live
  PROVE  sent = <<>>
BY DEF AloneInv, SentFits, Live

\* An event of the life of the entry is recorded.  (One runner.)
LEMMA AloneRecord ==
  ASSUME RaceInv, AloneInv, ReviewsStay, NEW event \in Event, Record(Worker, event), RaceInv'
  PROVE  AloneInv'
<1>1. At(Worker, event) /\ UNCHANGED <<gate, outside>>
  BY DEF Record
<1>2. /\ Worker \in Runner /\ TypeOK /\ Planned(Worker) /\ Fits
      /\ Todo(Worker) = {event} \cup Rest(Worker)
      /\ \A y \in Rest(Worker) : Follows(event, y)
  BY <1>1, AloneFacts
<1>3. CASE Finish(Worker) /\ entry' = entry
  BY <1>1, <1>3, AloneOver DEF gate, outside
<1>4. CASE entry' = Applied(entry, event, me[Worker]) /\ Continue(Worker, <<>>)
  <2> PICK e : e = Applied(entry, event, me[Worker])
    OBVIOUS
  <2> entry \in Entry
    BY <1>2 DEF TypeOK
  <2>1. Plan(<<>>) /\ Of(<<>>) = {}
    BY None0
  <2>2. /\ Moves(Worker) /\ Todo(Worker)' = Rest(Worker)
        /\ Todo(Worker)' # {} => me'[Worker].packet = me[Worker].packet
    BY <1>1, <1>2, <1>4, <2>1, Continued
  <2>3. NobodyElse'
    BY <2>2 DEF AloneInv, NobodyElse, Moves
  <2>4. /\ sent' = sent /\ spent' = spent /\ rowLost' = rowLost
        /\ request' = request /\ answer' = answer
    BY <1>1 DEF gate, outside
  <2>5. \A d \in Digest : Reviewed(d) <=> Reviewed(d)'
    BY <2>4 DEF Reviewed
  <2>6. CASE event = "release"
    <3>1. e = [entry EXCEPT !.reserved = FALSE]
      BY <2>6 DEF Applied
    <3>2. /\ e.state = entry.state /\ e.digest = entry.digest /\ e.ttl = entry.ttl
          /\ e.age = entry.age /\ e.refusals = entry.refusals
      BY <3>1 DEF Entry
    <3>3. Due(e) <=> Due(entry)
      BY <3>2 DEF Due
    <3>4. SweepScript(entry)' # <<>> <=> SweepScript(entry) # <<>>
      <4>1. SweepScript(entry)' = SweepScript(e)
        BY <1>4 DEF SweepScript, Retire, Ending
      <4>2. QED
        BY <3>3, <4>1, WhenDue
    <3>5. /\ Rest(Worker) \subseteq {"reread", "withdraw", "close", "service"} \cup Endings
          /\ Rest(Worker) \cap Endings # {}
      BY <1>2, <2>6 DEF Follows, Endings, Closing, Planned
    <3>6. Working(Worker)' => Working(Worker)
      BY <1>2, <2>2, <3>5 DEF Working, Endings
    <3>7. Fits'
      BY <1>2, <1>4, <2>2, <2>4, <3>2, <3>4, <3>5, <3>6 DEF Fits, Has, Endings
    <3>8. SentFits'
      BY <1>4, <2>4, <3>2 DEF AloneInv, SentFits, Reviewed
    <3>9. LooseFits'
      <4> SUFFICES ASSUME Loose'
                   PROVE  LooseFits'
        BY DEF LooseFits
      <4>1. entry.state \in Live /\ ~rowLost
        BY <1>4, <2>4, <3>2 DEF Loose
      <4>2. ~Working(Worker)
        BY <1>2, <4>1 DEF Fits, Live
      <4>3. "resolved" \notin Rest(Worker)
        BY <1>2, <4>2 DEF Working
      <4>4. SweepScript(entry) # <<>>
        BY <1>2, <3>5, <4>1, <4>3 DEF Fits, Endings
      <4>5. QED
        BY <2>2, <3>4, <3>5, <4>4 DEF LooseFits
    <3>10. QED
      BY <2>3, <3>7, <3>8, <3>9 DEF AloneInv
  <2>7. CASE event \in Dying
    <3>1. entry.state \in Live
      BY <1>2, <2>7 DEF Fits, Has, Dying, Live
    <3>2. e.state \in {"EXPIRED", "ABANDONED"}
      BY <2>7 DEF Applied, Dying, Entry
    <3>3. Rest(Worker) \subseteq {"withdraw", "close", "service"}
      BY <1>2, <2>7 DEF Follows, Dying, Endings, Closing
    <3>4. Fits'
      BY <2>2, <3>3 DEF Fits, Has, Working
    <3>5. QED
      BY <1>4, <2>3, <2>4, <3>1, <3>2, <3>4, NothingSent
      DEF AloneInv, SentFits, LooseFits, Loose, Live
  <2>8. CASE event = "superseded"
    <3>1. entry' = entry
      BY <1>4, <2>8 DEF Applied
    <3>2. Keeps
      BY <2>4, <3>1, Frame
    <3>3. QED
      BY <1>1, <1>4, <2>4, <2>8, <3>1, <3>2, AloneDone DEF Endings
  <2>9. CASE event \in {"file", "approved", "refused"}
    <3>1. entry.state \in Live
      BY <1>2, <2>9 DEF Fits, Has, Live
    <3>2. /\ e.reserved = entry.reserved
          /\ event = "approved" => e.state = "APPROVED_PENDING_EXECUTION"
                                   /\ e.digest = entry.digest
          /\ event = "refused" => e.state = "REFUSED_COOLDOWN"
      BY <2>9 DEF Applied, Entry
    <3>3. ~Loose
      BY <1>1, <2>9, NotLoose DEF Endings
    <3>4. ~Loose'
      BY <1>4, <2>4, <3>1, <3>2, <3>3 DEF Loose
    <3>5. /\ event = "file" => Rest(Worker) = {}
          /\ event = "approved" => Rest(Worker) \subseteq {"authorize"}
          /\ event = "refused" => Rest(Worker) \subseteq {"limit"}
      BY <1>2, <2>9 DEF Follows, Endings, Closing, Filing
    <3>6. CASE event = "file"
      BY <2>2, <3>5, <3>6, <2>3, <2>4, <3>1, <3>4, NothingSent
      DEF Fits, Has, Working, AloneInv, SentFits, LooseFits
    <3>7. CASE event = "approved"
      <4>1. me[Worker].packet = entry.digest
        BY <1>2, <3>7 DEF Fits, Has
      <4>2. Fits'
        BY <1>4, <2>2, <3>2, <3>5, <3>7, <4>1 DEF Fits, Has, Working, Approved
      <4>3. QED
        BY <2>3, <2>4, <3>1, <3>4, <4>2, NothingSent DEF AloneInv, SentFits, LooseFits
    <3>8. CASE event = "refused"
      <4>1. Fits'
        BY <1>4, <2>2, <3>2, <3>5, <3>8 DEF Fits, Has, Working
      <4>2. QED
        BY <2>3, <2>4, <3>1, <3>4, <4>1, NothingSent DEF AloneInv, SentFits, LooseFits
    <3>9. QED
      BY <2>9, <3>6, <3>7, <3>8
  <2>10. CASE event = "submitted"
    <3>1. Approved /\ Reviewed(entry.digest) /\ entry.digest \in spent
      BY <1>2, <2>10 DEF Fits, Has
    <3>2. sent = <<>>
      BY <3>1, NothingSent DEF Approved, Live
    <3>3. e.state = "EXECUTING" /\ e.digest = entry.digest
      BY <2>10 DEF Applied, Entry
    <3>4. Rest(Worker) \subseteq {"place"}
      BY <1>2, <2>10 DEF Follows, Endings, Closing, Filing
    <3>5. Reviewed(entry.digest)'
      BY <1>4, <2>4, <3>1, <3>3 DEF Reviewed
    <3>6. Fits'
      BY <1>4, <2>2, <2>4, <3>1, <3>2, <3>3, <3>4, <3>5 DEF Fits, Has, Working, Approved
    <3>7. QED
      BY <1>4, <2>3, <2>4, <3>2, <3>3, <3>6 DEF AloneInv, SentFits, LooseFits, Loose, Live
  <2>11. CASE event = "resolved"
    <3>1. e.state \in {"FILLED", "ABANDONED"} /\ e.digest = entry.digest
      BY <2>11 DEF Applied, Entry
    <3>2. Rest(Worker) \subseteq {"withdraw", "close", "service"}
      BY <1>2, <2>11 DEF Follows, Endings, Closing
    <3>3. Fits'
      BY <2>2, <3>2 DEF Fits, Has, Working
    <3>4. SentFits'
      BY <1>4, <2>4, <3>1 DEF AloneInv, SentFits, Reviewed
    <3>5. QED
      BY <1>4, <2>3, <3>1, <3>3, <3>4 DEF AloneInv, LooseFits, Loose, Live
  <2>12. QED
    BY <2>6, <2>7, <2>8, <2>9, <2>10, <2>11 DEF Event, Dying
<1>5. QED
  BY <1>3, <1>4 DEF Record

\* Time passes beside a runner that is alone.
LEMMA AloneTick ==
  ASSUME RaceInv, AloneInv, ReviewsStay, Tick, RaceInv'
  PROVE  AloneInv'
<1>1. /\ entry \in Entry /\ Worker \in Runner
      /\ \A r \in Runner : me[r].todo = <<>>
      /\ me' = me /\ sent' = sent /\ spent' = spent /\ rowLost' = rowLost
  BY ReviewAssumption DEF RaceInv, TypeOK, Tick, Quiet
<1>2. Todo(Worker)' = {}
  BY <1>1, None0 DEF Todo
<1>3. Fits'
  BY <1>2 DEF Fits, Has, Working
<1>4. /\ entry'.state = entry.state /\ entry'.digest = entry.digest
      /\ entry'.reserved = entry.reserved /\ entry'.refusals = entry.refusals
      /\ entry'.ttl = Sooner(entry.ttl) /\ entry'.age = Older(entry.age, MaxAge)
  BY <1>1 DEF Tick, Entry
<1>5. SentFits'
  <2> SUFFICES ASSUME sent # <<>>
               PROVE  SentFits'
    BY <1>1 DEF SentFits
  <2>1. /\ Len(sent) = 1 /\ sent[1] = entry.digest /\ entry.digest \in spent
        /\ Reviewed(entry.digest)
        /\ entry.state \in {"EXECUTING", "FILLED", "ABANDONED"}
    BY DEF AloneInv, SentFits
  <2>2. PICK d \in Digest : d = entry.digest
    BY <2>1 DEF RaceInv, TypeOK
  <2>3. Reviewed(d)'
    BY <2>1, <2>2 DEF ReviewsStay
  <2>4. Reviewed(entry.digest)'
    BY <1>4, <2>2, <2>3 DEF Reviewed
  <2>5. QED
    BY <1>1, <1>4, <2>1, <2>4 DEF SentFits
<1>6. LooseFits'
  <2> SUFFICES ASSUME Loose'
               PROVE  LooseFits'
    BY DEF LooseFits
  <2>1. Loose
    BY <1>1, <1>4 DEF Loose
  <2>2. Due(entry)
    BY <2>1, WhenDue DEF AloneInv, LooseFits
  <2>3. /\ entry.ttl = 0 => entry'.ttl = 0
        /\ entry.age >= ClaimedMax => entry'.age >= ClaimedMax
        /\ entry.age >= CooldownMax => entry'.age >= CooldownMax
    BY <1>1, <1>4, Numbers DEF Sooner, Older, Entry
  <2> PICK e : e = entry'
    OBVIOUS
  <2>4. Due(e)
    BY <1>4, <2>2, <2>3 DEF Due
  <2>5. SweepScript(entry)' # <<>>
    <3>1. SweepScript(entry)' = SweepScript(e)
      BY DEF SweepScript, Retire, Ending
    <3>2. QED
      BY <2>4, <3>1, WhenDue
  <2>6. QED
    BY <1>1, <2>5 DEF LooseFits
<1>7. NobodyElse'
  BY <1>1 DEF NobodyElse
<1>8. QED
  BY <1>3, <1>5, <1>6, <1>7 DEF AloneInv

\* The entry and the runners are as they were: the reviewer's steps, and no step.
LEMMA AloneStill ==
  ASSUME RaceInv, AloneInv, ReviewsStay, RaceInv', UNCHANGED <<entry, me, sent, spent, rowLost>>
  PROVE  AloneInv'
<1>1. Moves(Worker) /\ Todo(Worker)' = Todo(Worker)
  BY Still
<1>2. Fits'
  BY <1>1, RestFits DEF AloneInv
<1>3. Loose => \/ me'[Worker].todo = <<>>
               \/ "sweep" \in Todo(Worker)'
               \/ Todo(Worker)' \cap Endings # {}
  BY <1>1 DEF AloneInv, LooseFits, Has
<1>4. QED
  BY <1>1, <1>2, <1>3, StillFits

\* Nobody but the worker has anything to do, unless a pass begins beside its own.
LEMMA OnlyTheWorker ==
  ASSUME AloneInv, NEW r \in Runner, Pass(r) \/ Crash(r)
  PROVE  r = Worker \/ Begin(r)
<1>1. CASE me[r].todo = <<>>
  <2>1. \A x : ~At(r, x)
    BY <1>1 DEF At
  <2>2. ~Crash(r)
    BY <1>1 DEF Crash
  <2>3. Pass(r) => Begin(r)
    BY <2>1 DEF Pass, Claim, ClaimRow, Sweep, Service, Refused, Record, Reread, Limit, Ask,
       Mark, Require, Authorize, Consume, Withdraw, TakeBack, Close, Attempt, Place,
       PlaceRaises, Work, Outcome
  <2>4. QED
    BY <2>2, <2>3
<1>2. CASE me[r].todo # <<>>
  BY <1>2 DEF AloneInv, NobodyElse
<1>3. QED
  BY <1>1, <1>2

\* Every step keeps the invariant.  (One runner.)
LEMMA AloneStep ==
  ASSUME RaceInv, AloneInv, overlaps = 0, [Next]_vars, overlaps' = 0
  PROVE  AloneInv'
<1>1. RaceInv'
  BY RaceStep
<1>2. ReviewsStay
  BY ReviewsKept
<1>3. CASE UNCHANGED vars
  BY <1>1, <1>2, <1>3, AloneStill DEF vars
<1>4. CASE Tick
  BY <1>1, <1>2, <1>4, AloneTick
<1>5. CASE Reviewer
  BY <1>1, <1>2, <1>5, AloneStill
  DEF Reviewer, ReviewerClaims, ReviewerReplies, ReviewerCloses, reviewerUnchanged, outside
<1>6. ASSUME NEW r \in Runner, Pass(r) \/ Crash(r)
      PROVE  r = Worker
  <2>1. CASE Begin(r)
    BY <2>1 DEF Begin
  <2>2. QED
    BY <1>6, <2>1, OnlyTheWorker
<1>7. CASE Crash(Worker)
  BY <1>2, <1>7, AloneOver DEF Crash
<1>8. CASE Pass(Worker)
  <2>0. Keeps \/ ~(Mark(Worker) \/ Reread(Worker) \/ Close(Worker))
    <3>1. CASE Mark(Worker) \/ Reread(Worker)
      BY <3>1, Frame DEF Mark, Reread, gate
    <3>2. CASE Close(Worker)
      <4>1. \A d \in Digest : request[d].status # "none" => request'[d].status # "none"
        <5>1. request \in [Digest -> Request] /\ Planned(Worker)
          BY ReviewAssumption DEF RaceInv, TypeOK
        <5>2. QED
          BY <3>2, <5>1, AtPlan DEF Close, Planned, Backed, Request
      <4>2. QED
        BY <3>2, <4>1 DEF Close, Keeps
    <3>3. QED
      BY <3>1, <3>2
  <2>1. CASE Begin(Worker)
    BY <1>1, <1>2, <2>1, AloneBegin
  <2>2. CASE Claim(Worker)
    BY <1>1, <1>2, <2>2, AloneClaim
  <2>3. CASE ClaimRow(Worker)
    BY <1>1, <1>2, <2>3, AloneClaimRow
  <2>4. CASE Sweep(Worker)
    BY <1>1, <1>2, <2>4, AloneSweep
  <2>5. CASE Service(Worker)
    BY <1>1, <1>2, <2>5, AloneService
  <2>6. CASE Refused(Worker)
    BY <1>2, <2>6, AloneOver DEF Refused, gate, outside
  <2>7. CASE \E event \in Event : Record(Worker, event)
    BY <1>1, <1>2, <2>7, AloneRecord
  <2>8. CASE Reread(Worker) \/ Mark(Worker) \/ Close(Worker)
    BY <1>2, <2>0, <2>8, AloneDone DEF Reread, Mark, Close, Endings, gate, outside
  <2>9. CASE Limit(Worker)
    BY <1>1, <1>2, <2>9, AloneLimit
  <2>10. CASE Ask(Worker)
    BY <1>1, <1>2, <2>10, AloneAsk
  <2>11. CASE Require(Worker)
    BY <1>1, <1>2, <2>11, AloneRequire
  <2>12. CASE Authorize(Worker)
    BY <1>1, <1>2, <2>12, AloneAuthorize
  <2>13. CASE Consume(Worker)
    BY <1>1, <1>2, <2>13, AloneConsume
  <2>14. CASE Withdraw(Worker)
    BY <1>1, <1>2, <2>14, AloneWithdraw
  <2>15. CASE TakeBack(Worker)
    BY <1>1, <1>2, <2>15, AloneTakeBack
  <2>16. CASE Attempt(Worker)
    BY <1>1, <1>2, <2>16, AloneAttempt
  <2>17. CASE Place(Worker) \/ PlaceRaises(Worker)
    BY <1>1, <1>2, <2>17, AlonePlaces
  <2>18. CASE Work(Worker)
    BY <1>1, <1>2, <2>18, AloneWork
  <2>19. CASE Outcome(Worker)
    BY <1>1, <1>2, <2>19, AloneOutcome
  <2>20. QED
    BY <1>8, <2>1, <2>2, <2>3, <2>4, <2>5, <2>6, <2>7, <2>8, <2>9, <2>10, <2>11, <2>12,
       <2>13, <2>14, <2>15, <2>16, <2>17, <2>18, <2>19 DEF Pass
<1>9. QED
  BY <1>3, <1>4, <1>5, <1>6, <1>7, <1>8 DEF Next

-----------------------------------------------------------------------------
(* What is proved *)

\* A first state satisfies the whole invariant.
LEMMA InitialReview ==
  ASSUME Init
  PROVE  ReviewInv
<1>1. RaceInv
  BY RaceInit
<1>2. Worker \in Runner /\ \A r \in Runner : me[r].todo = <<>>
  BY ReviewAssumption DEF Init, Idle
<1>3. Todo(Worker) = {}
  BY <1>2, None0 DEF Todo
<1>4. Fits
  BY <1>3 DEF Fits, Has, Working
<1>5. QED
  BY <1>1, <1>2, <1>4
  DEF Init, NoEntry, ReviewInv, AloneInv, NobodyElse, SentFits, LooseFits, Loose, Live

\* A pass begun beside another one is never taken back.
LEMMA OverlapsGrow ==
  ASSUME RaceInv, [Next]_vars, overlaps' = 0
  PROVE  overlaps = 0
<1>1. overlaps \in Nat
  BY Numbers DEF RaceInv, TypeOK
<1>2. overlaps' \in {overlaps, overlaps + 1}
  BY DEF Next, vars, Tick, Reviewer, ReviewerClaims, ReviewerReplies, ReviewerCloses,
     reviewerUnchanged, outside, Pass, Crash, Begin, Claim, ClaimRow, Sweep, Service, Refused,
     Record, Reread, Limit, Ask, Mark, Require, Authorize, Consume, Withdraw, TakeBack, Close,
     Attempt, Place, PlaceRaises, Work, Outcome
<1>3. QED
  BY <1>1, <1>2

\* Every step keeps the whole invariant: alone as long as no pass overlaps.
LEMMA ReviewStep ==
  ASSUME ReviewInv, [Next]_vars
  PROVE  ReviewInv'
<1>1. RaceInv'
  BY RaceStep DEF ReviewInv
<1>2. overlaps' = 0 => AloneInv'
  BY OverlapsGrow, AloneStep DEF ReviewInv
<1>3. QED
  BY <1>1, <1>2 DEF ReviewInv

\* The invariant of the life of an entry: what every pass relies on whoever runs
\* beside it, and what one runner alone keeps through every crash.
THEOREM ReviewInvariant == Spec => []ReviewInv
<1>1. Init => ReviewInv
  BY InitialReview
<1>2. ReviewInv /\ [Next]_vars => ReviewInv'
  BY ReviewStep
<1>3. QED
  BY <1>1, <1>2, PTL DEF Spec

\* The entry, the requests, the answers and the passes stay in their types: no method of
\* the manager meets a revision, a time to live or a step that is not one.
THEOREM TypeCorrect == Spec => []TypeOK
<1>1. ReviewInv => TypeOK
  BY DEF ReviewInv, RaceInv
<1>2. QED
  BY <1>1, ReviewInvariant, PTL

\* There is one review request per digest, and one working order while no process died.
\* With one runner, whoever died, there is one order ever, of what was reviewed, and no
\* active entry is without its reservation but one that the next sweep ends (logical.py,
\* approval.py).
THEOREM EntryStaysSafe == Spec => []EntryIsSafe
<1>1. ReviewInv => EntryIsSafe
  <2> SUFFICES ASSUME ReviewInv
               PROVE  EntryIsSafe
    OBVIOUS
  <2>1. OneWorkingOrder
    BY DEF ReviewInv, RaceInv, Lineage, OneWorkingOrder
  <2>2. OneQuestion
    BY DEF ReviewInv, RaceInv, Questions, OneQuestion
  <2>3. SentIsReviewed
    <3> SUFFICES ASSUME overlaps = 0, NEW i \in DOMAIN sent
                 PROVE  /\ i = 1
                        /\ sent[i] = entry.digest
                        /\ sent[i] \in spent
                        /\ answer[sent[i]].decision = "APPROVED"
                        /\ request[sent[i]].note = "answered"
                        /\ entry.state \in {"EXECUTING", "FILLED", "ABANDONED"}
      BY DEF SentIsReviewed
    <3>1. sent \in Seq(Digest)
      BY DEF ReviewInv, RaceInv, TypeOK
    <3>2. sent # <<>>
      BY <3>1
    <3>3. /\ Len(sent) = 1 /\ sent[1] = entry.digest
          /\ entry.digest \in spent /\ Reviewed(entry.digest)
          /\ entry.state \in {"EXECUTING", "FILLED", "ABANDONED"}
      BY <3>2 DEF ReviewInv, AloneInv, SentFits
    <3>4. i = 1
      BY <3>1, <3>3
    <3>5. QED
      BY <3>3, <3>4 DEF Reviewed
  <2>4. UnreservedIsEnding
    <3> SUFFICES ASSUME overlaps = 0, ~rowLost, entry.state \in Active \ {"EXECUTING"},
                        ~entry.reserved
                 PROVE  SweepScript(entry) # <<>>
      BY DEF UnreservedIsEnding
    <3>1. Loose
      BY DEF Loose, Live, Active
    <3>2. QED
      BY <3>1 DEF ReviewInv, AloneInv, LooseFits
  <2>5. QED
    BY <2>1, <2>2, <2>3, <2>4 DEF EntryIsSafe
<1>2. QED
  BY <1>1, ReviewInvariant, PTL

\* While the worker is alone, no step of anybody revives an ended entry.
LEMMA EndedStays ==
  ASSUME RaceInv, AloneInv, [Next]_vars, entry.state \in Final
  PROVE  entry'.state = entry.state /\ entry'.reserved = entry.reserved
<1>1. CASE entry' = entry
  BY <1>1
<1>2. CASE Tick
  BY <1>2 DEF Tick, RaceInv, TypeOK, Entry
<1>3. ASSUME Claim(Worker)
      PROVE  entry' = entry
  <2>1. entry.state = "NONE"
    BY <1>3, AloneFacts DEF Claim, Fits, Has
  <2>2. QED
    BY <2>1 DEF Final
<1>4. ASSUME NEW event \in Event, Record(Worker, event)
      PROVE  entry' = entry
  <2>1. At(Worker, event)
    BY <1>4 DEF Record
  <2>2. event \in Todo(Worker) /\ Fits /\ Planned(Worker)
    BY <2>1, AloneFacts
  <2>3. ~Working(Worker) /\ entry.state \notin Live
    BY <2>2 DEF Fits, Final, Live
  <2>4. Todo(Worker) \cap Endings = {}
    BY <2>2, <2>3 DEF Fits, Has, Working, Endings, Live
  <2>5. event \notin {"release"} \cup Endings
    BY <2>2, <2>4 DEF Planned
  <2>6. event \notin {"file", "approved", "refused", "superseded", "submitted"}
    BY <2>2, <2>3 DEF Fits, Has, Live, Approved
  <2>7. QED
    BY <2>5, <2>6 DEF Event, Endings
<1>5. ASSUME NEW r \in Runner, Pass(r) \/ Crash(r)
      PROVE  entry' = entry
  <2>1. CASE Begin(r)
    BY <2>1 DEF Begin
  <2>2. CASE r = Worker
    BY <1>3, <1>4, <1>5, <2>2
    DEF Pass, Crash, Begin, ClaimRow, Sweep, Service, Refused, Reread, Limit, Ask, Mark,
        Require, Authorize, Consume, Withdraw, TakeBack, Close, Attempt, Place, PlaceRaises,
        Work, Outcome
  <2>3. QED
    BY <1>5, <2>1, <2>2, OnlyTheWorker
<1>6. QED
  BY <1>1, <1>2, <1>5
  DEF Next, vars, Reviewer, ReviewerClaims, ReviewerReplies, ReviewerCloses, reviewerUnchanged

\* With one runner, whoever crashed, an ended entry is never revived, and lets no
\* reservation go afterwards (logical.py, _apply and the endings of the manager).
THEOREM EndingsStayFinal == Spec => EndingsAreFinal
<1>1. ReviewInv /\ [Next]_vars =>
        [ overlaps = 0 /\ entry.state \in Final =>
            entry'.state = entry.state /\ entry'.reserved = entry.reserved ]_vars
  BY EndedStays DEF ReviewInv
<1>2. QED
  BY <1>1, ReviewInvariant, PTL DEF Spec, EndingsAreFinal

=============================================================================
