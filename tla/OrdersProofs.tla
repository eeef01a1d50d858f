---------------------------- MODULE OrdersProofs ----------------------------
(***************************************************************************)
(* Proofs about the components an order passes through, as MCOrders        *)
(* instantiates them: for every number of processes, every set of          *)
(* approvals, order size, set of legs and of books, number of failures and *)
(* behaviour of a rename; for every portfolio and its limits, and every    *)
(* envelope, grid and book a walk goes down.  A component runs on its own, *)
(* so each proof is about the steps of one instance; the last part of each *)
(* carries it over to the specification that is checked.                   *)
(***************************************************************************)
EXTENDS MCOrders, TotalsProofs, WellFoundedInduction

-----------------------------------------------------------------------------
(* The receipts of a saga (SendLedger).                                    *)

Calls == {"consumed", "submitted", "outcome", "recovery", "cleared"}
Receipts == [kind : Ledger!Kinds, approval : Approvals]

CallerState ==
  [pc : {"idle", "preparing", "prepared", "reads", "appends", "licensed", "sent"},
   approval : Approvals \cup {None}, call : Calls \cup {None}, version : Nat,
   expected : Nat]

\* Every receipt follows one it may follow, and they get further along.
Chained(j) ==
  /\ j \in Seq(Receipts)
  /\ \A i \in 1 .. Len(j) :
       /\ i = 1 <=> j[i].kind = "intent"
       /\ i > 1 => j[i - 1].kind \in Ledger!From[j[i].kind]
       /\ Ledger!Position[j[i].kind] >= i
  /\ \A i, k \in 1 .. Len(j) :
       i < k => Ledger!Position[j[i].kind] < Ledger!Position[j[k].kind]

\* What a caller may rely on although others append: what it saw of the receipts is
\* still there.
Backed(j, c) ==
  /\ c \in CallerState
  /\ c.version <= Len(j)
  /\ c.pc \notin {"idle", "preparing"} => j # <<>>
  /\ c.pc \in {"preparing", "prepared"} => c.approval \in Approvals
  /\ c.pc \in {"reads", "appends"} => c.call \in Calls
  /\ c.pc = "appends" => /\ c.expected \in 1 .. Len(j)
                         /\ j[c.expected].kind \in Ledger!From[c.call]
  /\ c.pc = "licensed" => \E i \in 1 .. Len(j) : j[i].kind = "consumed"

\* The callers that have consumed an approval and not yet sent.
Licensed(c) ==
  \/ c.pc \in {"reads", "appends"} /\ c.call = "consumed"
  \/ c.pc = "licensed"

Licensees == {p \in Processes : Licensed(caller[p])}

\* Every order sent, and every one that may still be, has an approval of its own.
Paid ==
  /\ spent \subseteq Approvals /\ IsFiniteSet(spent) /\ IsFiniteSet(Licensees)
  /\ order.sent \in Nat
  /\ order.sent + Cardinality(Licensees) <= Cardinality(spent)
  /\ order.sent > 0 => \E i \in 1 .. Len(journal) : journal[i].kind = "consumed"

\* The broker's side: only an order without a fill is called cancelled, and it is.
Reported ==
  /\ order \in [sent : Nat, status : {"none", "working", "filled", "cancelled"},
                filled : 0 .. OrderSize]
  /\ found \in Ledger!Verdicts \cup {None}
  /\ found = "CANCELLED" => order.filled = 0 /\ order.status = "cancelled"
  /\ failures \in 0 .. MaxFailures

LedgerInv ==
  /\ Chained(journal)
  /\ caller \in [Processes -> CallerState]
  /\ \A p \in Processes : Backed(journal, caller[p])
  /\ Paid
  /\ Reported

\* A receipt that follows the last one keeps them in order.
LEMMA ChainedAppend ==
  ASSUME NEW j, Chained(j), NEW r \in Receipts, NEW k, k = Append(j, r),
         \/ j = <<>> /\ r.kind = "intent"
         \/ j # <<>> /\ r.kind \in Calls /\ j[Len(j)].kind \in Ledger!From[r.kind]
  PROVE  Chained(k)
<1>1. /\ k \in Seq(Receipts) /\ Len(k) = Len(j) + 1 /\ Len(j) \in Nat /\ k[Len(k)] = r
      /\ \A i \in 1 .. Len(j) : k[i] = j[i] /\ j[i] \in Receipts
  BY DEF Chained
<1>2. CASE j = <<>> /\ r.kind = "intent"
  BY <1>1, <1>2 DEF Chained, Ledger!Position
<1>3. CASE j # <<>> /\ r.kind \in Calls /\ j[Len(j)].kind \in Ledger!From[r.kind]
  <2>1. Len(j) \in 1 .. Len(j) /\ Len(j) >= 1 /\ r.kind # "intent"
    BY <1>1, <1>3 DEF Calls, Chained
  <2>2. Ledger!Position[j[Len(j)].kind] < Ledger!Position[r.kind]
        /\ Ledger!Position[j[Len(j)].kind] \in Int /\ Ledger!Position[r.kind] \in Int
    BY <1>3 DEF Calls, Ledger!From, Ledger!Position
  <2>3. Ledger!Position[j[Len(j)].kind] >= Len(j)
    BY <2>1 DEF Chained
  <2>4. \A i \in 1 .. Len(j) : Ledger!Position[j[i].kind] \in Int
    BY <1>1 DEF Receipts, Ledger!Kinds, Ledger!Position
  <2>5. \A i \in 1 .. Len(j) : Ledger!Position[j[i].kind] < Ledger!Position[r.kind]
    <3>1. SUFFICES ASSUME NEW i \in 1 .. Len(j)
                   PROVE  Ledger!Position[j[i].kind] < Ledger!Position[r.kind]
      OBVIOUS
    <3>2. CASE i = Len(j)
      BY <2>2, <3>2
    <3>3. CASE i # Len(j)
      <4>1. Ledger!Position[j[i].kind] < Ledger!Position[j[Len(j)].kind]
        BY <1>1, <2>1, <3>3 DEF Chained
      <4>2. QED
        BY <2>2, <2>4, <4>1
    <3>4. QED
      BY <3>2, <3>3
  <2>6. ASSUME NEW i \in 1 .. Len(k)
        PROVE  /\ i = 1 <=> k[i].kind = "intent"
               /\ i > 1 => k[i - 1].kind \in Ledger!From[k[i].kind]
               /\ Ledger!Position[k[i].kind] >= i
    <3>1. CASE i = Len(k)
      BY <1>1, <1>3, <2>1, <2>2, <2>3, <3>1
    <3>2. CASE i # Len(k)
      <4>1. i \in 1 .. Len(j) /\ (i > 1 => i - 1 \in 1 .. Len(j))
        BY <1>1, <3>2
      <4>2. QED
        BY <1>1, <4>1 DEF Chained
    <3>3. QED
      BY <3>1, <3>2
  <2>7. ASSUME NEW i \in 1 .. Len(k), NEW n \in 1 .. Len(k), i < n
        PROVE  Ledger!Position[k[i].kind] < Ledger!Position[k[n].kind]
    <3>1. i \in 1 .. Len(j)
      BY <1>1, <2>7
    <3>2. CASE n = Len(k)
      BY <1>1, <2>5, <3>1, <3>2
    <3>3. CASE n # Len(k)
      <4>1. n \in 1 .. Len(j)
        BY <1>1, <3>3
      <4>2. QED
        BY <1>1, <2>7, <3>1, <4>1 DEF Chained
    <3>4. QED
      BY <3>2, <3>3
  <2>8. QED
    BY <1>1, <2>6, <2>7 DEF Chained
<1>4. QED
  BY <1>2, <1>3

\* What a caller relies on survives a receipt of somebody else.
LEMMA BackedLater ==
  ASSUME NEW j \in Seq(Receipts), NEW c, Backed(j, c), NEW r \in Receipts, NEW k,
         k = Append(j, r)
  PROVE  Backed(k, c)
<1>1. /\ k \in Seq(Receipts) /\ Len(k) = Len(j) + 1 /\ Len(j) \in Nat /\ k # <<>>
      /\ \A i \in 1 .. Len(j) : k[i] = j[i] /\ i \in 1 .. Len(k)
  OBVIOUS
<1>2. c.version \in Nat
  BY DEF Backed, CallerState
<1>3. QED
  BY <1>1, <1>2 DEF Backed

\* One caller moves, and the journal has at most grown by a receipt.
LEMMA CallerMoves ==
  ASSUME Chained(journal), caller \in [Processes -> CallerState],
         \A q \in Processes : Backed(journal, caller[q]),
         NEW p \in Processes, NEW c, caller' = [caller EXCEPT ![p] = c],
         journal' = journal \/ \E r \in Receipts : journal' = Append(journal, r),
         Backed(journal', c)
  PROVE  /\ caller' \in [Processes -> CallerState]
         /\ \A q \in Processes : Backed(journal', caller'[q])
         /\ caller'[p] = c
         /\ \A q \in Processes : q # p => caller'[q] = caller[q]
<1>1. c \in CallerState
  BY DEF Backed
<1>2. \A q \in Processes : Backed(journal', caller[q])
  <2>1. CASE journal' = journal
    BY <2>1
  <2>2. CASE \E r \in Receipts : journal' = Append(journal, r)
    BY <2>2, BackedLater DEF Chained
  <2>3. QED
    BY <2>1, <2>2
<1>3. QED
  BY <1>1, <1>2

\* The count of the approvals follows the steps of a licence: taken with an approval,
\* given up, or used.
LEMMA LicenceTaken ==
  ASSUME Paid, NEW p, NEW q \in Approvals \ spent, p \notin Licensees,
         Licensees' = Licensees \cup {p}, spent' = spent \cup {q},
         order' = order, journal' = journal
  PROVE  Paid'
<1>1. /\ IsFiniteSet(spent') /\ Cardinality(spent') = Cardinality(spent) + 1
      /\ IsFiniteSet(Licensees') /\ Cardinality(Licensees') = Cardinality(Licensees) + 1
  BY FS_AddElement DEF Paid
<1>2. Cardinality(spent) \in Nat /\ Cardinality(Licensees) \in Nat
  BY FS_CardinalityType DEF Paid
<1>3. QED
  BY <1>1, <1>2 DEF Paid

\* A step that gives out no licence and sends nothing.
LEMMA LicenceKept ==
  ASSUME Paid, Licensees' \subseteq Licensees, spent' = spent, order'.sent = order.sent,
         \A i \in 1 .. Len(journal) : i \in 1 .. Len(journal') /\ journal'[i] = journal[i]
  PROVE  Paid'
<1>1. /\ IsFiniteSet(Licensees') /\ Cardinality(Licensees') <= Cardinality(Licensees)
      /\ Cardinality(Licensees') \in Nat
  BY FS_Subset, FS_CardinalityType DEF Paid
<1>2. Cardinality(spent) \in Nat /\ Cardinality(Licensees) \in Nat
  BY FS_CardinalityType DEF Paid
<1>3. order.sent + Cardinality(Licensees') <= Cardinality(spent)
  BY <1>1, <1>2 DEF Paid
<1>4. order.sent > 0 => \E i \in 1 .. Len(journal') : journal'[i].kind = "consumed"
  BY DEF Paid
<1>5. QED
  BY <1>1, <1>3, <1>4 DEF Paid

\* A licence is used up by the send it was given for.
LEMMA LicenceUsed ==
  ASSUME Paid, NEW p \in Licensees, Licensees' = Licensees \ {p}, spent' = spent,
         order'.sent = order.sent + 1, journal' = journal,
         \E i \in 1 .. Len(journal) : journal[i].kind = "consumed"
  PROVE  Paid'
<1>1. /\ IsFiniteSet(Licensees') /\ Cardinality(Licensees') = Cardinality(Licensees) - 1
      /\ Cardinality(Licensees') \in Nat
  BY FS_RemoveElement, FS_CardinalityType DEF Paid
<1>2. Cardinality(spent) \in Nat /\ Cardinality(Licensees) \in Nat
  BY FS_CardinalityType DEF Paid
<1>3. QED
  BY <1>1, <1>2 DEF Paid

\* The saga starts empty.
LEMMA LedgerInit ==
  ASSUME Ledger!LedgerAssumption, Ledger!Init
  PROVE  LedgerInv
<1>1. Chained(journal)
  BY DEF Ledger!Init, Chained
<1>2. Ledger!Resting \in CallerState /\ Backed(journal, Ledger!Resting)
  BY DEF Ledger!Init, Ledger!Resting, CallerState, Backed
<1>3. Licensees = {}
  BY DEF Ledger!Init, Ledger!Resting, Licensees, Licensed
<1>4. Paid
  <2>1. Cardinality({}) = 0 /\ IsFiniteSet({})
    BY FS_EmptySet
  <2>2. QED
    BY <1>3, <2>1 DEF Ledger!Init, Paid
<1>5. Reported
  <2>1. OrderSize \in Nat /\ MaxFailures \in Nat /\ None # "CANCELLED"
    BY DEF Ledger!LedgerAssumption, Ledger!Verdicts
  <2>2. QED
    BY <2>1 DEF Ledger!Init, Reported
<1>6. QED
  BY <1>1, <1>2, <1>4, <1>5 DEF LedgerInv, Ledger!Init

\* Where the journal stands: its last receipt, and what every saga that was sent holds.
LEMMA JournalFacts ==
  ASSUME Ledger!LedgerAssumption, Chained(journal)
  PROVE  /\ \A k : Ledger!Has(k) <=> \E i \in 1 .. Len(journal) : journal[i].kind = k
         /\ Len(journal) \in Nat /\ (journal # <<>> => Len(journal) \in 1 .. Len(journal))
         /\ journal # <<>> => Ledger!Last(journal) = journal[Len(journal)].kind
         /\ Ledger!Last(journal) \in Ledger!Kinds => journal # <<>>
         /\ journal # <<>> => Ledger!Has("intent") /\ journal[1] \in Receipts
         /\ Ledger!Last(journal) \in {"consumed", "submitted", "outcome"}
              => Ledger!Has("consumed")
<1>1. /\ Len(journal) \in Nat /\ DOMAIN journal = 1 .. Len(journal)
      /\ journal # <<>> => Len(journal) \in 1 .. Len(journal) /\ 1 \in 1 .. Len(journal)
      /\ \A i \in 1 .. Len(journal) : journal[i] \in Receipts
  BY DEF Chained
<1>2. \A k : Ledger!Has(k) <=> \E i \in 1 .. Len(journal) : journal[i].kind = k
  BY <1>1 DEF Ledger!Has
<1>3. journal # <<>> => Ledger!Last(journal) = journal[Len(journal)].kind
  BY DEF Ledger!Last
<1>4. Ledger!Last(journal) \in Ledger!Kinds => journal # <<>>
  BY DEF Ledger!Last, Ledger!LedgerAssumption
<1>5. journal # <<>> => Ledger!Has("intent")
  BY <1>1, <1>2 DEF Chained
<1>6. ASSUME NEW i \in 1 .. Len(journal), journal[i].kind = "submitted"
      PROVE  Ledger!Has("consumed")
  <2>1. i > 1 /\ i - 1 \in 1 .. Len(journal)
    BY <1>1, <1>6 DEF Chained
  <2>2. journal[i - 1].kind = "consumed"
    BY <1>6, <2>1 DEF Chained, Ledger!From
  <2>3. QED
    BY <1>2, <2>1, <2>2
<1>7. ASSUME NEW i \in 1 .. Len(journal), journal[i].kind = "outcome"
      PROVE  Ledger!Has("consumed")
  <2>1. i > 1 /\ i - 1 \in 1 .. Len(journal)
    BY <1>1, <1>7 DEF Chained
  <2>2. journal[i - 1].kind = "submitted"
    BY <1>7, <2>1 DEF Chained, Ledger!From
  <2>3. QED
    BY <1>6, <2>1, <2>2
<1>8. Ledger!Last(journal) \in {"consumed", "submitted", "outcome"} => Ledger!Has("consumed")
  BY <1>1, <1>2, <1>3, <1>4, <1>6, <1>7 DEF Ledger!Kinds
<1>9. QED
  BY <1>1, <1>2, <1>3, <1>4, <1>5, <1>8

\* A caller begins, and publishes the intent unless another has.
LEMMA PrepareSteps ==
  ASSUME Ledger!LedgerAssumption, LedgerInv, NEW p \in Processes,
         \/ \E q \in Approvals : Ledger!StartPrepare(p, q)
         \/ Ledger!Prepare(p)
  PROVE  LedgerInv'
<1>0. /\ Chained(journal) /\ caller \in [Processes -> CallerState] /\ Paid /\ Reported
      /\ \A o \in Processes : Backed(journal, caller[o])
  BY DEF LedgerInv
<1>1. ASSUME NEW q \in Approvals, Ledger!StartPrepare(p, q) PROVE LedgerInv'
  <2> DEFINE c == [caller[p] EXCEPT !.approval = q,
                                    !.pc = IF journal = <<>> THEN "preparing" ELSE "prepared",
                                    !.version = Len(journal)]
  <2>1. /\ caller[p].pc = "idle" /\ caller' = [caller EXCEPT ![p] = c]
        /\ journal' = journal /\ spent' = spent /\ order' = order /\ found' = found
        /\ failures' = failures
    BY <1>1, <1>0 DEF Ledger!StartPrepare
  <2>2. c \in CallerState /\ c.version = Len(journal) /\ c.approval = q
        /\ c.pc = IF journal = <<>> THEN "preparing" ELSE "prepared"
    BY <1>0, JournalFacts DEF CallerState
  <2>3. Backed(journal, c)
    BY <2>2, JournalFacts, <1>0 DEF Backed
  <2>4. /\ caller' \in [Processes -> CallerState]
        /\ \A o \in Processes : Backed(journal', caller'[o])
        /\ caller'[p] = c /\ \A o \in Processes : o # p => caller'[o] = caller[o]
    BY <1>0, <2>1, <2>3, CallerMoves
  <2>5. ~Licensed(c)
    BY <2>2 DEF Licensed
  <2>6. Licensees' \subseteq Licensees
    BY <2>4, <2>5 DEF Licensees
  <2>7. Paid'
    BY <1>0, <2>1, <2>6, LicenceKept
  <2>8. QED
    BY <1>0, <2>1, <2>4, <2>7 DEF LedgerInv, Reported
<1>2. CASE Ledger!Prepare(p)
  <2> DEFINE c == [caller[p] EXCEPT !.pc = "prepared", !.version = 1]
             r == [kind |-> "intent", approval |-> caller[p].approval]
  <2>1. /\ caller[p].pc = "preparing" /\ caller' = [caller EXCEPT ![p] = c]
        /\ spent' = spent /\ order' = order /\ found' = found /\ failures' = failures
    BY <1>2, <1>0 DEF Ledger!Prepare
  <2>2. r \in Receipts
    BY <1>0, <2>1 DEF Backed, Receipts, Ledger!Kinds
  <2>3. \/ journal' = journal /\ journal # <<>>
        \/ journal' = Append(journal, r) /\ journal = <<>>
    BY <1>0, <1>2, JournalFacts DEF Ledger!Prepare, Ledger!Appends
  <2>4. Chained(journal') /\ journal' # <<>> /\ Len(journal') >= 1
    <3>1. CASE journal' = journal /\ journal # <<>>
      BY <1>0, <3>1, JournalFacts
    <3>2. CASE journal' = Append(journal, r) /\ journal = <<>>
      <4>1. Chained(journal')
        BY <1>0, <2>2, <3>2, ChainedAppend
      <4>2. QED
        BY <3>2, <4>1
    <3>3. QED
      BY <2>3, <3>1, <3>2
  <2>5. c \in CallerState /\ c.version = 1 /\ c.approval = caller[p].approval
        /\ c.pc = "prepared"
    BY <1>0 DEF CallerState
  <2>6. Backed(journal', c)
    BY <1>0, <2>1, <2>4, <2>5 DEF Backed
  <2>7. /\ caller' \in [Processes -> CallerState]
        /\ \A o \in Processes : Backed(journal', caller'[o])
        /\ caller'[p] = c /\ \A o \in Processes : o # p => caller'[o] = caller[o]
    BY <1>0, <2>1, <2>2, <2>3, <2>6, CallerMoves
  <2>8. Licensees' \subseteq Licensees
    <3>1. ~Licensed(c)
      BY <2>5 DEF Licensed
    <3>2. QED
      BY <2>7, <3>1 DEF Licensees
  <2>9. Paid'
    BY <1>0, <2>1, <2>3, <2>8, LicenceKept DEF Chained
  <2>10. QED
    BY <1>0, <2>1, <2>4, <2>7, <2>9 DEF LedgerInv, Reported
<1>3. QED
  BY <1>1, <1>2

\* A consumed approval licenses one caller; an approval spent before licenses none.
LEMMA ConsumeStep ==
  ASSUME Ledger!LedgerAssumption, LedgerInv, NEW p \in Processes, Ledger!Consume(p)
  PROVE  LedgerInv'
<1> DEFINE c == [caller[p] EXCEPT !.pc = "reads", !.call = "consumed"]
<1>0. /\ Chained(journal) /\ caller \in [Processes -> CallerState] /\ Paid /\ Reported
      /\ \A o \in Processes : Backed(journal, caller[o])
  BY DEF LedgerInv
<1>1. /\ caller[p].pc = "prepared" /\ caller' = [caller EXCEPT ![p] = c]
      /\ journal' = journal /\ order' = order /\ found' = found /\ failures' = failures
      /\ spent' = spent \cup {caller[p].approval} /\ caller[p].approval \notin spent
  BY <1>0 DEF Ledger!Consume
<1>2. /\ c \in CallerState /\ c.pc = "reads" /\ c.call = "consumed"
      /\ c.version = caller[p].version
  BY <1>0 DEF CallerState, Calls
<1>3. Backed(journal, c)
  BY <1>0, <1>1, <1>2 DEF Backed, Calls
<1>4. /\ caller' \in [Processes -> CallerState]
      /\ \A o \in Processes : Backed(journal', caller'[o])
      /\ caller'[p] = c /\ \A o \in Processes : o # p => caller'[o] = caller[o]
  BY <1>0, <1>1, <1>3, CallerMoves
<1>5. Licensees' = Licensees \cup {p} /\ p \notin Licensees
  <2>1. Licensed(c) /\ ~Licensed(caller[p])
    BY <1>1, <1>2 DEF Licensed
  <2>2. QED
    BY <1>4, <2>1 DEF Licensees
<1>6. caller[p].approval \in Approvals
  BY <1>0, <1>1 DEF Backed
<1>7. Paid'
  BY <1>0, <1>1, <1>5, <1>6, LicenceTaken
<1>8. QED
  BY <1>0, <1>1, <1>4, <1>7 DEF LedgerInv, Reported

\* A call of the outbox reads the saga: it is done already, refused, or goes on to
\* append after the receipt it has read.
LEMMA ReadStep ==
  ASSUME Ledger!LedgerAssumption, LedgerInv, NEW p \in Processes, Ledger!ReadSaga(p)
  PROVE  LedgerInv'
<1> DEFINE call == caller[p].call
           done == [caller[p] EXCEPT !.pc = Ledger!After(call), !.version = Len(journal)]
           more == [caller[p] EXCEPT !.pc = "appends", !.expected = Len(journal)]
<1>0. /\ Chained(journal) /\ caller \in [Processes -> CallerState] /\ Paid /\ Reported
      /\ \A o \in Processes : Backed(journal, caller[o])
  BY DEF LedgerInv
<1>1. /\ caller[p].pc = "reads" /\ journal' = journal /\ order' = order
      /\ found' = found /\ failures' = failures /\ spent' = spent
  BY DEF Ledger!ReadSaga
<1>2. call \in Calls /\ journal # <<>> /\ caller[p] \in CallerState
      /\ caller[p].version <= Len(journal)
  BY <1>0, <1>1 DEF Backed
<1>3. CASE Ledger!Last(journal) \in Ledger!Done[call] /\ caller' = [caller EXCEPT ![p] = done]
  <2>1. Ledger!After(call) \in {"licensed", "sent", "idle"}
        /\ (Ledger!After(call) = "licensed" <=> call = "consumed")
    BY <1>2 DEF Calls, Ledger!After
  <2>2. /\ done \in CallerState /\ done.pc = Ledger!After(call) /\ done.call = call
        /\ done.version = Len(journal)
    BY <1>2, <2>1, JournalFacts, <1>0 DEF CallerState
  <2>3. call = "consumed" => \E i \in 1 .. Len(journal) : journal[i].kind = "consumed"
    BY <1>0, <1>3, JournalFacts DEF Ledger!Done
  <2>4. Backed(journal, done)
    BY <1>2, <2>1, <2>2, <2>3, JournalFacts, <1>0 DEF Backed
  <2>5. /\ caller' \in [Processes -> CallerState]
        /\ \A o \in Processes : Backed(journal', caller'[o])
        /\ caller'[p] = done /\ \A o \in Processes : o # p => caller'[o] = caller[o]
    BY <1>0, <1>1, <1>3, <2>4, CallerMoves
  <2>6. Licensees' \subseteq Licensees
    <3>1. Licensed(done) => Licensed(caller[p])
      BY <1>1, <2>1, <2>2 DEF Licensed
    <3>2. QED
      BY <2>5, <3>1 DEF Licensees
  <2>7. Paid'
    BY <1>0, <1>1, <2>6, LicenceKept
  <2>8. QED
    BY <1>0, <1>1, <2>5, <2>7 DEF LedgerInv, Reported
<1>4. CASE Ledger!MayRecord(p, call) /\ caller' = [caller EXCEPT ![p] = more]
  <2>1. /\ more \in CallerState /\ more.pc = "appends" /\ more.call = call
        /\ more.version = caller[p].version /\ more.expected = Len(journal)
    BY <1>2, JournalFacts, <1>0 DEF CallerState
  <2>2. journal[Len(journal)].kind \in Ledger!From[call]
    BY <1>0, <1>2, <1>4, JournalFacts DEF Ledger!MayRecord
  <2>3. Backed(journal, more)
    BY <1>0, <1>2, <2>1, <2>2, JournalFacts DEF Backed
  <2>4. /\ caller' \in [Processes -> CallerState]
        /\ \A o \in Processes : Backed(journal', caller'[o])
        /\ caller'[p] = more /\ \A o \in Processes : o # p => caller'[o] = caller[o]
    BY <1>0, <1>1, <1>4, <2>3, CallerMoves
  <2>5. Licensees' \subseteq Licensees
    <3>1. Licensed(more) => Licensed(caller[p])
      BY <1>1, <2>1 DEF Licensed
    <3>2. QED
      BY <2>4, <3>1 DEF Licensees
  <2>6. Paid'
    BY <1>0, <1>1, <2>5, LicenceKept
  <2>7. QED
    BY <1>0, <1>1, <2>4, <2>6 DEF LedgerInv, Reported
<1>5. QED
  BY <1>0, <1>3, <1>4 DEF Ledger!ReadSaga

\* The compare-and-swap: the receipt goes where it was read to belong, or is there.
LEMMA AppendStep ==
  ASSUME Ledger!LedgerAssumption, LedgerInv, NEW p \in Processes, Ledger!AppendReceipt(p)
  PROVE  LedgerInv'
<1> DEFINE call == caller[p].call
           r == [kind |-> call, approval |-> journal[1].approval]
           c == [caller[p] EXCEPT !.pc = Ledger!After(call), !.version = Ledger!Version(call)]
<1>0. /\ Chained(journal) /\ caller \in [Processes -> CallerState] /\ Paid /\ Reported
      /\ \A o \in Processes : Backed(journal, caller[o])
  BY DEF LedgerInv
<1>1. /\ caller[p].pc = "appends" /\ caller' = [caller EXCEPT ![p] = c]
      /\ order' = order /\ found' = found /\ failures' = failures /\ spent' = spent
  BY <1>0 DEF Ledger!AppendReceipt
<1>2. /\ call \in Calls /\ journal # <<>> /\ caller[p] \in CallerState
      /\ caller[p].expected \in 1 .. Len(journal)
      /\ journal[caller[p].expected].kind \in Ledger!From[call]
  BY <1>0, <1>1 DEF Backed
<1>3. r \in Receipts
  BY <1>0, <1>2, JournalFacts DEF Receipts, Calls, Ledger!Kinds
<1>4. \/ journal' = journal /\ Ledger!Has(call)
      \/ /\ ~Ledger!Has(call) /\ journal' = Append(journal, r)
         /\ journal[Len(journal)].kind \in Ledger!From[call]
  <2>1. caller[p].expected # None
    BY <1>2 DEF CallerState, Ledger!LedgerAssumption
  <2>2. CASE Ledger!Has(call)
    BY <2>2 DEF Ledger!AppendReceipt, Ledger!Appends
  <2>3. CASE ~Ledger!Has(call)
    <3>1. journal' = Append(journal, r)
      BY <2>3 DEF Ledger!AppendReceipt, Ledger!Appends
    <3>2. caller[p].expected = None \/ Len(journal) = caller[p].expected
      BY <2>3 DEF Ledger!AppendReceipt, Ledger!Appends
    <3>3. QED
      BY <1>2, <2>1, <2>3, <3>1, <3>2
  <2>4. QED
    BY <2>2, <2>3
<1>5. Chained(journal') /\ Len(journal') = Ledger!Version(call) /\ journal' # <<>>
  <2>1. CASE journal' = journal /\ Ledger!Has(call)
    BY <1>0, <1>2, <2>1 DEF Ledger!Version
  <2>2. CASE /\ ~Ledger!Has(call) /\ journal' = Append(journal, r)
             /\ journal[Len(journal)].kind \in Ledger!From[call]
    <3>1. Chained(journal')
      BY <1>0, <1>2, <1>3, <2>2, ChainedAppend
    <3>2. Len(journal') = Len(journal) + 1 /\ journal' # <<>>
      BY <1>0, <1>3, <2>2 DEF Chained
    <3>3. QED
      BY <2>2, <3>1, <3>2 DEF Ledger!Version
  <2>3. QED
    BY <1>4, <2>1, <2>2
<1>6. Ledger!After(call) \in {"licensed", "sent", "idle"}
      /\ (Ledger!After(call) = "licensed" <=> call = "consumed")
  BY <1>2 DEF Calls, Ledger!After
<1>7. /\ c \in CallerState /\ c.pc = Ledger!After(call) /\ c.call = call
      /\ c.version = Len(journal')
  <2>1. Ledger!Version(call) = Len(journal') /\ Len(journal') \in Nat
    BY <1>5 DEF Chained
  <2>2. QED
    BY <1>2, <1>6, <2>1 DEF CallerState
<1>8. \E i \in 1 .. Len(journal') : journal'[i].kind = call
  <2>1. CASE journal' = journal /\ Ledger!Has(call)
    BY <1>0, <2>1, JournalFacts
  <2>2. CASE journal' = Append(journal, r)
    <3>1. Len(journal') \in 1 .. Len(journal') /\ journal'[Len(journal')] = r
      BY <1>0, <1>3, <2>2 DEF Chained
    <3>2. QED
      BY <3>1
  <2>3. QED
    BY <1>4, <2>1, <2>2
<1>9. Backed(journal', c)
  <2>1. Len(journal') \in Nat
    BY <1>5 DEF Chained
  <2>2. QED
    BY <1>2, <1>5, <1>6, <1>7, <1>8, <2>1 DEF Backed
<1>10. /\ caller' \in [Processes -> CallerState]
       /\ \A o \in Processes : Backed(journal', caller'[o])
       /\ caller'[p] = c /\ \A o \in Processes : o # p => caller'[o] = caller[o]
  <2>1. journal' = journal \/ \E x \in Receipts : journal' = Append(journal, x)
    BY <1>3, <1>4
  <2>2. QED
    BY <1>0, <1>1, <1>9, <2>1, CallerMoves
<1>11. Licensees' \subseteq Licensees
  <2>1. Licensed(c) => Licensed(caller[p])
    BY <1>1, <1>6, <1>7 DEF Licensed
  <2>2. QED
    BY <1>10, <2>1 DEF Licensees
<1>12. \A i \in 1 .. Len(journal) : i \in 1 .. Len(journal') /\ journal'[i] = journal[i]
  BY <1>0, <1>3, <1>4 DEF Chained
<1>13. Paid'
  BY <1>0, <1>1, <1>11, <1>12, LicenceKept
<1>14. QED
  BY <1>0, <1>1, <1>5, <1>10, <1>13 DEF LedgerInv, Reported

\* An order goes out: the licence is used.
LEMMA SendStep ==
  ASSUME Ledger!LedgerAssumption, LedgerInv, NEW p \in Processes, Ledger!Send(p)
  PROVE  LedgerInv'
<1> DEFINE c == [caller[p] EXCEPT !.pc = "reads", !.call = "submitted"]
           o == [order EXCEPT !.sent = @ + 1,
                              !.status = IF @ = "none" THEN "working" ELSE @]
           was == [sent : Nat, status : {"none", "working", "filled", "cancelled"},
                   filled : 0 .. OrderSize]
<1>0. /\ Chained(journal) /\ caller \in [Processes -> CallerState] /\ Paid /\ Reported
      /\ \A q \in Processes : Backed(journal, caller[q])
  BY DEF LedgerInv
<1>1. /\ caller[p].pc = "licensed" /\ caller' = [caller EXCEPT ![p] = c]
      /\ journal' = journal /\ order' = o /\ found' = found /\ failures' = failures
      /\ spent' = spent
  BY <1>0 DEF Ledger!Send
<1>2. /\ c \in CallerState /\ c.pc = "reads" /\ c.call = "submitted"
      /\ c.version = caller[p].version
  BY <1>0 DEF CallerState, Calls
<1>3. Backed(journal, c)
  BY <1>0, <1>1, <1>2 DEF Backed, Calls
<1>4. /\ caller' \in [Processes -> CallerState]
      /\ \A q \in Processes : Backed(journal', caller'[q])
      /\ caller'[p] = c /\ \A q \in Processes : q # p => caller'[q] = caller[q]
  BY <1>0, <1>1, <1>3, CallerMoves
<1>5. Licensees' = Licensees \ {p} /\ p \in Licensees
  <2>1. ~Licensed(c) /\ Licensed(caller[p])
    BY <1>1, <1>2 DEF Licensed
  <2>2. QED
    BY <1>4, <2>1 DEF Licensees
<1>6. /\ o \in was /\ o.sent = order.sent + 1 /\ o.filled = order.filled
      /\ o.status = IF order.status = "none" THEN "working" ELSE order.status
  <2>1. order \in was
    BY <1>0 DEF Reported
  <2>2. o = [order EXCEPT !.sent = order.sent + 1,
                          !.status = IF order.status = "none" THEN "working"
                                     ELSE order.status]
    BY <2>1
  <2> DEFINE next == IF order.status = "none" THEN "working" ELSE order.status
  <2>3. next \in {"none", "working", "filled", "cancelled"} /\ order.sent + 1 \in Nat
    BY <2>1
  <2> HIDE DEF next
  <2>4. [order EXCEPT !.sent = order.sent + 1, !.status = next] \in was
    BY <2>1, <2>3
  <2>5. QED
    BY <2>1, <2>2, <2>4 DEF next
<1>7. Paid'
  <2>1. \E i \in 1 .. Len(journal) : journal[i].kind = "consumed"
    BY <1>0, <1>1 DEF Backed
  <2>2. QED
    BY <1>0, <1>1, <1>5, <1>6, <2>1, LicenceUsed
<1>8. Reported'
  BY <1>0, <1>1, <1>6 DEF Reported
<1>9. QED
  BY <1>0, <1>1, <1>4, <1>7, <1>8 DEF LedgerInv

\* The steps that only end a call, or begin the next one of a caller.
LEMMA CallerSteps ==
  ASSUME Ledger!LedgerAssumption, LedgerInv, NEW p \in Processes,
         \/ Ledger!Finish(p)
         \/ Ledger!GiveUp(p)
         \/ Ledger!Conflict(p)
         \/ Ledger!Clear(p)
  PROVE  LedgerInv'
<1>0. /\ Chained(journal) /\ caller \in [Processes -> CallerState] /\ Paid /\ Reported
      /\ \A q \in Processes : Backed(journal, caller[q])
  BY DEF LedgerInv
<1>1. journal' = journal /\ order' = order /\ found' = found /\ spent' = spent
  BY DEF Ledger!Finish, Ledger!GiveUp, Ledger!Conflict, Ledger!Clear
<1>2. failures' \in 0 .. MaxFailures
  <2>1. failures \in 0 .. MaxFailures /\ MaxFailures \in Nat
    BY <1>0 DEF Reported, Ledger!LedgerAssumption
  <2>2. QED
    BY <2>1 DEF Ledger!Finish, Ledger!GiveUp, Ledger!Conflict, Ledger!Clear
<1>3. ASSUME NEW c, caller' = [caller EXCEPT ![p] = c], Backed(journal, c),
             Licensed(c) => Licensed(caller[p])
      PROVE  LedgerInv'
  <2>1. /\ caller' \in [Processes -> CallerState]
        /\ \A q \in Processes : Backed(journal', caller'[q])
        /\ caller'[p] = c /\ \A q \in Processes : q # p => caller'[q] = caller[q]
    BY <1>0, <1>1, <1>3, CallerMoves
  <2>2. Licensees' \subseteq Licensees
    BY <1>3, <2>1 DEF Licensees
  <2>3. Paid'
    BY <1>0, <1>1, <2>2, LicenceKept
  <2>4. QED
    BY <1>0, <1>1, <1>2, <2>1, <2>3 DEF LedgerInv, Reported
<1>4. /\ Backed(journal, Ledger!Resting) /\ ~Licensed(Ledger!Resting)
  BY <1>0 DEF Backed, Ledger!Resting, CallerState, Licensed, Chained
<1>5. CASE Ledger!Finish(p)
  <2> DEFINE c == [caller[p] EXCEPT !.pc = "reads", !.call = "outcome"]
  <2>1. caller[p].pc = "sent" /\ caller' = [caller EXCEPT ![p] = c]
    BY <1>0, <1>5 DEF Ledger!Finish
  <2>2. /\ c \in CallerState /\ c.pc = "reads" /\ c.call = "outcome"
        /\ c.version = caller[p].version
    BY <1>0 DEF CallerState, Calls
  <2>3. Backed(journal, c) /\ ~Licensed(c)
    BY <1>0, <2>1, <2>2 DEF Backed, Calls, Licensed
  <2>4. QED
    BY <1>3, <2>1, <2>3
<1>6. CASE Ledger!GiveUp(p)
  <2> DEFINE c == [caller[p] EXCEPT !.pc = "reads", !.call = "recovery"]
  <2>1. CASE caller' = [caller EXCEPT ![p] = Ledger!Resting]
    BY <1>3, <1>4, <2>1
  <2>2. CASE journal # <<>> /\ caller' = [caller EXCEPT ![p] = c]
    <3>1. /\ c \in CallerState /\ c.pc = "reads" /\ c.call = "recovery"
          /\ c.version = caller[p].version
      BY <1>0 DEF CallerState, Calls
    <3>2. Backed(journal, c) /\ ~Licensed(c)
      BY <1>0, <2>2, <3>1 DEF Backed, Calls, Licensed
    <3>3. QED
      BY <1>3, <2>2, <3>2
  <2>3. QED
    BY <1>0, <1>6, <2>1, <2>2 DEF Ledger!GiveUp
<1>7. CASE Ledger!Conflict(p)
  BY <1>3, <1>4, <1>7 DEF Ledger!Conflict
<1>8. CASE Ledger!Clear(p)
  <2> DEFINE c == [caller[p] EXCEPT !.pc = "reads", !.call = "cleared",
                                    !.version = Len(journal)]
  <2>1. caller' = [caller EXCEPT ![p] = c] /\ journal # <<>> /\ Len(journal) \in Nat
    BY <1>0, <1>8, JournalFacts DEF Ledger!Clear, Ledger!Kinds
  <2>2. /\ c \in CallerState /\ c.pc = "reads" /\ c.call = "cleared"
        /\ c.version = Len(journal)
    BY <1>0, <2>1 DEF CallerState, Calls
  <2>3. Backed(journal, c) /\ ~Licensed(c)
    BY <1>0, <2>1, <2>2 DEF Backed, Calls, Licensed
  <2>4. QED
    BY <1>3, <2>1, <2>3
<1>9. QED
  BY <1>5, <1>6, <1>7, <1>8

\* The broker fills or cancels the order; a reconciliation looks at the fills first.
LEMMA BrokerSteps ==
  ASSUME Ledger!LedgerAssumption, LedgerInv, Ledger!Progress \/ Ledger!Reconcile
  PROVE  LedgerInv'
<1>0. /\ Chained(journal) /\ caller \in [Processes -> CallerState] /\ Paid /\ Reported
      /\ \A q \in Processes : Backed(journal, caller[q])
  BY DEF LedgerInv
<1>1. journal' = journal /\ caller' = caller /\ spent' = spent /\ failures' = failures
  BY DEF Ledger!Progress, Ledger!Reconcile
<1>2. Licensees' = Licensees
  BY <1>1 DEF Licensees
<1>3. OrderSize \in Nat \ {0}
  BY DEF Ledger!LedgerAssumption
<1>4. order'.sent = order.sent /\ Reported'
  <2>1. CASE Ledger!Progress
    <3>1. order.status = "working" /\ found' = found
      BY <2>1 DEF Ledger!Progress
    <3>2. CASE /\ order.filled < OrderSize
               /\ order' = [order EXCEPT !.filled = @ + 1,
                              !.status = IF order.filled + 1 = OrderSize THEN "filled" ELSE @]
      <4> DEFINE next == IF order.filled + 1 = OrderSize THEN "filled" ELSE order.status
      <4>1. /\ next \in {"none", "working", "filled", "cancelled"}
            /\ order.filled + 1 \in 0 .. OrderSize
            /\ order' = [order EXCEPT !.filled = order.filled + 1, !.status = next]
        BY <1>0, <1>3, <3>2 DEF Reported
      <4> HIDE DEF next
      <4>2. /\ order' \in [sent : Nat, status : {"none", "working", "filled", "cancelled"},
                           filled : 0 .. OrderSize]
            /\ order'.sent = order.sent
        BY <1>0, <4>1 DEF Reported
      <4>3. QED
        BY <1>0, <1>1, <3>1, <4>2 DEF Reported
    <3>3. CASE order' = [order EXCEPT !.status = "cancelled"]
      <4>1. /\ order' \in [sent : Nat, status : {"none", "working", "filled", "cancelled"},
                           filled : 0 .. OrderSize]
            /\ order'.sent = order.sent
        BY <1>0, <1>3, <3>3 DEF Reported
      <4>2. QED
        BY <1>0, <1>1, <3>1, <4>1 DEF Reported
    <3>4. QED
      BY <2>1, <3>2, <3>3 DEF Ledger!Progress
  <2>2. CASE Ledger!Reconcile
    <3>1. order' = order
      BY <2>2 DEF Ledger!Reconcile
    <3>2. found' \in Ledger!Verdicts
          /\ (found' = "CANCELLED" => order.filled = 0 /\ order.status = "cancelled")
      BY <1>0, <2>2 DEF Ledger!Reconcile, Ledger!State, Ledger!Verdicts, Reported
    <3>3. QED
      BY <1>0, <1>1, <3>1, <3>2 DEF Reported
  <2>3. QED
    BY <2>1, <2>2
<1>5. Paid'
  BY <1>0, <1>1, <1>2, <1>4, LicenceKept
<1>6. QED
  BY <1>0, <1>1, <1>4, <1>5 DEF LedgerInv

\* Every step of the ledger.
LEMMA LedgerStep ==
  ASSUME Ledger!LedgerAssumption, LedgerInv, [Ledger!Next]_Ledger!vars
  PROVE  LedgerInv'
<1>1. CASE UNCHANGED Ledger!vars
  BY <1>1 DEF Ledger!vars, LedgerInv, Paid, Reported, Licensees
<1>2. CASE Ledger!Next
  BY <1>2, PrepareSteps, ConsumeStep, ReadStep, AppendStep, SendStep, CallerSteps,
     BrokerSteps DEF Ledger!Next
<1>3. QED
  BY <1>1, <1>2

\* What the invariant says of the properties.
LEMMA LedgerIsOrdered ==
  ASSUME Ledger!LedgerAssumption, LedgerInv
  PROVE  Ledger!SendIsProven
<1>0. /\ Chained(journal) /\ Paid /\ Reported /\ DOMAIN journal = 1 .. Len(journal)
      /\ Len(journal) \in Nat
  BY DEF LedgerInv, Chained
<1>1. Ledger!ReceiptsAreInOrder
  <2>1. SUFFICES ASSUME NEW i \in 1 .. Len(journal), NEW j \in 1 .. Len(journal)
                 PROVE  /\ i < j => Ledger!Position[journal[i].kind]
                                      < Ledger!Position[journal[j].kind]
                        /\ j = i + 1 => \/ Ledger!Position[journal[j].kind]
                                             = Ledger!Position[journal[i].kind] + 1
                                        \/ journal[j].kind = "recovery"
    BY <1>0 DEF Ledger!ReceiptsAreInOrder
  <2>2. i < j => Ledger!Position[journal[i].kind] < Ledger!Position[journal[j].kind]
    BY <1>0 DEF Chained
  <2>3. ASSUME j = i + 1, journal[j].kind # "recovery"
        PROVE  Ledger!Position[journal[j].kind] = Ledger!Position[journal[i].kind] + 1
    <3>1. /\ j # 1 /\ j > 1 /\ j - 1 = i
      BY <2>3
    <3>2. /\ journal[i].kind \in Ledger!From[journal[j].kind]
          /\ journal[j].kind # "intent" /\ journal[j] \in Receipts
      BY <1>0, <3>1 DEF Chained
    <3>3. journal[j].kind \in {"consumed", "submitted", "outcome", "cleared"}
      BY <2>3, <3>2 DEF Receipts, Ledger!Kinds
    <3>4. QED
      BY <3>2, <3>3 DEF Ledger!From, Ledger!Position
  <2>4. QED
    BY <2>2, <2>3
<1>2. Ledger!SendsAreApproved
  <2>1. order.sent <= Cardinality(spent)
    <3>1. Cardinality(spent) \in Nat /\ Cardinality(Licensees) \in Nat
      BY <1>0, FS_CardinalityType DEF Paid
    <3>2. QED
      BY <1>0, <3>1 DEF Paid
  <2>2. order.sent > 0 => Ledger!Has("consumed")
    <3>1. Ledger!Has("consumed") <=> \E i \in 1 .. Len(journal) : journal[i].kind = "consumed"
      BY <1>0, JournalFacts
    <3>2. QED
      BY <1>0, <3>1 DEF Paid
  <2>3. Ledger!Cardinality(spent) = Cardinality(spent)
    BY DEF Cardinality, Ledger!Cardinality
  <2>4. QED
    BY <2>1, <2>2, <2>3 DEF Ledger!SendsAreApproved
<1>3. Ledger!FillsAreSeen
  BY <1>0 DEF Reported, Ledger!FillsAreSeen
<1>4. QED
  BY <1>1, <1>2, <1>3 DEF Ledger!SendIsProven

\* The instance steps when the composed specification is about the ledger.
LEMMA LedgerPart ==
  ASSUME [MCNext]_everything, part = "ledger"
  PROVE  [Ledger!Next]_Ledger!vars /\ part' = part
BY DEF MCNext, everything, ledger, Ledger!vars

\* The receipts of a saga stand in the one order that proves a send, every order sent
\* has a consumed approval of its own, and no fill is reported as a cancellation, for
\* every number of processes, set of approvals, order size and number of failures
\* (execution_outbox.py, broker_reconciliation.py).
THEOREM SendStaysProven == MCSpec => []SendIsProven
<1>1. Ledger!LedgerAssumption
  BY OrdersAssumption
<1>2. MCInit => (part = "ledger" => LedgerInv)
  BY <1>1, LedgerInit DEF MCInit
<1>3. (part = "ledger" => LedgerInv) /\ [MCNext]_everything => (part = "ledger" => LedgerInv)'
  <2>1. SUFFICES ASSUME part = "ledger" => LedgerInv, [MCNext]_everything, part' = "ledger"
                 PROVE  LedgerInv'
    OBVIOUS
  <2>2. part = "ledger"
    BY <2>1 DEF MCNext, everything
  <2>3. QED
    BY <1>1, <2>1, <2>2, LedgerPart, LedgerStep
<1>4. (part = "ledger" => LedgerInv) => SendIsProven
  BY <1>1, LedgerIsOrdered DEF SendIsProven
<1>5. QED
  BY <1>2, <1>3, <1>4, PTL DEF MCSpec

-----------------------------------------------------------------------------
(* The handoffs the seats claim, answer and archive (HandoffStore).        *)

Ops == {"claim", "complete", "archive", "reply"}
Lookups ==
  [op : Ops, at : 1 .. 9, vanished : BOOLEAN, matches : SUBSET (Mail!State \X Mail!Copy),
   status : Mail!State \cup {None}, copy : Mail!Copy \cup {None}, existed : BOOLEAN]

\* A handoff only moves forward; a copy at or beyond the n-th directory.
Stage == [pending |-> 1, claimed |-> 2, done |-> 3, archive |-> 4]
Ahead(t, n) == \E s \in Mail!State : t[s] # None /\ Stage[s] >= n

\* What a seat q with the call c, at the point k of it, may rely on, given the
\* directories t and the holder m of the transition lock.
Sound(q, c, k, t, m) ==
  /\ k \notin {"down", "idle"} => c \in Lookups
                                  /\ (c.existed \/ c.matches # {} => Ahead(t, 1))
  /\ k \in {"probe", "load"} => c.at <= 4
  /\ k = "scan" => /\ c.at >= 5
                   /\ c.op # "archive" /\ c.existed /\ c.matches = {} => Ahead(t, c.at - 4)
  /\ k = "missing" /\ c.op # "archive" => ~c.existed
  /\ k \in {"found", "locked", "rechecked", "moved", "unlocked"}
       => c.status \in Mail!State /\ c.copy \in Mail!Copy
  /\ k \in {"locked", "rechecked"} => c.op # "reply" /\ Mail!MayMove(c.op, c.status)
  /\ k \in {"moved", "unlocked"} => c.op # "reply" /\ c.status # "pending"
  /\ k \in {"locked", "rechecked", "moved"} => m = q
  /\ k = "rechecked" => t[c.status] # None

\* One seat has claimed the handoff, and it is pending no more.
ClaimedOnce ==
  /\ \A p, q \in claimant : p = q
  /\ claimant # {} => tree["pending"] = None /\ Ahead(tree, 1)

MailInv ==
  /\ tree \in [Mail!State -> Mail!Copy \cup {None}]
  /\ mutex \in Processes \cup {None}
  /\ step \in [Processes -> Mail!PCs]
  /\ me \in [Processes -> Lookups \cup {None}]
  /\ \A p \in Processes : Sound(p, me[p], step[p], tree, mutex)
  /\ claimant \subseteq Processes /\ ClaimedOnce

\* One seat moves: what the others rely on stays, as the directories only gain copies
\* further along and only the holder of the lock takes one away.
LEMMA SeatMoves ==
  ASSUME MailInv, NEW p \in Processes, NEW c \in Lookups \cup {None}, NEW k \in Mail!PCs,
         me' = [me EXCEPT ![p] = c], step' = [step EXCEPT ![p] = k],
         tree' \in [Mail!State -> Mail!Copy \cup {None}],
         mutex' \in Processes \cup {None}, mutex' = mutex \/ mutex \in {None, p},
         \A n \in Int : Ahead(tree, n) => Ahead(tree', n),
         \A s \in Mail!State : tree[s] # None => tree'[s] # None \/ mutex = p,
         Sound(p, c, k, tree', mutex'), claimant' \subseteq Processes, ClaimedOnce'
  PROVE  MailInv'
<1>1. /\ me' \in [Processes -> Lookups \cup {None}] /\ step' \in [Processes -> Mail!PCs]
      /\ me'[p] = c /\ step'[p] = k
      /\ \A q \in Processes : q # p => me'[q] = me[q] /\ step'[q] = step[q]
  BY DEF MailInv
<1>2. ASSUME NEW q \in Processes, q # p
      PROVE  Sound(q, me[q], step[q], tree', mutex')
  <2>1. Sound(q, me[q], step[q], tree, mutex)
    BY DEF MailInv
  <2>2. None \notin Processes
    BY OrdersAssumption DEF Mail!StoreAssumption
  <2>3. step[q] \notin {"down", "idle"}
          => me[q].at \in Int /\ 1 \in Int /\ me[q].at - 4 \in Int
    BY <2>1 DEF Sound, Lookups
  <2>4. step[q] \in {"locked", "rechecked", "moved"} => mutex' = q /\ mutex # p
    BY <1>2, <2>1, <2>2 DEF Sound
  <2>5. step[q] = "rechecked" => tree'[me[q].status] # None
    BY <2>1, <2>4 DEF Sound
  <2>6. QED
    BY <2>1, <2>3, <2>4, <2>5 DEF Sound
<1>3. \A q \in Processes : Sound(q, me'[q], step'[q], tree', mutex')
  BY <1>1, <1>2
<1>4. QED
  BY <1>1, <1>3 DEF MailInv

\* The same for a step that touches neither the files nor the lock.
LEMMA SeatLooks ==
  ASSUME MailInv, NEW p \in Processes, NEW c \in Lookups \cup {None}, NEW k \in Mail!PCs,
         me' = [me EXCEPT ![p] = c], step' = [step EXCEPT ![p] = k], tree' = tree,
         mutex' = mutex, claimant' = claimant, Sound(p, c, k, tree, mutex)
  PROVE  MailInv'
<1>1. ClaimedOnce' /\ claimant' \subseteq Processes
  BY DEF MailInv, ClaimedOnce
<1>2. /\ tree' \in [Mail!State -> Mail!Copy \cup {None}] /\ mutex' \in Processes \cup {None}
      /\ \A n \in Int : Ahead(tree, n) => Ahead(tree', n)
      /\ \A s \in Mail!State : tree[s] # None => tree'[s] # None \/ mutex = p
      /\ Sound(p, c, k, tree', mutex')
  BY DEF MailInv
<1>3. QED
  BY <1>1, <1>2, SeatMoves

\* A call that is over or a seat that is down relies on nothing.
LEMMA SeatRests ==
  ASSUME MailInv, NEW p \in Processes, NEW k \in {"idle", "down"},
         me' = [me EXCEPT ![p] = None], step' = [step EXCEPT ![p] = k], tree' = tree,
         mutex' = mutex \/ (mutex = p /\ mutex' = None), claimant' = claimant
  PROVE  MailInv'
<1>1. ClaimedOnce' /\ claimant' \subseteq Processes /\ k \in Mail!PCs
  BY DEF MailInv, ClaimedOnce, Mail!PCs
<1>2. /\ tree' \in [Mail!State -> Mail!Copy \cup {None}] /\ mutex' \in Processes \cup {None}
      /\ mutex' = mutex \/ mutex \in {None, p}
      /\ \A n \in Int : Ahead(tree, n) => Ahead(tree', n)
      /\ \A s \in Mail!State : tree[s] # None => tree'[s] # None \/ mutex = p
  BY DEF MailInv
<1>3. Sound(p, None, k, tree', mutex')
  BY DEF Sound
<1>4. QED
  BY <1>1, <1>2, <1>3, SeatMoves

\* A call that ends leaves the tree as it is, and its lock if it held it.
LEMMA CallEnds ==
  ASSUME MailInv, NEW p \in Processes, Mail!Finish(p), tree' = tree,
         mutex' = mutex \/ (mutex = p /\ mutex' = None), claimant' = claimant
  PROVE  MailInv'
<1>1. me' = [me EXCEPT ![p] = None] /\ step' = [step EXCEPT ![p] = "idle"]
  BY DEF Mail!Finish, Mail!Goto
<1>2. "idle" \in {"idle", "down"}
  OBVIOUS
<1>3. QED
  BY <1>1, <1>2, SeatRests

\* The handoff starts absent.
LEMMA MailInit ==
  ASSUME Mail!Init
  PROVE  MailInv
<1>1. /\ tree \in [Mail!State -> Mail!Copy \cup {None}] /\ mutex \in Processes \cup {None}
      /\ step \in [Processes -> Mail!PCs] /\ me \in [Processes -> Lookups \cup {None}]
      /\ claimant \subseteq Processes
  BY DEF Mail!Init, Mail!PCs
<1>2. ClaimedOnce
  BY DEF Mail!Init, ClaimedOnce
<1>3. \A p \in Processes : Sound(p, me[p], step[p], tree, mutex)
  BY DEF Mail!Init, Sound
<1>4. QED
  BY <1>1, <1>2, <1>3 DEF MailInv

\* The copies of a handoff, wherever they are.
LEMMA CopyExists ==
  ASSUME MailInv
  PROVE  Mail!Exists <=> Ahead(tree, 1)
BY DEF Mail!Exists, Ahead, Mail!State, Stage

\* The next directory, or the scan for a prefix after the last one.
LEMMA SearchGoesOn ==
  ASSUME MailInv, NEW p \in Processes, step[p] \in {"probe", "load"},
         NEW c \in Lookups, c.at = me[p].at + 1, c.op = me[p].op,
         c.existed = me[p].existed, c.matches = me[p].matches,
         me' = [me EXCEPT ![p] = c], Mail!Advance(p), tree' = tree, mutex' = mutex,
         claimant' = claimant
  PROVE  MailInv'
<1> DEFINE k == IF me[p].at >= 4 THEN "scan" ELSE "probe"
<1>1. Sound(p, me[p], step[p], tree, mutex)
  BY DEF MailInv
<1>2. me[p] \in Lookups /\ me[p].at \in 1 .. 4
  BY <1>1 DEF Sound, Lookups
<1>3. k \in Mail!PCs /\ step' = [step EXCEPT ![p] = k]
  BY DEF Mail!Advance, Mail!Goto, Mail!PCs
<1>4. Sound(p, c, k, tree, mutex)
  BY <1>1, <1>2 DEF Sound
<1>5. QED
  BY <1>3, <1>4, SeatLooks

\* A call begins its search.
LEMMA SearchBegins ==
  ASSUME MailInv, NEW p \in Processes, NEW op \in Ops, NEW first \in {1, 5},
         Mail!Search(p, op, first), tree' = tree, mutex' = mutex, claimant' = claimant
  PROVE  MailInv'
<1> DEFINE c == [op |-> op, at |-> first, vanished |-> FALSE, matches |-> {},
                 status |-> None, copy |-> None, existed |-> Mail!Exists]
           k == IF first = 1 THEN "probe" ELSE "scan"
<1>1. Mail!Exists \in BOOLEAN
  BY DEF Mail!Exists
<1>2. c \in Lookups /\ k \in Mail!PCs
  BY <1>1 DEF Lookups, Mail!PCs, Ops
<1>3. me' = [me EXCEPT ![p] = c] /\ step' = [step EXCEPT ![p] = k]
  BY DEF Mail!Search, Mail!Goto
<1>4. Sound(p, c, k, tree, mutex)
  <2>1. c.existed \/ c.matches # {} => Ahead(tree, 1)
    BY CopyExists
  <2>2. first - 4 = 1 \/ first = 1
    OBVIOUS
  <2>3. QED
    BY <1>2, <2>1, <2>2 DEF Sound
<1>5. QED
  BY <1>2, <1>3, <1>4, SeatLooks

\* The search ends at a copy.
LEMMA SearchEnds ==
  ASSUME MailInv, NEW p \in Processes, me[p] \in Lookups, NEW s \in Mail!State,
         NEW copy \in Mail!Copy, Mail!Found(p, s, copy), Ahead(tree, 1), tree' = tree,
         mutex' = mutex, claimant' = claimant
  PROVE  MailInv'
<1> DEFINE c == [op |-> me[p].op, at |-> 1, vanished |-> FALSE, matches |-> {},
                 status |-> s, copy |-> copy, existed |-> TRUE]
<1>1. c \in Lookups /\ "found" \in Mail!PCs
  BY DEF Lookups, Mail!PCs
<1>2. me' = [me EXCEPT ![p] = c] /\ step' = [step EXCEPT ![p] = "found"]
  BY DEF Mail!Found, Mail!Goto
<1>3. Sound(p, c, "found", tree, mutex)
  BY <1>1 DEF Sound
<1>4. QED
  BY <1>1, <1>2, <1>3, SeatLooks

\* The calls, the search in the order of the directories and what it comes to: a copy
\* that a seat moves on meanwhile is met again further along.
LEMMA LookStep ==
  ASSUME MailInv, NEW p \in Processes,
         \/ Mail!Start(p)
         \/ Mail!Probe(p)
         \/ Mail!Load(p)
         \/ Mail!Scan(p)
         \/ Mail!Resolve(p)
         \/ Mail!Missing(p)
         \/ Mail!Refuse(p)
         \/ Mail!Answer(p)
         \/ Mail!LockTimesOut(p)
  PROVE  MailInv'
<1>0. /\ Sound(p, me[p], step[p], tree, mutex)
      /\ tree' = tree /\ mutex' = mutex /\ claimant' = claimant
  BY DEF MailInv, Mail!Start, Mail!Probe, Mail!Load, Mail!Scan, Mail!Resolve, Mail!Missing,
     Mail!Refuse, Mail!Answer, Mail!LockTimesOut
<1>1. CASE Mail!Start(p)
  <2>1. Operations \subseteq Ops
    BY OrdersAssumption DEF Mail!StoreAssumption, Ops
  <2>2. QED
    BY <1>0, <1>1, <2>1, SearchBegins DEF Mail!Start
<1>3. CASE Mail!Probe(p)
  <2>1. step[p] = "probe" /\ me[p] \in Lookups /\ me[p].at \in 1 .. 4
    BY <1>0, <1>3 DEF Mail!Probe, Sound, Lookups
  <2>2. CASE me' = me /\ step' = [step EXCEPT ![p] = "load"]
    <3>1. me' = [me EXCEPT ![p] = me[p]] /\ "load" \in Mail!PCs
      BY <2>2 DEF MailInv, Mail!PCs
    <3>2. Sound(p, me[p], "load", tree, mutex)
      BY <1>0, <2>1 DEF Sound
    <3>3. QED
      BY <1>0, <2>1, <2>2, <3>1, <3>2, SeatLooks
  <2>3. CASE me' = [me EXCEPT ![p].at = @ + 1] /\ Mail!Advance(p)
    <3> DEFINE c == [me[p] EXCEPT !.at = me[p].at + 1]
    <3>1. me' = [me EXCEPT ![p] = c]
      BY <2>3 DEF MailInv
    <3>2. me[p].at + 1 \in 1 .. 9
      BY <2>1
    <3>3. /\ c \in Lookups /\ c.at = me[p].at + 1 /\ c.op = me[p].op
          /\ c.existed = me[p].existed /\ c.matches = me[p].matches
      BY <2>1, <3>2 DEF Lookups
    <3> HIDE DEF c
    <3>4. QED
      BY <1>0, <2>1, <2>3, <3>1, <3>3, SearchGoesOn
  <2>4. QED
    BY <1>3, <2>2, <2>3 DEF Mail!Probe, Mail!Goto
<1>4. CASE Mail!Load(p)
  <2>1. step[p] = "load" /\ me[p] \in Lookups /\ me[p].at \in 1 .. 4
    BY <1>0, <1>4 DEF Mail!Load, Sound, Lookups
  <2>2. Mail!Looking(p) \in Mail!State
    BY <2>1 DEF Mail!Looking, Mail!SearchOrder, Mail!State
  <2>3. CASE tree[Mail!Looking(p)] # None /\ Mail!Found(p, Mail!Looking(p), tree[Mail!Looking(p)])
    <3>1. tree[Mail!Looking(p)] \in Mail!Copy
      BY <2>2, <2>3 DEF MailInv
    <3>2. Ahead(tree, 1)
      BY <2>2, <2>3 DEF Ahead, Mail!State, Stage
    <3>3. QED
      BY <1>0, <2>1, <2>2, <2>3, <3>1, <3>2, SearchEnds
  <2>4. CASE /\ me' = [me EXCEPT ![p].at = @ + 1, ![p].vanished = TRUE]
             /\ Mail!Advance(p)
    <3> DEFINE c == [me[p] EXCEPT !.at = me[p].at + 1, !.vanished = TRUE]
    <3>1. me' = [me EXCEPT ![p] = c]
      BY <2>4 DEF MailInv
    <3>2. me[p].at + 1 \in 1 .. 9
      BY <2>1
    <3>3. /\ c \in Lookups /\ c.at = me[p].at + 1 /\ c.op = me[p].op
          /\ c.existed = me[p].existed /\ c.matches = me[p].matches
      BY <2>1, <3>2 DEF Lookups
    <3> HIDE DEF c
    <3>4. QED
      BY <1>0, <2>1, <2>4, <3>1, <3>3, SearchGoesOn
  <2>5. QED
    BY <1>4, <2>3, <2>4 DEF Mail!Load
<1>5. CASE Mail!Scan(p)
  <2> DEFINE s == Mail!Looking(p)
             ms == IF tree[s] = None THEN me[p].matches ELSE me[p].matches \cup {<<s, tree[s]>>}
             c == [me[p] EXCEPT !.at = me[p].at + 1, !.matches = ms]
  <2>1. step[p] = "scan" /\ me[p] \in Lookups /\ me[p].at \in 5 .. 8
    BY <1>0, <1>5 DEF Mail!Scan, Sound, Lookups
  <2>2. s \in Mail!State /\ (me[p].op # "archive" => Stage[s] = me[p].at - 4)
    <3>1. ((me[p].at - 1) % 4) + 1 = me[p].at - 4 /\ me[p].at - 4 \in 1 .. 4
      BY <2>1
    <3>2. QED
      BY <3>1 DEF Mail!Looking, Mail!SearchOrder, Mail!State, Stage
  <2>3. ms \in SUBSET (Mail!State \X Mail!Copy) /\ (ms = {} => tree[s] = None /\ me[p].matches = {})
    <3>1. me[p].matches \in SUBSET (Mail!State \X Mail!Copy)
      BY <2>1 DEF Lookups
    <3>2. tree[s] # None => <<s, tree[s]>> \in Mail!State \X Mail!Copy
      BY <2>2 DEF MailInv
    <3>3. QED
      BY <3>1, <3>2
  <2>4. /\ c \in Lookups /\ c.at = me[p].at + 1 /\ c.op = me[p].op
        /\ c.existed = me[p].existed /\ c.matches = ms
    <3>1. me[p].at + 1 \in 1 .. 9
      BY <2>1
    <3> HIDE DEF ms
    <3>2. c \in Lookups
      BY <2>1, <2>3, <3>1 DEF Lookups
    <3>3. QED
      BY <2>1, <3>2 DEF Lookups
  <2>5. me' = [me EXCEPT ![p] = c] /\ step' = [step EXCEPT ![p] = "scan"] /\ "scan" \in Mail!PCs
    BY <1>5, <2>1 DEF Mail!Scan, MailInv, Mail!PCs
  <2>6. c.op # "archive" /\ c.existed /\ c.matches = {} => Ahead(tree, c.at - 4)
    <3>1. SUFFICES ASSUME c.op # "archive", c.existed, c.matches = {}
                   PROVE  Ahead(tree, c.at - 4)
      OBVIOUS
    <3>2. Ahead(tree, me[p].at - 4)
      BY <1>0, <2>1, <2>3, <2>4, <3>1 DEF Sound
    <3>3. PICK x \in Mail!State : tree[x] # None /\ Stage[x] >= me[p].at - 4
      BY <3>2 DEF Ahead
    <3>4. tree[s] = None /\ Stage[s] = me[p].at - 4
      BY <2>2, <2>3, <2>4, <3>1
    <3>5. Stage[x] >= c.at - 4
      BY <2>1, <2>2, <2>4, <3>3, <3>4 DEF Mail!State, Stage
    <3>6. QED
      BY <3>3, <3>5 DEF Ahead
  <2>7. Sound(p, c, "scan", tree, mutex)
    <3>1. c.existed \/ c.matches # {} => Ahead(tree, 1)
      <4>1. tree[s] # None => Ahead(tree, 1)
        BY <2>2 DEF Ahead, Mail!State, Stage
      <4>2. QED
        BY <1>0, <2>1, <2>3, <2>4, <4>1 DEF Sound
    <3>2. c.at >= 5
      BY <2>1, <2>4
    <3>3. QED
      BY <2>4, <2>6, <3>1, <3>2 DEF Sound
  <2>8. QED
    BY <1>0, <2>4, <2>5, <2>7, SeatLooks
<1>6. CASE Mail!Resolve(p)
  <2>1. step[p] = "scan" /\ me[p] \in Lookups /\ me[p].at = 9
    BY <1>0, <1>6 DEF Mail!Resolve, Sound
  <2>2. ASSUME NEW m \in me[p].matches, Mail!Found(p, m[1], m[2]) PROVE MailInv'
    <3>1. m[1] \in Mail!State /\ m[2] \in Mail!Copy
      BY <2>1, <2>2 DEF Lookups
    <3>2. Ahead(tree, 1)
      BY <1>0, <2>1, <2>2 DEF Sound
    <3>3. QED
      BY <1>0, <2>1, <2>2, <3>1, <3>2, SearchEnds
  <2>3. CASE Mail!Finish(p)
    BY <1>0, <2>3, CallEnds
  <2>4. CASE /\ me[p].matches = {} /\ ~me[p].vanished /\ me' = me
             /\ step' = [step EXCEPT ![p] = "missing"]
    <3>1. me' = [me EXCEPT ![p] = me[p]] /\ "missing" \in Mail!PCs
      BY <2>4 DEF MailInv, Mail!PCs
    <3>2. ~Ahead(tree, 5)
      BY DEF Ahead, Mail!State, Stage
    <3>3. Sound(p, me[p], "missing", tree, mutex)
      BY <1>0, <2>1, <2>4, <3>2 DEF Sound
    <3>4. QED
      BY <1>0, <2>1, <2>4, <3>1, <3>3, SeatLooks
  <2>5. QED
    BY <1>6, <2>2, <2>3, <2>4 DEF Mail!Resolve, Mail!Goto
<1>7. CASE Mail!Missing(p)
  BY <1>0, <1>7, CallEnds DEF Mail!Missing
<1>8. CASE Mail!Refuse(p)
  BY <1>0, <1>8, CallEnds DEF Mail!Refuse
<1>9. CASE Mail!Answer(p)
  <2>1. CASE Mail!Search(p, "complete", 1)
    BY <1>0, <2>1, SearchBegins DEF Ops
  <2>2. CASE Mail!Finish(p)
    BY <1>0, <2>2, CallEnds
  <2>3. QED
    BY <1>9, <2>1, <2>2 DEF Mail!Answer
<1>10. CASE Mail!LockTimesOut(p)
  BY <1>0, <1>10, CallEnds DEF Mail!LockTimesOut
<1>11. QED
  BY <1>1, <1>3, <1>4, <1>5, <1>6, <1>7, <1>8, <1>9, <1>10

\* The lock is taken when nobody holds it, and given back; the rename moves the one
\* copy that was seen under it, whatever renames of the others would do.
LEMMA LockStep ==
  ASSUME MailInv, NEW p \in Processes,
         \/ Mail!Acquire(p)
         \/ Mail!Recheck(p)
         \/ Mail!RenameRaises(p)
         \/ Mail!Unlock(p)
         \/ Mail!RewriteFails(p)
         \/ Mail!Crash(p)
  PROVE  MailInv'
<1>0. /\ Sound(p, me[p], step[p], tree, mutex) /\ tree' = tree /\ claimant' = claimant
      /\ tree \in [Mail!State -> Mail!Copy \cup {None}]
  BY DEF MailInv, Mail!Acquire, Mail!Recheck, Mail!RenameRaises, Mail!Unlock,
     Mail!RewriteFails, Mail!Crash
<1>1. ASSUME me' = me, NEW k \in Mail!PCs, step' = [step EXCEPT ![p] = k],
             me[p] \in Lookups, mutex' \in Processes \cup {None},
             mutex' = mutex \/ mutex \in {None, p}, Sound(p, me[p], k, tree, mutex')
      PROVE  MailInv'
  <2>1. me' = [me EXCEPT ![p] = me[p]]
    BY <1>1 DEF MailInv
  <2>2. ClaimedOnce' /\ claimant' \subseteq Processes
    BY <1>0 DEF MailInv, ClaimedOnce
  <2>3. /\ tree' \in [Mail!State -> Mail!Copy \cup {None}]
        /\ \A n \in Int : Ahead(tree, n) => Ahead(tree', n)
        /\ \A s \in Mail!State : tree[s] # None => tree'[s] # None \/ mutex = p
        /\ Sound(p, me[p], k, tree', mutex')
    BY <1>0, <1>1
  <2>4. QED
    BY <1>1, <2>1, <2>2, <2>3, SeatMoves
<1>2. CASE Mail!Acquire(p)
  <2>1. /\ step[p] = "found" /\ me[p].op # "reply" /\ Mail!MayMove(me[p].op, me[p].status)
        /\ mutex = None /\ mutex' = p /\ me' = me /\ step' = [step EXCEPT ![p] = "locked"]
    BY <1>2 DEF Mail!Acquire, Mail!Goto
  <2>2. me[p] \in Lookups /\ "locked" \in Mail!PCs /\ Sound(p, me[p], "locked", tree, mutex')
    BY <1>0, <2>1 DEF Sound, Mail!PCs
  <2>3. QED
    BY <1>1, <2>1, <2>2
<1>3. CASE Mail!Recheck(p)
  <2>1. step[p] = "locked" /\ mutex = p
    BY <1>0, <1>3 DEF Mail!Recheck, Sound
  <2>2. CASE mutex' = None /\ Mail!Finish(p)
    BY <1>0, <2>1, <2>2, CallEnds
  <2>3. CASE /\ tree[me[p].status] # None /\ mutex' = mutex /\ me' = me
             /\ step' = [step EXCEPT ![p] = "rechecked"]
    <3>1. /\ me[p] \in Lookups /\ "rechecked" \in Mail!PCs
          /\ Sound(p, me[p], "rechecked", tree, mutex')
      BY <1>0, <2>1, <2>3 DEF Sound, Mail!PCs
    <3>2. QED
      BY <1>1, <2>1, <2>3, <3>1
  <2>4. QED
    BY <1>3, <2>2, <2>3 DEF Mail!Recheck, Mail!Goto
<1>4. CASE Mail!RenameRaises(p)
  <2>1. mutex = p
    BY <1>0, <1>4 DEF Mail!RenameRaises, Sound
  <2>2. QED
    BY <1>0, <1>4, <2>1, CallEnds DEF Mail!RenameRaises
<1>5. CASE Mail!Unlock(p)
  <2>1. /\ step[p] = "moved" /\ mutex' = None /\ me' = me
        /\ step' = [step EXCEPT ![p] = "unlocked"]
    BY <1>5 DEF Mail!Unlock, Mail!Goto
  <2>2. /\ me[p] \in Lookups /\ "unlocked" \in Mail!PCs /\ mutex = p
        /\ Sound(p, me[p], "unlocked", tree, mutex')
    BY <1>0, <2>1 DEF Sound, Mail!PCs
  <2>3. QED
    BY <1>1, <2>1, <2>2
<1>6. CASE Mail!RewriteFails(p)
  BY <1>0, <1>6, CallEnds DEF Mail!RewriteFails
<1>7. CASE Mail!Crash(p)
  <2>1. /\ me' = [me EXCEPT ![p] = None] /\ step' = [step EXCEPT ![p] = "down"]
        /\ "down" \in {"idle", "down"} /\ mutex' = mutex
    BY <1>7 DEF Mail!Crash, Mail!Goto
  <2>2. QED
    BY <1>0, <2>1, SeatRests
<1>8. QED
  BY <1>2, <1>3, <1>4, <1>5, <1>6, <1>7

\* A lock is broken only when its owner is down.
LEMMA BreakStep ==
  ASSUME MailInv, Mail!BreakLock
  PROVE  MailInv'
<1>1. /\ mutex' = None /\ tree' = tree /\ me' = me /\ step' = step /\ claimant' = claimant
      /\ step[mutex] = "down"
  BY DEF Mail!BreakLock
<1>2. ASSUME NEW p \in Processes PROVE Sound(p, me[p], step[p], tree, None)
  <2>1. Sound(p, me[p], step[p], tree, mutex)
    BY DEF MailInv
  <2>2. step[p] \notin {"locked", "rechecked", "moved"}
    BY <1>1, <2>1 DEF Sound
  <2>3. QED
    BY <2>1, <2>2 DEF Sound
<1>3. ClaimedOnce' /\ claimant' \subseteq Processes
  BY <1>1 DEF MailInv, ClaimedOnce
<1>4. QED
  BY <1>1, <1>2, <1>3 DEF MailInv

\* A handoff is created where there is none.
LEMMA CreateStep ==
  ASSUME MailInv, NEW p \in Processes, Mail!Create(p)
  PROVE  MailInv'
<1> DEFINE new == [claimedBy |-> None, note |-> None]
<1>0. /\ tree \in [Mail!State -> Mail!Copy \cup {None}] /\ step[p] = "idle"
      /\ ~Ahead(tree, 1) /\ me' = me /\ step' = step /\ mutex' = mutex
      /\ claimant' = claimant /\ tree' = [tree EXCEPT !["pending"] = new]
  BY CopyExists DEF MailInv, Mail!Create
<1>1. new \in Mail!Copy /\ new # None
  BY OrdersAssumption DEF Mail!Copy, Mail!StoreAssumption
<1>2. /\ tree' \in [Mail!State -> Mail!Copy \cup {None}] /\ tree'["pending"] # None
      /\ \A s \in Mail!State : tree[s] # None => tree'[s] # None
  BY <1>0, <1>1 DEF Mail!State
<1>3. \A n \in Int : Ahead(tree, n) => Ahead(tree', n)
  BY <1>2 DEF Ahead
<1>4. claimant = {}
  BY <1>0 DEF MailInv, ClaimedOnce
<1>5. ClaimedOnce'
  BY <1>0, <1>4 DEF ClaimedOnce
<1>6. /\ me' = [me EXCEPT ![p] = me[p]] /\ step' = [step EXCEPT ![p] = "idle"]
      /\ me[p] \in Lookups \cup {None} /\ "idle" \in Mail!PCs
      /\ mutex' \in Processes \cup {None} /\ claimant' \subseteq Processes
  BY <1>0 DEF MailInv, Mail!PCs
<1>7. Sound(p, me[p], "idle", tree', mutex')
  BY DEF Sound
<1>8. QED
  BY <1>0, <1>2, <1>3, <1>5, <1>6, <1>7, SeatMoves

\* The rename under the lock: the copy that was rechecked moves on.
LEMMA RenameStep ==
  ASSUME MailInv, NEW p \in Processes, Mail!Rename(p)
  PROVE  MailInv'
<1> DEFINE source == me[p].status
           target == Mail!Target(me[p].op)
           c == [me[p] EXCEPT !.status = target]
<1>0. /\ Sound(p, me[p], "rechecked", tree, mutex) /\ me[p] \in Lookups
      /\ tree \in [Mail!State -> Mail!Copy \cup {None}] /\ claimant \subseteq Processes
      /\ ClaimedOnce
  BY DEF MailInv, Mail!Rename, Sound
<1>1. /\ source \in Mail!State /\ tree[source] # None /\ mutex = p
      /\ me[p].op \in {"claim", "complete", "archive"}
      /\ Mail!MayMove(me[p].op, source)
  BY <1>0 DEF Sound, Lookups, Ops
<1>2. /\ target \in {"claimed", "done", "archive"} /\ target \in Mail!State
      /\ Stage[source] < Stage[target] /\ source # target
      /\ me[p].op = "claim" => source = "pending"
  BY <1>1 DEF Mail!MayMove, Mail!Target, Mail!State, Stage
<1>3. /\ tree' = [tree EXCEPT ![target] = tree[source], ![source] = None]
      /\ mutex' = mutex /\ step' = [step EXCEPT ![p] = "moved"]
      /\ me' = [me EXCEPT ![p] = c]
      /\ claimant' = IF me[p].op = "claim" THEN claimant \cup {p} ELSE claimant
  BY <1>1 DEF Mail!Rename, Mail!Goto, MailInv
<1> HIDE DEF target
<1>4. /\ c \in Lookups /\ c.status = target /\ c.op = me[p].op /\ c.copy = me[p].copy
      /\ c.existed = me[p].existed /\ c.matches = me[p].matches /\ c.at = me[p].at
  BY <1>0, <1>2 DEF Lookups
<1> HIDE DEF c
<1>5. /\ tree' \in [Mail!State -> Mail!Copy \cup {None}]
      /\ tree'[target] = tree[source] /\ tree'[source] = None
      /\ \A s \in Mail!State : s # source => (tree[s] # None => tree'[s] # None)
  BY <1>0, <1>1, <1>2, <1>3
<1>6. ASSUME NEW n \in Int, Ahead(tree, n) PROVE Ahead(tree', n)
  <2>1. PICK s \in Mail!State : tree[s] # None /\ Stage[s] >= n
    BY <1>6 DEF Ahead
  <2>2. CASE s = source
    <3>1. Stage[target] >= n
      BY <1>1, <1>2, <2>1, <2>2 DEF Mail!State, Stage
    <3>2. QED
      BY <1>1, <1>2, <1>5, <3>1 DEF Ahead
  <2>3. CASE s # source
    BY <1>5, <2>1, <2>3 DEF Ahead
  <2>4. QED
    BY <2>2, <2>3
<1>7. Ahead(tree', 1)
  BY <1>1, <1>2, <1>5 DEF Ahead, Stage
<1>8. ClaimedOnce'
  <2>1. tree["pending"] = None => source # "pending"
    BY <1>1
  <2>2. \/ tree'["pending"] = None
        \/ source # "pending" /\ tree'["pending"] = tree["pending"]
    BY <1>0, <1>1, <1>2, <1>3, <1>5 DEF Mail!State
  <2>3. CASE me[p].op = "claim"
    <3>1. source = "pending" /\ claimant = {}
      BY <1>0, <1>1, <1>2, <2>3 DEF ClaimedOnce
    <3>2. claimant' = {p}
      BY <1>3, <2>3, <3>1
    <3>3. QED
      BY <1>5, <1>7, <3>1, <3>2 DEF ClaimedOnce
  <2>4. CASE me[p].op # "claim"
    <3>1. claimant' = claimant
      BY <1>3, <2>4
    <3>2. QED
      BY <1>0, <1>7, <2>1, <2>2, <3>1 DEF ClaimedOnce
  <2>5. QED
    BY <2>3, <2>4
<1>9. Sound(p, c, "moved", tree', mutex')
  BY <1>0, <1>1, <1>2, <1>3, <1>4, <1>7 DEF Sound
<1>10. /\ "moved" \in Mail!PCs /\ mutex' \in Processes \cup {None}
       /\ claimant' \subseteq Processes
       /\ \A s \in Mail!State : tree[s] # None => tree'[s] # None \/ mutex = p
  BY <1>0, <1>1, <1>3 DEF Mail!PCs
<1>11. QED
  BY <1>3, <1>4, <1>5, <1>6, <1>8, <1>9, <1>10, SeatMoves

\* The bookkeeping rewrite puts a copy where its seat has moved the handoff, and never
\* back among the pending.
LEMMA RewriteStep ==
  ASSUME MailInv, NEW p \in Processes, Mail!Rewrite(p)
  PROVE  MailInv'
<1> DEFINE s == me[p].status
<1>0. /\ Sound(p, me[p], "unlocked", tree, mutex) /\ me[p] \in Lookups
      /\ tree \in [Mail!State -> Mail!Copy \cup {None}] /\ claimant \subseteq Processes
      /\ ClaimedOnce /\ claimant' = claimant /\ mutex' = mutex
      /\ me' = [me EXCEPT ![p] = None] /\ step' = [step EXCEPT ![p] = "idle"]
      /\ tree' = [tree EXCEPT ![s] = Mail!Stamped(p)]
  BY DEF MailInv, Mail!Rewrite, Mail!Finish, Mail!Goto, Sound
<1>1. s \in Mail!State /\ s # "pending" /\ me[p].copy \in Mail!Copy
  BY <1>0 DEF Sound
<1>2. Mail!Stamped(p) \in Mail!Copy /\ Mail!Stamped(p) # None
  <2>1. Mail!Stamped(p) \in Mail!Copy
    BY <1>1 DEF Mail!Stamped, Mail!Copy
  <2>2. QED
    BY <2>1, OrdersAssumption DEF Mail!StoreAssumption
<1>3. /\ tree' \in [Mail!State -> Mail!Copy \cup {None}]
      /\ tree'[s] # None /\ tree'["pending"] = tree["pending"]
      /\ \A x \in Mail!State : tree[x] # None => tree'[x] # None
  BY <1>0, <1>1, <1>2 DEF Mail!State
<1>4. \A n \in Int : Ahead(tree, n) => Ahead(tree', n)
  BY <1>3 DEF Ahead
<1>5. ClaimedOnce'
  <2>1. Ahead(tree, 1) => Ahead(tree', 1)
    BY <1>3 DEF Ahead
  <2>2. QED
    BY <1>0, <1>3, <2>1 DEF ClaimedOnce
<1>6. Sound(p, None, "idle", tree', mutex') /\ "idle" \in Mail!PCs
      /\ mutex' \in Processes \cup {None}
  BY <1>0 DEF Sound, Mail!PCs, MailInv
<1>7. QED
  BY <1>0, <1>3, <1>4, <1>5, <1>6, SeatMoves

\* Every step of the store.
LEMMA MailStep ==
  ASSUME MailInv, [Mail!Next]_Mail!vars
  PROVE  MailInv'
<1>1. CASE UNCHANGED Mail!vars
  BY <1>1 DEF Mail!vars, MailInv, ClaimedOnce
<1>2. CASE Mail!Next
  BY <1>2, LookStep, LockStep, BreakStep, CreateStep, RenameStep, RewriteStep
     DEF Mail!Next, Mail!Find, Mail!Transition
<1>3. QED
  BY <1>1, <1>2

\* What the invariant says of the properties.
LEMMA MailIsTrue ==
  ASSUME MailInv
  PROVE  Mail!AnswersAreTrue
<1>1. Mail!OneClaimWinner
  <2>1. Mail!Cardinality(claimant) = Cardinality(claimant)
    BY DEF Cardinality, Mail!Cardinality
  <2>2. CASE claimant = {}
    <3>1. Cardinality({}) = 0
      BY FS_EmptySet
    <3>2. QED
      BY <2>1, <2>2, <3>1 DEF Mail!OneClaimWinner
  <2>3. CASE \E p \in claimant : TRUE
    <3>1. PICK p \in claimant : claimant = {p}
      BY <2>3 DEF MailInv, ClaimedOnce
    <3>2. Cardinality({p}) = 1
      BY FS_Singleton
    <3>3. QED
      BY <2>1, <3>1, <3>2 DEF Mail!OneClaimWinner
  <2>4. QED
    BY <2>2, <2>3
<1>2. Mail!NotFoundMeansMissing
  BY DEF MailInv, Sound, Mail!NotFoundMeansMissing
<1>3. QED
  BY <1>1, <1>2 DEF Mail!AnswersAreTrue

\* At most one seat claims a handoff, and no seat is told that a handoff is missing
\* which existed when it began to look, for every number of seats, set of operations,
\* number of deaths and behaviour of a rename (store.claim, store.find).
THEOREM AnswersStayTrue == MCSpec => []AnswersAreTrue
<1>1. MCInit => (part = "mail" => MailInv)
  BY MailInit DEF MCInit
<1>2. (part = "mail" => MailInv) /\ [MCNext]_everything => (part = "mail" => MailInv)'
  <2>1. SUFFICES ASSUME part = "mail" => MailInv, [MCNext]_everything, part' = "mail"
                 PROVE  MailInv'
    OBVIOUS
  <2>2. part = "mail" /\ [Mail!Next]_Mail!vars
    BY <2>1 DEF MCNext, everything, handoffs, Mail!vars
  <2>3. QED
    BY <2>1, <2>2, MailStep
<1>3. (part = "mail" => MailInv) => AnswersAreTrue
  BY MailIsTrue DEF AnswersAreTrue
<1>4. QED
  BY <1>1, <1>2, <1>3, PTL DEF MCSpec

-----------------------------------------------------------------------------
(* What an opening fill cost (FillCost).                                   *)

\* The sums of the component are those of Totals.
LEMMA CostSums ==
  /\ \A f : Cost!Total(f) = Total(f)
  /\ \A S : Cost!Cardinality(S) = Cardinality(S)
<1>1. \A S : Cost!Cardinality(S) = Cardinality(S)
  BY DEF Cardinality, Cost!Cardinality
<1>2. QED
  BY <1>1 DEF Cost!Total, Cost!Units, Total, Units

Owned(n) == (1 .. n) \X FillLegs \X {"own"}
Others == (1 .. Namesakes) \X FillLegs \X {"namesake"}

\* The executions a session knows of are the order's and those of its namesake; what
\* was captured as complete, without the namesake's, covers the cost of its quantity.
CostInv ==
  /\ filled \in Nat /\ believed \in 0 .. filled
  /\ DOMAIN reported \subseteq Owned(filled) \cup Others
  /\ evidence.complete /\ ~evidence.mixed => evidence.total >= Cost!Price(evidence.quantity)

\* An injection, by its values.
LEMMA InjectionIs ==
  ASSUME NEW S, NEW T, NEW f
  PROVE  f \in Injection(S, T) <=> /\ f \in [S -> T]
                                   /\ \A a, b \in S : f[a] = f[b] => a = b
BY DEF Injection, IsInjective

\* A sum grows when its terms are carried, one to one, to terms that are no less.
LEMMA TotalIsCarried ==
  ASSUME NEW S, NEW T, IsFiniteSet(T), NEW f \in [S -> Nat], NEW g \in [T -> Nat],
         NEW h \in Injection(S, T), \A x \in S : f[x] <= g[h[x]]
  PROVE  Total(f) <= Total(g)
<1> DEFINE carry == [u \in Units(f) |-> <<h[u[1]], u[2]>>]
<1>1. h \in [S -> T] /\ \A a, b \in S : h[a] = h[b] => a = b
  BY InjectionIs
<1>2. ASSUME NEW u \in Units(f)
      PROVE  /\ u[1] \in S /\ u[2] \in 1 .. f[u[1]] /\ u = <<u[1], u[2]>>
  BY <1>2 DEF Units
<1>3. ASSUME NEW u \in Units(f) PROVE carry[u] \in Units(g)
  <2>1. h[u[1]] \in T /\ u[2] \in 1 .. g[h[u[1]]]
    BY <1>1, <1>2, <1>3
  <2>2. \A y \in T : \A k \in 1 .. g[y] : <<y, k>> \in Units(g)
    BY DEF Units
  <2>3. QED
    BY <2>1, <2>2
<1>4. ASSUME NEW u \in Units(f), NEW v \in Units(f), carry[u] = carry[v] PROVE u = v
  <2>1. h[u[1]] = h[v[1]] /\ u[2] = v[2]
    BY <1>4
  <2>2. u[1] = v[1]
    BY <1>1, <1>2, <2>1
  <2>3. QED
    BY <1>2, <2>1, <2>2
<1>5. carry \in [Units(f) -> Units(g)]
  BY <1>3
<1> HIDE DEF carry
<1>6. carry \in Injection(Units(f), Units(g))
  BY <1>4, <1>5, InjectionIs
<1>7. IsFiniteSet(Units(g))
  BY TotalIsNumber
<1>8. QED
  BY <1>6, <1>7, FS_Injection DEF Total

\* Ways to give each contract and leg of a quantity an execution of its own.
Pairings(q, E) ==
  {pair \in Injection((1 .. q) \X FillLegs, E) :
     \A x \in (1 .. q) \X FillLegs : pair[x][2] = x[2]}

\* Executions that cover every leg up to a quantity pair with it.
LEMMA LegsAddUp ==
  ASSUME IsFiniteSet(FillLegs), NEW n \in Nat, NEW q \in Nat,
         NEW E \in SUBSET Owned(n),
         \A leg \in FillLegs : Cardinality({e \in E : e[2] = leg}) >= q
  PROVE  IsFiniteSet(E) /\ Pairings(q, E) # {}
<1> DEFINE Of(leg) == {e \in E : e[2] = leg}
           numbering == [leg \in FillLegs |-> CHOOSE f \in Injection(1 .. q, Of(leg)) : TRUE]
           pair == [x \in (1 .. q) \X FillLegs |-> numbering[x[2]][x[1]]]
<1>1. IsFiniteSet(E)
  <2> DEFINE k == [e \in E |-> <<e[1], e[2]>>]
  <2>1. IsFiniteSet((1 .. n) \X FillLegs)
    <3>1. IsFiniteSet(1 .. n)
      BY FS_Interval
    <3>2. QED
      BY <3>1, FS_Product
  <2>2. \A e \in E : e[1] \in 1 .. n /\ e[2] \in FillLegs /\ e = <<e[1], e[2], "own">>
    BY DEF Owned
  <2>3. k \in [E -> (1 .. n) \X FillLegs]
    BY <2>2
  <2>4. ASSUME NEW a \in E, NEW b \in E, k[a] = k[b] PROVE a = b
    <3>1. a[1] = b[1] /\ a[2] = b[2]
      BY <2>4
    <3>2. QED
      BY <2>2, <3>1
  <2> HIDE DEF k
  <2>5. k \in Injection(E, (1 .. n) \X FillLegs)
    BY <2>3, <2>4, InjectionIs
  <2>6. QED
    BY <2>1, <2>5, FS_Injection
<1>2. ASSUME NEW leg \in FillLegs
      PROVE  numbering[leg] \in Injection(1 .. q, Of(leg))
  <2> DEFINE members == Cardinality(Of(leg))
  <2>1. IsFiniteSet(Of(leg)) /\ members >= q /\ members \in Nat
    BY <1>1, FS_Subset, FS_CardinalityType
  <2>2. PICK f \in Bijection(1 .. members, Of(leg)) : TRUE
    BY <2>1, FS_CardinalityType DEF ExistsBijection
  <2>3. f \in Injection(1 .. members, Of(leg))
    BY <2>2 DEF Bijection
  <2> HIDE DEF members
  <2>4. f \in [1 .. members -> Of(leg)] /\ \A a, b \in 1 .. members : f[a] = f[b] => a = b
    BY <2>3, InjectionIs
  <2>5. 1 .. q \subseteq 1 .. members
    BY <2>1
  <2> HIDE DEF Of
  <2> DEFINE g == [i \in 1 .. q |-> f[i]]
  <2>6. g \in [1 .. q -> Of(leg)] /\ \A a, b \in 1 .. q : g[a] = g[b] => a = b
    BY <2>4, <2>5
  <2> HIDE DEF g
  <2>7. g \in Injection(1 .. q, Of(leg))
    BY <2>6, InjectionIs
  <2>8. QED
    BY <2>7
<1>3. pair \in Injection((1 .. q) \X FillLegs, E)
      /\ \A x \in (1 .. q) \X FillLegs : pair[x][2] = x[2]
  <2>1. ASSUME NEW leg \in FillLegs
        PROVE  /\ \A i \in 1 .. q : numbering[leg][i] \in E /\ numbering[leg][i][2] = leg
               /\ \A i, j \in 1 .. q : numbering[leg][i] = numbering[leg][j] => i = j
    <3>1. numbering[leg] \in Injection(1 .. q, Of(leg))
      BY <1>2, <2>1
    <3> HIDE DEF numbering, Of
    <3>2. /\ numbering[leg] \in [1 .. q -> Of(leg)]
          /\ \A i, j \in 1 .. q : numbering[leg][i] = numbering[leg][j] => i = j
      BY <3>1, InjectionIs
    <3>3. \A i \in 1 .. q : numbering[leg][i] \in Of(leg)
      BY <3>2
    <3>4. \A e \in Of(leg) : e \in E /\ e[2] = leg
      BY DEF Of
    <3>5. QED
      BY <3>2, <3>3, <3>4
  <2> HIDE DEF numbering, Of
  <2>2. ASSUME NEW x \in (1 .. q) \X FillLegs
        PROVE  pair[x] \in E /\ pair[x][2] = x[2]
    BY <2>1
  <2>3. ASSUME NEW x \in (1 .. q) \X FillLegs, NEW y \in (1 .. q) \X FillLegs,
               pair[x] = pair[y]
        PROVE  x = y
    <3>1. x[2] = y[2]
      BY <2>2, <2>3
    <3>2. numbering[x[2]][x[1]] = numbering[y[2]][y[1]]
      BY <2>3
    <3>3. x[1] = y[1]
      BY <2>1, <3>1, <3>2
    <3>4. QED
      BY <3>1, <3>3
  <2>4. pair \in [(1 .. q) \X FillLegs -> E]
    BY <2>2
  <2> HIDE DEF pair
  <2>5. \A x, y \in (1 .. q) \X FillLegs : pair[x] = pair[y] => x = y
    BY <2>3
  <2>6. QED
    BY <2>2, <2>4, <2>5, InjectionIs
<1> HIDE DEF pair
<1>4. QED
  BY <1>1, <1>3 DEF Pairings

\* A capture that finds every leg covered, and every execution costed, counts a total.
LEMMA CaptureStep ==
  ASSUME Cost!CostAssumption, CostInv, Cost!Capture
  PROVE  CostInv'
<1> DEFINE mine == {e \in DOMAIN reported : Cost!Belongs(e)}
           complete == Cost!Whole(mine, believed)
           mixed == \E e \in mine : ~Cost!Durable(e)
           paid == [e \in mine |-> IF reported[e] THEN Cost!Commission(e) ELSE 0]
           asked == [x \in (1 .. believed) \X FillLegs |-> Fee[x[2]]]
<1>1. /\ filled' = filled /\ believed' = believed /\ reported' = reported
      /\ evidence' = [complete |-> complete, mixed |-> mixed,
                      total |-> IF complete THEN Cost!Paid(mine) ELSE 0,
                      quantity |-> believed]
  BY Zenon DEF Cost!Capture
<1>2. /\ IsFiniteSet(FillLegs) /\ Fee \in [FillLegs -> Nat] /\ OtherFee \in Nat
      /\ filled \in Nat /\ believed \in Nat
      /\ mine \subseteq Owned(filled) \cup Others
  BY DEF Cost!CostAssumption, Cost!IsFiniteSet, IsFiniteSet, CostInv
<1>3. Cost!Paid(mine) = Total(paid) /\ Cost!Price(believed) = Total(asked)
  BY CostSums DEF Cost!Paid, Cost!Price
<1>4. complete => /\ \A leg \in FillLegs : Cardinality({e \in mine : e[2] = leg}) >= believed
                  /\ \A e \in mine : reported[e]
  BY CostSums DEF Cost!Whole, Cost!Covered, Cost!Uncosted
<1>5. ~mixed => \A e \in mine : e[3] = "own"
  BY DEF Cost!Durable
<1>6. \A e \in mine : Cost!Commission(e) = IF e[3] = "own" THEN Fee[e[2]] ELSE OtherFee
  BY DEF Cost!Commission, Cost!Durable
<1> HIDE DEF mine, complete, mixed
<1>7. ASSUME complete, ~mixed PROVE Total(asked) <= Total(paid)
  <2>1. mine \in SUBSET Owned(filled)
    <3>1. \A e \in Others : e[3] # "own"
      BY DEF Others
    <3>2. QED
      BY <1>2, <1>5, <1>7, <3>1
  <2>2. IsFiniteSet(mine) /\ Pairings(believed, mine) # {}
    BY <1>2, <1>4, <1>7, <2>1, LegsAddUp
  <2>3. PICK pair \in Injection((1 .. believed) \X FillLegs, mine) :
               \A x \in (1 .. believed) \X FillLegs : pair[x][2] = x[2]
    BY <2>2 DEF Pairings
  <2>4. asked \in [(1 .. believed) \X FillLegs -> Nat]
    BY <1>2
  <2>5. \A e \in mine : paid[e] = Fee[e[2]]
    BY <1>4, <1>5, <1>6, <1>7
  <2>6. \A e \in mine : e[2] \in FillLegs
    BY <2>1 DEF Owned
  <2>7. paid \in [mine -> Nat]
    BY <1>2, <2>5, <2>6
  <2>8. pair \in [(1 .. believed) \X FillLegs -> mine]
    BY InjectionIs
  <2>9. \A x \in (1 .. believed) \X FillLegs : asked[x] <= paid[pair[x]]
    <3>1. SUFFICES ASSUME NEW x \in (1 .. believed) \X FillLegs
                   PROVE  asked[x] <= paid[pair[x]]
      OBVIOUS
    <3>2. paid[pair[x]] = Fee[x[2]] /\ asked[x] = Fee[x[2]] /\ x[2] \in FillLegs
      BY <2>3, <2>5, <2>8
    <3>3. Fee[x[2]] \in Nat
      BY <1>2, <3>2
    <3>4. QED
      BY <3>2, <3>3
  <2> HIDE DEF asked, paid
  <2>10. QED
    BY <2>2, <2>4, <2>7, <2>9, TotalIsCarried
<1>8. evidence'.complete /\ ~evidence'.mixed =>
        evidence'.total >= Cost!Price(evidence'.quantity)
  <2>1. SUFFICES ASSUME evidence'.complete, ~evidence'.mixed
                 PROVE  evidence'.total >= Cost!Price(evidence'.quantity)
    OBVIOUS
  <2>2. complete /\ ~mixed
    BY <1>1, <2>1
  <2>3. evidence'.total = Total(paid) /\ Cost!Price(evidence'.quantity) = Total(asked)
    BY <1>1, <1>3, <2>2
  <2>4. Total(asked) <= Total(paid)
    BY <1>7, <2>2
  <2>5. QED
    BY <2>3, <2>4
<1>9. QED
  BY <1>1, <1>8 DEF CostInv

\* Every step of the fill and of its captures.
LEMMA CostStep ==
  ASSUME Cost!CostAssumption, CostInv, [Cost!Next]_Cost!vars
  PROVE  CostInv'
<1>1. CASE UNCHANGED Cost!vars
  BY <1>1 DEF Cost!vars, CostInv
<1>2. CASE Cost!Fill
  <2>1. filled' = filled + 1 /\ believed' = believed /\ reported' = reported
        /\ evidence' = evidence
    BY <1>2 DEF Cost!Fill
  <2>2. Owned(filled) \subseteq Owned(filled') /\ filled' \in Nat
        /\ believed' \in 0 .. filled'
    BY <2>1 DEF CostInv, Owned
  <2>3. QED
    BY <2>1, <2>2 DEF CostInv
<1>3. CASE Cost!Deliver
  <2>1. /\ filled' = filled /\ believed' = believed /\ evidence' = evidence
        /\ \E e \in Owned(filled) \cup Others : DOMAIN reported' = DOMAIN reported \cup {e}
    BY <1>3 DEF Cost!Deliver, Cost!Executed, Owned, Others
  <2>2. QED
    BY <2>1 DEF CostInv
<1>4. CASE Cost!Charge
  <2>1. /\ filled' = filled /\ believed' = believed /\ evidence' = evidence
        /\ DOMAIN reported' = DOMAIN reported
    BY <1>4 DEF Cost!Charge
  <2>2. QED
    BY <2>1 DEF CostInv
<1>5. CASE Cost!NextDay
  <2>1. /\ filled' = filled /\ believed' = believed /\ evidence' = evidence
        /\ DOMAIN reported' \subseteq DOMAIN reported
    BY <1>5 DEF Cost!NextDay
  <2>2. QED
    BY <2>1 DEF CostInv
<1>6. CASE Cost!Hear
  BY <1>6 DEF Cost!Hear, CostInv
<1>7. CASE Cost!Capture
  BY <1>7, CaptureStep
<1>8. QED
  BY <1>1, <1>2, <1>3, <1>4, <1>5, <1>6, <1>7 DEF Cost!Next

\* A capture that calls itself complete, and took no execution of a namesake for the
\* order's, carries at least the cost of the quantity it was asked about, for every
\* finite set of legs and their fees, order size, number of a namesake's contracts and
\* sequence of fills, reports, days and captures (executions.py).
THEOREM CompleteStaysATotal == MCSpec => []CompleteIsATotal
<1>1. Cost!CostAssumption
  BY OrdersAssumption
<1>2. MCInit => (part = "cost" => CostInv)
  BY DEF MCInit, Cost!Init, Cost!Nothing, CostInv
<1>3. (part = "cost" => CostInv) /\ [MCNext]_everything => (part = "cost" => CostInv)'
  <2>1. SUFFICES ASSUME part = "cost" => CostInv, [MCNext]_everything, part' = "cost"
                 PROVE  CostInv'
    OBVIOUS
  <2>2. part = "cost" /\ [Cost!Next]_Cost!vars
    BY <2>1 DEF MCNext, everything, fillCost, Cost!vars
  <2>3. QED
    BY <1>1, <2>1, <2>2, CostStep
<1>4. (part = "cost" => CostInv) => CompleteIsATotal
  BY DEF CompleteIsATotal, Cost!CompleteIsATotal, CostInv
<1>5. QED
  BY <1>2, <1>3, <1>4, PTL DEF MCSpec

-----------------------------------------------------------------------------
(* The quotes a decision is made on (QuoteFeed).                           *)

Price(x) == x = None \/ x \in Int

\* A snapshot says of every contract in it what the server said in this subscription.
Snapped ==
  /\ "underlying" \in DOMAIN snap /\ DOMAIN snap \subseteq Quotes!Contracts
  /\ \A c \in DOMAIN snap : /\ snap[c].type = recorder[c].type
                            /\ Price(snap[c].bid) /\ Price(snap[c].ask)
                            /\ Price(snap[c].event)

QuoteInv ==
  /\ now \in Int /\ asof \in Int
  /\ DOMAIN ticker = Quotes!Contracts
  /\ \A c \in Quotes!Contracts :
       Price(ticker[c].bid) /\ Price(ticker[c].ask) /\ Price(ticker[c].time)
  /\ phase = "judging" => Snapped
  /\ Quotes!SilenceIsNotLive /\ Quotes!ReachedIsClosed

\* A verdict is about the snapshot: what the marking report reaches at the far side of
\* the book, the management rule reaches at its middle.
LEMMA JudgeStep ==
  ASSUME Quotes!QuoteAssumption, QuoteInv, Quotes!Judge
  PROVE  Quotes!SilenceIsNotLive' /\ Quotes!ReachedIsClosed'
<1>1. /\ snap' = snap /\ recorder' = recorder /\ asof' = asof /\ Snapped /\ asof \in Int
      /\ verdict' = [report |-> Quotes!Report, decision |-> Quotes!Decision,
                     selectable |-> Quotes!Selectable]
  BY DEF Quotes!Judge, QuoteInv
<1>2. Quotes!Quoted' = Quotes!Quoted /\ Quotes!Quoted = DOMAIN snap \cap {"short", "long"}
  BY <1>1 DEF Quotes!Quoted, Quotes!Legs
<1>3. /\ verdict'.report = Quotes!Report /\ verdict'.decision = Quotes!Decision
      /\ verdict'.selectable = Quotes!Selectable
  BY <1>1
<1>4. Quotes!Report \in {"MARKED", "REACHED"}
        => /\ \A c \in Quotes!Quoted : Quotes!Current(snap[c])
           /\ Quotes!Quoted = {"short", "long"} /\ Quotes!TwoSided
           /\ ~(Quotes!Midpoint < 0)
           /\ ~Quotes!Crossed
  BY DEF Quotes!Report, Quotes!Legs
<1>5. Quotes!Report = "REACHED" => Quotes!Reached(Quotes!Natural)
  BY DEF Quotes!Report
<1>6. Quotes!Usable /\ Quotes!Reached(Quotes!Midpoint)
        => Quotes!Decision = "CLOSE_PROFIT_TARGET"
  BY DEF Quotes!Decision
<1>7. Quotes!SilenceIsNotLive'
  <2>1. SUFFICES ASSUME \/ Quotes!Report \in {"MARKED", "REACHED"}
                        \/ Quotes!Decision = "CLOSE_PROFIT_TARGET"
                        \/ Quotes!Selectable
                 PROVE  \A c \in Quotes!Quoted : recorder[c].type = "LIVE"
    BY <1>1, <1>2, <1>3 DEF Quotes!SilenceIsNotLive
  <2>2. CASE Quotes!Report \in {"MARKED", "REACHED"}
    BY <1>1, <1>2, <1>4, <2>2 DEF Quotes!Current, Snapped
  <2>3. CASE Quotes!Decision = "CLOSE_PROFIT_TARGET"
    <3>1. Quotes!Usable
      BY <2>3 DEF Quotes!Decision
    <3>2. QED
      BY <1>1, <1>2, <3>1 DEF Quotes!Usable, Snapped
  <2>4. CASE Quotes!Selectable
    BY <1>1, <1>2, <2>4 DEF Quotes!Selectable, Quotes!Current, Snapped
  <2>5. QED
    BY <2>1, <2>2, <2>3, <2>4
<1>8. Quotes!ReachedIsClosed'
  <2>1. SUFFICES ASSUME Quotes!Report = "REACHED", snap["underlying"].type = "LIVE"
                 PROVE  Quotes!Usable /\ Quotes!Reached(Quotes!Midpoint)
    BY <1>1, <1>3, <1>6 DEF Quotes!ReachedIsClosed
  <2> DEFINE short == snap["short"]
             long == snap["long"]
  <2>2. /\ Quotes!Quoted = {"short", "long"} /\ Quotes!TwoSided
        /\ Quotes!Current(short) /\ Quotes!Current(long)
        /\ ~(Quotes!Midpoint < 0) /\ ~Quotes!Crossed /\ Quotes!Reached(Quotes!Natural)
    BY <1>4, <1>5, <2>1
  <2>3. /\ short.bid \in Int /\ short.ask \in Int /\ long.bid \in Int /\ long.ask \in Int
        /\ short.event \in Int /\ long.event \in Int
        /\ short.event # None /\ long.event # None
    <3>1. {"short", "long"} \subseteq DOMAIN snap
      BY <1>2, <2>2
    <3>2. QED
      BY <1>1, <2>2, <3>1 DEF Snapped, Price, Quotes!TwoSided, Quotes!Current, Quotes!Legs
  <2>4. Quotes!Midpoint \in Int /\ Quotes!Natural \in Int /\ ProfitTarget \in Int /\ MaxAge \in Int
    BY <2>3 DEF Quotes!Midpoint, Quotes!Natural, Quotes!QuoteAssumption
  <2>5. Quotes!Midpoint >= 0 /\ Quotes!Reached(Quotes!Midpoint)
    BY <2>2, <2>4 DEF Quotes!Crossed, Quotes!Reached
  <2>6. Quotes!Events = {short.event, long.event}
    BY <2>2, <2>3 DEF Quotes!Events
  <2>7. Quotes!Max(Quotes!Events) \in Quotes!Events
    <3>1. \E x \in Quotes!Events : \A y \in Quotes!Events : x >= y
      <4>1. CASE short.event >= long.event
        BY <2>3, <2>6, <4>1
      <4>2. CASE ~(short.event >= long.event)
        BY <2>3, <2>6, <4>2
      <4>3. QED
        BY <4>1, <4>2
    <3>2. QED
      BY <3>1 DEF Quotes!Max
  <2>8. asof - Quotes!Max(Quotes!Events) <= MaxAge
    BY <2>2, <2>6, <2>7 DEF Quotes!Current
  <2>9. \A c \in DOMAIN snap : snap[c].type = "LIVE"
    BY <1>1, <2>1, <2>2 DEF Snapped, Quotes!Contracts, Quotes!Legs, Quotes!Current
  <2>10. QED
    BY <2>2, <2>5, <2>6, <2>8, <2>9 DEF Quotes!Usable, Quotes!HasMark
<1>9. QED
  BY <1>7, <1>8

\* Every step of the feed, of the adapter and of the readers.
LEMMA QuoteStep ==
  ASSUME Quotes!QuoteAssumption, QuoteInv, [Quotes!Next]_Quotes!vars
  PROVE  QuoteInv'
<1>1. CASE UNCHANGED Quotes!vars
  BY <1>1 DEF Quotes!vars, QuoteInv, Snapped, Quotes!SilenceIsNotLive, Quotes!ReachedIsClosed,
     Quotes!Judged, Quotes!Quoted
<1> DEFINE Unjudged == phase' # "idle" \/ verdict' = None
<1>2. ASSUME Unjudged PROVE Quotes!SilenceIsNotLive' /\ Quotes!ReachedIsClosed'
  BY <1>2 DEF Quotes!SilenceIsNotLive, Quotes!ReachedIsClosed, Quotes!Judged
<1>3. CASE Quotes!Advance
  BY <1>3 DEF Quotes!Advance, QuoteInv, Snapped, Quotes!SilenceIsNotLive,
     Quotes!ReachedIsClosed, Quotes!Judged, Quotes!Quoted
<1>4. CASE Quotes!BeginPass \/ Quotes!Subscribe
  <2>1. Unjudged
    BY <1>4 DEF Quotes!BeginPass, Quotes!Subscribe
  <2>2. QED
    BY <1>2, <1>4, <2>1 DEF Quotes!BeginPass, Quotes!Subscribe, QuoteInv
<1>5. ASSUME NEW c \in Quotes!Contracts, NEW quote, Price(quote.bid), Price(quote.ask),
             Quotes!Quote(c, quote)
      PROVE  QuoteInv'
  <2>1. Unjudged /\ phase' # "judging" /\ now' = now /\ asof' = asof
    BY <1>5 DEF Quotes!Quote, Quotes!Heard
  <2>2. ticker' = [ticker EXCEPT ![c] = [@ EXCEPT !.bid = quote.bid, !.ask = quote.ask,
                                                  !.time = now]]
    BY <1>5 DEF Quotes!Quote
  <2>3. DOMAIN ticker' = Quotes!Contracts
        /\ \A d \in Quotes!Contracts :
             Price(ticker'[d].bid) /\ Price(ticker'[d].ask) /\ Price(ticker'[d].time)
    BY <1>5, <2>2 DEF QuoteInv, Price
  <2>4. QED
    BY <1>2, <2>1, <2>3 DEF QuoteInv
<1>6. ASSUME NEW c \in Quotes!Contracts,
             \/ \E type \in {"LIVE", "DELAYED"} : Quotes!DataType(c, type)
             \/ Quotes!Model(c)
             \/ Quotes!OtherComputation(c)
      PROVE  QuoteInv'
  <2>1. Unjudged /\ phase' # "judging" /\ now' = now /\ asof' = asof
    BY <1>6 DEF Quotes!DataType, Quotes!Model, Quotes!OtherComputation, Quotes!Heard
  <2>2. DOMAIN ticker' = Quotes!Contracts
        /\ \A d \in Quotes!Contracts : /\ ticker'[d].bid = ticker[d].bid
                                       /\ ticker'[d].ask = ticker[d].ask
                                       /\ ticker'[d].time = ticker[d].time
    <3>1. CASE \E type \in {"LIVE", "DELAYED"} : Quotes!DataType(c, type)
      BY <3>1 DEF Quotes!DataType, QuoteInv
    <3>2. CASE Quotes!Model(c)
      BY <3>2 DEF Quotes!Model, QuoteInv
    <3>3. CASE Quotes!OtherComputation(c)
      BY <3>3 DEF Quotes!OtherComputation, QuoteInv
    <3>4. QED
      BY <1>6, <3>1, <3>2, <3>3
  <2>3. QED
    BY <1>2, <2>1, <2>2 DEF QuoteInv
<1>7. CASE Quotes!Settle
  <2>1. Unjudged /\ phase' = "judging" /\ now' = now /\ asof' = asof /\ ticker' = ticker
        /\ recorder' = recorder
    BY <1>7 DEF Quotes!Settle
  <2>2. PICK qualified \in SUBSET Quotes!Legs :
          snap' = [c \in qualified \cup {"underlying"} |->
                     [bid |-> ticker[c].bid, ask |-> ticker[c].ask, event |-> ticker[c].time,
                      type |-> Quotes!Reported(c), greeks |-> Quotes!Greeks(c) # None]]
    BY <1>7 DEF Quotes!Settle
  <2>3. qualified \cup {"underlying"} \subseteq Quotes!Contracts
    BY DEF Quotes!Contracts
  <2>4. Snapped'
    BY <2>1, <2>2, <2>3 DEF Snapped, QuoteInv, Quotes!Reported
  <2>5. QED
    BY <1>2, <2>1, <2>4 DEF QuoteInv
<1>8. CASE Quotes!Judge
  <2>1. now' = now /\ asof' = asof /\ ticker' = ticker /\ phase' # "judging"
    BY <1>8 DEF Quotes!Judge
  <2>2. QED
    BY <1>8, <2>1, JudgeStep DEF QuoteInv
<1>9. CASE Quotes!Next
  <2>1. /\ \A quote \in ShortBooks \cup LongBooks : Price(quote.bid) /\ Price(quote.ask)
        /\ Price([bid |-> None, ask |-> None].bid) /\ Price([bid |-> None, ask |-> None].ask)
    BY DEF Quotes!QuoteAssumption, Price
  <2>2. {"short", "long", "underlying"} \subseteq Quotes!Contracts
        /\ Quotes!Legs \subseteq Quotes!Contracts
    BY DEF Quotes!Contracts, Quotes!Legs
  <2>3. CASE \/ \E quote \in ShortBooks : Quotes!Quote("short", quote)
             \/ \E quote \in LongBooks : Quotes!Quote("long", quote)
             \/ Quotes!Quote("underlying", [bid |-> None, ask |-> None])
    BY <1>5, <2>1, <2>2, <2>3
  <2>4. QED
    BY <1>3, <1>4, <1>6, <1>7, <1>8, <1>9, <2>2, <2>3 DEF Quotes!Next
<1>10. QED
  BY <1>1, <1>9

\* The readers of a snapshot judge on what the server itself said in this subscription,
\* and a target that the report calls reached is closed, for every set of books, target,
\* age limit and clock (marketdata.py, marking.py, runner.py).
THEOREM QuotesStayHonoured == MCSpec => []QuotesAreHonoured
<1>1. Quotes!QuoteAssumption
  BY OrdersAssumption
<1>2. MCInit => (part = "quotes" => QuoteInv)
  BY DEF MCInit, Quotes!Init, QuoteInv, Price, Quotes!SilenceIsNotLive,
     Quotes!ReachedIsClosed, Quotes!Judged
<1>3. (part = "quotes" => QuoteInv) /\ [MCNext]_everything => (part = "quotes" => QuoteInv)'
  <2>1. SUFFICES ASSUME part = "quotes" => QuoteInv, [MCNext]_everything, part' = "quotes"
                 PROVE  QuoteInv'
    OBVIOUS
  <2>2. part = "quotes" /\ [Quotes!Next]_Quotes!vars
    BY <2>1 DEF MCNext, everything, quoteFeed, Quotes!vars
  <2>3. QED
    BY <1>1, <2>1, <2>2, QuoteStep
<1>4. (part = "quotes" => QuoteInv) => QuotesAreHonoured
  BY DEF QuotesAreHonoured, Quotes!QuotesAreHonoured, QuoteInv
<1>5. QED
  BY <1>2, <1>3, <1>4, PTL DEF MCSpec

-----------------------------------------------------------------------------
(* The exits of a position (ClosingBook).                                  *)

Position ==
  [state : Closing!Live \cup {"CLOSED"}, filled : 1 .. ExitSize, closed : Nat, id : Nat]
CloseOrder == [quantity : Nat, filled : Nat, status : {"silent", "working", "dead"}]
CloseEvent ==
  [kind : {"CLOSE_ACKNOWLEDGED"}, id : Nat] \cup [kind : {"CLOSE_PARTIAL"}, filled : Nat]
  \cup [kind : {"CLOSE_SUBMITTED", "CLOSE_UNCERTAIN", "CLOSE_FAILED", "CLOSE_FILLED"}]

Sold(xs) == Total([i \in DOMAIN xs |-> xs[i].filled])
Void(x) == x.status = "dead" /\ x.filled = 0
AllVoid(xs) == \A i \in 1 .. Len(xs) : Void(xs[i])

\* What an event that is still to be written says of the market has happened there.
Founded(e, xs, held, doubt) ==
  /\ e.kind = "CLOSE_PARTIAL" => e.filled <= Sold(xs)
  /\ e.kind = "CLOSE_FILLED" => held <= Sold(xs)
  /\ e.kind = "CLOSE_FAILED" => doubt \/ AllVoid(xs)

\* Every closing order is for contracts the book holds.
ExitTypes ==
  /\ position \in Position
  /\ opening \in [quantity : Nat, filled : Nat, status : {"working", "dead"}]
  /\ position.filled <= opening.filled
  /\ exits \in Seq(CloseOrder)
  /\ \A i \in 1 .. Len(exits) : /\ exits[i].filled <= exits[i].quantity
                                /\ exits[i].quantity <= position.filled
  /\ left \in Seq(CloseEvent) /\ (manager # "filing" => left = <<>>)
  /\ known.filled \in Nat /\ size \in Nat
  /\ manager \in {"idle", "managing", "sending", "polling", "filing"}

\* What the book and the pass believe to be sold is.
BookFollows ==
  /\ position.closed <= Sold(exits)
  /\ known.filled <= Sold(exits)
  /\ position.state = "CLOSED" => position.filled <= Sold(exits)
  /\ \A i \in 1 .. Len(left) : Founded(left[i], exits, position.filled, doubted)

\* An exit that fills in full closes the position with what was sold before it.
ExitsSuffice ==
  /\ manager = "sending" => /\ position.state = "CLOSING"
                            /\ size \in 1 .. position.filled
                            /\ position.filled <= size + Sold(exits)
  /\ manager \in {"polling", "filing"} =>
       /\ Len(exits) > 0
       /\ position.filled + exits[Len(exits)].filled
            <= Sold(exits) + exits[Len(exits)].quantity

\* While no close was wrongly recorded as failed, another is sent only when those
\* before it are dead without a fill.
OneExitLives ==
  ~doubted => /\ \A i \in 1 .. Len(exits) - 1 : Void(exits[i])
              /\ position.state = "OPEN" \/ manager = "sending" => AllVoid(exits)

ExitInv == ExitTypes /\ BookFollows /\ ExitsSuffice /\ OneExitLives

\* An instance sums as Totals does.
LEMMA ClosingSums ==
  /\ \A f : Closing!Total(f) = Total(f)
  /\ Closing!ExitsFilled = Sold(exits)
<1>1. \A S : Closing!Cardinality(S) = Cardinality(S)
  BY DEF Cardinality, Closing!Cardinality
<1>2. \A f : Closing!Total(f) = Total(f)
  BY <1>1 DEF Closing!Total, Closing!Units, Total, Units
<1>3. Closing!ExitsFilled = Closing!Total([i \in DOMAIN exits |-> exits[i].filled])
  BY Zenon DEF Closing!ExitsFilled
<1>4. Closing!ExitsFilled = Sold(exits)
  <2> DEFINE f == [i \in DOMAIN exits |-> exits[i].filled]
  <2>1. Sold(exits) = Total(f) /\ Closing!ExitsFilled = Closing!Total(f)
    BY <1>3 DEF Sold
  <2> HIDE DEF f
  <2>2. QED
    BY <1>2, <2>1
<1>5. QED
  BY <1>2, <1>4

\* What the exits have sold is a number, and no single one sold more.
LEMMA SoldIsNumber ==
  ASSUME NEW xs \in Seq(CloseOrder)
  PROVE  /\ Sold(xs) \in Nat
         /\ \A i \in 1 .. Len(xs) : xs[i].filled \in Nat /\ xs[i].filled <= Sold(xs)
<1> DEFINE f == [i \in 1 .. Len(xs) |-> xs[i].filled]
<1>1. IsFiniteSet(1 .. Len(xs)) /\ f \in [1 .. Len(xs) -> Nat] /\ Sold(xs) = Total(f)
  <2>1. IsFiniteSet(1 .. Len(xs))
    BY FS_Interval
  <2>2. \A i \in 1 .. Len(xs) : xs[i].filled \in Nat
    <3>1. \A i \in 1 .. Len(xs) : xs[i] \in CloseOrder
      OBVIOUS
    <3>2. QED
      BY <3>1 DEF CloseOrder
  <2>3. DOMAIN xs = 1 .. Len(xs)
    OBVIOUS
  <2>4. QED
    BY <2>1, <2>2, <2>3 DEF Sold
<1>2. \A i \in 1 .. Len(xs) : f[i] = xs[i].filled
  OBVIOUS
<1> HIDE DEF f
<1>3. QED
  BY <1>1, <1>2, TotalIsNumber, TermIsWithin

\* An exit that is sent has sold nothing.
LEMMA SoldByAnother ==
  ASSUME NEW xs \in Seq(CloseOrder), NEW x \in CloseOrder, x.filled = 0
  PROVE  Sold(Append(xs, x)) = Sold(xs)
<1> DEFINE n == Len(xs)
           ys == Append(xs, x)
           f == [i \in 1 .. n |-> xs[i].filled]
           g == [i \in 1 .. n + 1 |-> ys[i].filled]
<1>1. /\ n \in Nat /\ DOMAIN xs = 1 .. n /\ DOMAIN ys = 1 .. n + 1
      /\ \A i \in 1 .. n : ys[i] = xs[i]
      /\ ys[n + 1] = x
  OBVIOUS
<1>2. \A i \in 1 .. n : xs[i] \in CloseOrder
  OBVIOUS
<1> HIDE DEF n, ys
<1>3. f \in [1 .. n -> Nat] /\ Sold(xs) = Total(f)
  BY <1>1, <1>2 DEF Sold, CloseOrder
<1>4. \A i \in 1 .. n + 1 : g[i] \in Nat
  <2>1. TAKE i \in 1 .. n + 1
  <2>2. CASE i = n + 1
    BY <1>1, <2>2
  <2>3. CASE i \in 1 .. n
    BY <1>1, <1>2, <2>3 DEF CloseOrder
  <2>4. QED
    BY <1>1, <2>2, <2>3
<1>5. g \in [1 .. n + 1 -> Nat] /\ Sold(ys) = Total(g)
  BY <1>1, <1>4 DEF Sold
<1>6. (\A i \in 1 .. n : g[i] = f[i]) /\ g[n + 1] = 0
  BY <1>1
<1>7. Total(f) \in Nat
  BY <1>1, <1>2, <1>3, SoldIsNumber DEF n
<1> HIDE DEF f, g
<1>8. Total(g) = Total(f) + g[n + 1]
  BY <1>1, <1>3, <1>5, <1>6, TotalOfAppended
<1>9. Sold(ys) = Sold(xs)
  BY <1>3, <1>5, <1>6, <1>7, <1>8
<1>10. QED
  BY <1>9 DEF ys

\* When one exit sells, all of them have sold as much more.
LEMMA SoldByOne ==
  ASSUME NEW xs \in Seq(CloseOrder), NEW i \in 1 .. Len(xs), NEW x \in CloseOrder
  PROVE  Sold([xs EXCEPT ![i] = x]) + xs[i].filled = Sold(xs) + x.filled
<1> DEFINE n == Len(xs)
           ys == [xs EXCEPT ![i] = x]
           f == [k \in 1 .. n |-> xs[k].filled]
           g == [k \in 1 .. n |-> ys[k].filled]
<1>1. /\ n \in Nat /\ DOMAIN xs = 1 .. n /\ DOMAIN ys = 1 .. n
      /\ \A k \in 1 .. n : xs[k] \in CloseOrder /\ ys[k] \in CloseOrder
      /\ \A k \in 1 .. n : k # i => ys[k] = xs[k]
      /\ ys[i] = x /\ i \in 1 .. n
  OBVIOUS
<1> HIDE DEF n, ys
<1>2. f \in [1 .. n -> Nat] /\ Sold(xs) = Total(f)
  BY <1>1 DEF Sold, CloseOrder
<1>3. g \in [1 .. n -> Nat] /\ Sold(ys) = Total(g)
  BY <1>1 DEF Sold, CloseOrder
<1>4. \A k \in 1 .. n : k # i => g[k] = f[k]
  BY <1>1
<1>5. f[i] = xs[i].filled /\ g[i] = x.filled
  BY <1>1
<1>6. IsFiniteSet(1 .. n) /\ i \in 1 .. n
  BY <1>1, FS_Interval
<1>7. Total(g) + f[i] = Total(f) + g[i]
  <2> DEFINE S == 1 .. n
  <2>1. DifferAt(i, S, f, g)
    BY <1>2, <1>3, <1>4, <1>6 DEF DifferAt
  <2> HIDE DEF f, g, S
  <2>2. QED
    BY <2>1, TotalsDiffer
<1> HIDE DEF f, g
<1>8. Sold(ys) + xs[i].filled = Sold(xs) + x.filled
  BY <1>2, <1>3, <1>5, <1>7
<1>9. QED
  BY <1>8 DEF ys

\* A replayed event moves the state and the count of a position, never what it holds.
LEMMA ReplayIs ==
  ASSUME NEW p \in Position, NEW e \in CloseEvent
  PROVE  /\ Closing!Replay(p, e) \in Position
         /\ Closing!Replay(p, e).filled = p.filled
         /\ Closing!Replay(p, e).closed \in
              {p.closed} \cup (IF e.kind = "CLOSE_PARTIAL" THEN {e.filled} ELSE {})
                         \cup (IF e.kind = "CLOSE_FILLED" THEN {p.filled} ELSE {})
         /\ Closing!Replay(p, e).state = "CLOSED" => e.kind = "CLOSE_FILLED" \/ p.state = "CLOSED"
         /\ Closing!Replay(p, e).state = "OPEN" => e.kind = "CLOSE_FAILED" \/ p.state = "OPEN"
         /\ e.kind = "CLOSE_SUBMITTED" => Closing!Replay(p, e).state = "CLOSING"
<1> DEFINE r == Closing!Replay(p, e)
<1>1. PICK state \in Closing!Live \cup {"CLOSED"}, held \in 1 .. ExitSize, gone \in Nat,
           id \in Nat : p = [state |-> state, filled |-> held, closed |-> gone, id |-> id]
  BY DEF Position
<1>2. \A a, b : Closing!Larger(a, b) \in {a, b}
  BY DEF Closing!Larger
<1>3. p.closed = gone /\ p.filled = held /\ p.state = state /\ p.id = id
  BY <1>1
<1>4. {"CLOSING", "UNCERTAIN", "OPEN"} \subseteq Closing!Live
  BY DEF Closing!Live
<1>5. e.kind \in {"CLOSE_ACKNOWLEDGED", "CLOSE_PARTIAL", "CLOSE_SUBMITTED", "CLOSE_UNCERTAIN",
                  "CLOSE_FAILED", "CLOSE_FILLED"}
  BY DEF CloseEvent
<1>6. CASE e.kind \in {"CLOSE_SUBMITTED", "CLOSE_UNCERTAIN", "CLOSE_FAILED"}
  <2> DEFINE s == IF e.kind = "CLOSE_SUBMITTED" THEN "CLOSING"
                  ELSE IF e.kind = "CLOSE_UNCERTAIN" THEN "UNCERTAIN" ELSE "OPEN"
  <2>1. r = [p EXCEPT !.state = s]
    BY <1>6 DEF Closing!Replay
  <2>2. r = [state |-> s, filled |-> held, closed |-> gone, id |-> id]
    <3> HIDE DEF s, r
    <3>1. QED
      BY <1>1, <2>1
  <2>3. s \in Closing!Live
    BY <1>4
  <2>4. r \in Position
    <3> HIDE DEF s, r
    <3>1. QED
      BY <2>2, <2>3 DEF Position
  <2>5. r.state = s /\ r.filled = held /\ r.closed = gone
    <3> HIDE DEF s, r
    <3>1. QED
      BY <2>2
  <2>6. QED
    BY <1>3, <1>6, <2>4, <2>5
<1>7. CASE e.kind = "CLOSE_ACKNOWLEDGED"
  <2>1. e.id \in Nat
    BY <1>7 DEF CloseEvent
  <2>2. r = [p EXCEPT !.id = e.id]
    BY <1>7 DEF Closing!Replay
  <2>3. r = [state |-> state, filled |-> held, closed |-> gone, id |-> e.id]
    <3> HIDE DEF r
    <3>1. QED
      BY <1>1, <2>2
  <2>4. r \in Position /\ r.state = state /\ r.filled = held /\ r.closed = gone
    <3> HIDE DEF r
    <3>1. QED
      BY <2>1, <2>3 DEF Position
  <2>5. QED
    BY <1>3, <1>7, <2>4
<1>8. CASE e.kind \in {"CLOSE_PARTIAL", "CLOSE_FILLED"}
  <2> DEFINE f == IF e.kind = "CLOSE_PARTIAL" THEN e.filled ELSE held
             s == IF e.kind = "CLOSE_PARTIAL" THEN "CLOSING" ELSE "CLOSED"
             l == Closing!Larger(gone, f)
  <2>1. f \in Nat
    BY <1>8 DEF CloseEvent
  <2>2. r = [p EXCEPT !.state = s, !.closed = l]
    BY <1>1, <1>3, <1>8 DEF Closing!Replay
  <2>3. l \in {gone, f}
    BY <1>2
  <2>4. r = [state |-> s, filled |-> held, closed |-> l, id |-> id]
    <3> HIDE DEF r, s, l
    <3>1. QED
      BY <1>1, <2>2
  <2>5. s \in Closing!Live \cup {"CLOSED"} /\ l \in Nat
    BY <1>4, <2>1, <2>3
  <2>6. r \in Position /\ r.state = s /\ r.filled = held /\ r.closed = l
    <3> HIDE DEF r, s, l
    <3>1. QED
      BY <2>4, <2>5 DEF Position
  <2>7. QED
    BY <1>3, <1>8, <2>3, <2>6
<1>9. QED
  BY <1>5, <1>6, <1>7, <1>8

\* An event that is founded leaves the book behind the market.
LEMMA BookStep ==
  ASSUME ExitInv, NEW e \in CloseEvent, NEW doubt, Founded(e, exits, position.filled, doubt),
         position' = Closing!Replay(position, e)
  PROVE  /\ position' \in Position /\ position'.filled = position.filled
         /\ position'.closed <= Sold(exits)
         /\ position'.state = "CLOSED" => position.filled <= Sold(exits)
         /\ position'.state = "OPEN" => position.state = "OPEN" \/ doubt \/ AllVoid(exits)
         /\ e.kind = "CLOSE_SUBMITTED" => position'.state = "CLOSING"
<1>1. position \in Position /\ position.closed <= Sold(exits)
      /\ (position.state = "CLOSED" => position.filled <= Sold(exits))
  BY DEF ExitInv, ExitTypes, BookFollows
<1>2. position' \in Position /\ position'.filled = position.filled
  BY <1>1, ReplayIs
<1>3. position'.closed \in
              {position.closed} \cup (IF e.kind = "CLOSE_PARTIAL" THEN {e.filled} ELSE {})
                         \cup (IF e.kind = "CLOSE_FILLED" THEN {position.filled} ELSE {})
  BY <1>1, ReplayIs
<1>4. /\ position'.state = "CLOSED" => e.kind = "CLOSE_FILLED" \/ position.state = "CLOSED"
      /\ position'.state = "OPEN" => e.kind = "CLOSE_FAILED" \/ position.state = "OPEN"
      /\ e.kind = "CLOSE_SUBMITTED" => position'.state = "CLOSING"
  BY <1>1, ReplayIs
<1>5. position'.closed <= Sold(exits)
  BY <1>1, <1>3 DEF Founded
<1>6. QED
  BY <1>1, <1>2, <1>4, <1>5 DEF Founded

\* The broker hears of an exit, fills a contract of it or ends it.
LEMMA OneExitMoves ==
  ASSUME ExitInv, NEW i \in 1 .. Len(exits), NEW x \in CloseOrder,
         x.quantity = exits[i].quantity, exits[i].filled <= x.filled, x.filled <= x.quantity,
         Void(exits[i]) => Void(x), exits' = [exits EXCEPT ![i] = x],
         UNCHANGED <<position, opening, manager, size, known, left, doubted>>
  PROVE  ExitInv'
<1> DEFINE n == Len(exits)
<1>1. exits \in Seq(CloseOrder)
  BY DEF ExitInv, ExitTypes
<1>2. /\ n \in Nat /\ i \in 1 .. n
      /\ exits' \in Seq(CloseOrder) /\ Len(exits') = n /\ exits'[i] = x
      /\ \A k \in 1 .. n : k # i => exits'[k] = exits[k]
      /\ \A k \in 1 .. n : exits[k] \in CloseOrder
  BY <1>1
<1>3. Sold(exits') + exits[i].filled = Sold(exits) + x.filled
  BY <1>1, SoldByOne
<1>4. Sold(exits) \in Nat /\ Sold(exits') \in Nat /\ exits[i].filled \in Nat /\ x.filled \in Nat
  BY <1>1, <1>2, SoldIsNumber DEF CloseOrder
<1>5. Sold(exits) <= Sold(exits')
  <2>1. ASSUME NEW a \in Nat, NEW b \in Nat, NEW c \in Nat, NEW d \in Nat, b + c = a + d, c <= d
        PROVE  a <= b
    BY <2>1
  <2>2. QED
    BY <1>3, <1>4, <2>1
<1> HIDE DEF n
<1>6. AllVoid(exits) => AllVoid(exits')
  BY <1>2 DEF AllVoid, n
<1>7. ExitTypes'
  <2>1. \A k \in 1 .. n : /\ exits'[k].filled <= exits'[k].quantity
                          /\ exits'[k].quantity <= position.filled
    BY <1>2 DEF ExitInv, ExitTypes, n
  <2>2. QED
    BY <1>2, <2>1 DEF ExitInv, ExitTypes
<1>8. BookFollows'
  <2>1. ASSUME NEW a \in Int, a <= Sold(exits)
        PROVE  a <= Sold(exits')
    BY <1>4, <1>5, <2>1
  <2>2. position.closed \in Int /\ known.filled \in Int /\ position.filled \in Int
        /\ position \in Position /\ left \in Seq(CloseEvent)
    BY DEF ExitInv, ExitTypes, Position
  <2>3. /\ position.closed <= Sold(exits') /\ known.filled <= Sold(exits')
        /\ position.state = "CLOSED" => position.filled <= Sold(exits')
    BY <2>1, <2>2 DEF ExitInv, BookFollows
  <2>4. ASSUME NEW k \in 1 .. Len(left)
        PROVE  Founded(left[k], exits', position.filled, doubted)
    <3>1. Founded(left[k], exits, position.filled, doubted)
      BY DEF ExitInv, BookFollows
    <3>2. left[k] \in CloseEvent
      BY <2>2
    <3>3. left[k].kind = "CLOSE_PARTIAL" => left[k].filled \in Int
      BY <3>2 DEF CloseEvent
    <3>4. QED
      BY <1>6, <2>1, <2>2, <3>1, <3>3 DEF Founded
  <2>5. QED
    BY <2>3, <2>4 DEF BookFollows
<1>9. ExitsSuffice'
  <2>1. ASSUME manager = "sending"
        PROVE  /\ position.state = "CLOSING"
               /\ size \in 1 .. position.filled /\ position.filled <= size + Sold(exits')
    <3>1. /\ position.state = "CLOSING" /\ size \in 1 .. position.filled
          /\ position.filled <= size + Sold(exits)
          /\ position.filled \in Int
      BY <2>1 DEF ExitInv, ExitsSuffice, ExitTypes, Position
    <3>2. QED
      BY <1>4, <1>5, <3>1
  <2>2. ASSUME manager \in {"polling", "filing"}
        PROVE  /\ n > 0
               /\ position.filled + exits'[n].filled <= Sold(exits') + exits'[n].quantity
    <3>1. /\ n > 0 /\ position.filled \in Nat
          /\ position.filled + exits[n].filled <= Sold(exits) + exits[n].quantity
      BY <2>2 DEF ExitInv, ExitsSuffice, ExitTypes, Position, n
    <3>2. exits[n].filled \in Nat /\ exits[n].quantity \in Nat /\ n \in 1 .. n
      BY <1>2, <3>1 DEF CloseOrder
    <3>3. ASSUME NEW a \in Nat, NEW s \in Nat, NEW t \in Nat, NEW f \in Nat, NEW f2 \in Nat,
                 NEW q \in Nat, t + f = s + f2, a + f <= s + q
          PROVE  a + f2 <= t + q
      BY <3>3
    <3>4. CASE i = n
      BY <1>2, <1>3, <1>4, <3>1, <3>2, <3>3, <3>4
    <3>5. CASE i # n
      <4>1. exits'[n] = exits[n]
        BY <1>2, <3>2, <3>5
      <4>2. ASSUME NEW a \in Nat, NEW s \in Nat, NEW t \in Nat, NEW f \in Nat, NEW q \in Nat,
                   s <= t, a + f <= s + q
            PROVE  a + f <= t + q
        BY <4>2
      <4>3. QED
        BY <1>4, <1>5, <3>1, <3>2, <4>1, <4>2
    <3>6. QED
      BY <3>1, <3>4, <3>5
  <2>3. QED
    BY <1>2, <2>1, <2>2 DEF ExitsSuffice
<1>10. OneExitLives'
  BY <1>2, <1>6 DEF ExitInv, OneExitLives, n
<1>11. QED
  BY <1>7, <1>8, <1>9, <1>10 DEF ExitInv
\* What a poll shows of an order is no more than happened to it.
LEMMA ViewIs ==
  ASSUME NEW x \in CloseOrder, NEW n \in Nat, NEW last, NEW gone,
         NEW seen \in Closing!Views(x, n, last, gone)
  PROVE  /\ seen.filled \in Nat /\ seen.filled <= x.filled /\ seen.id = n
         /\ seen.state = "FILLED" => x.filled = x.quantity
         /\ seen.state = "CANCELLED" => x.status = "dead" /\ seen.filled = x.filled
<1>1. x.filled \in Nat
  BY DEF CloseOrder
<1>2. \/ seen = [state |-> "UNKNOWN", filled |-> x.filled, id |-> n]
      \/ \E s \in {"TIMED_OUT", "UNKNOWN"} : seen = [state |-> s, filled |-> 0, id |-> n]
      \/ x.filled = x.quantity /\ seen = [state |-> "FILLED", filled |-> x.filled, id |-> n]
      \/ x.status = "dead" /\ seen = [state |-> "CANCELLED", filled |-> x.filled, id |-> n]
      \/ \E m \in 0 .. x.filled, s \in {"ACKNOWLEDGED", "PARTIALLY_FILLED"} :
           seen = [state |-> s, filled |-> m, id |-> n]
  BY DEF Closing!Views
<1>3. QED
  BY <1>1, <1>2

\* A poll files only what is founded.
LEMMA FilingsAreFounded ==
  ASSUME ExitInv, manager = "polling", NEW last, NEW gone,
         NEW seen \in Closing!Views(exits[Len(exits)], Len(exits), last, gone),
         NEW priced \in BOOLEAN
  PROVE  /\ Closing!Filings(known, seen, priced) \in
              Seq({e \in CloseEvent : Founded(e, exits, position.filled, doubted)})
         /\ Closing!Larger(known.filled, seen.filled) \in Nat
         /\ Closing!Larger(known.filled, seen.filled) <= Sold(exits)
<1> DEFINE n == Len(exits)
           Good == {e \in CloseEvent : Founded(e, exits, position.filled, doubted)}
<1>1. /\ exits \in Seq(CloseOrder) /\ n \in Nat /\ n > 0 /\ position.filled \in Nat
      /\ known.filled \in Nat /\ known.filled <= Sold(exits)
      /\ position.filled + exits[n].filled <= Sold(exits) + exits[n].quantity
  BY DEF ExitInv, ExitTypes, ExitsSuffice, BookFollows, Position
<1>2. /\ exits[n] \in CloseOrder /\ exits[n].filled \in Nat /\ exits[n].quantity \in Nat
      /\ exits[n].filled <= Sold(exits) /\ Sold(exits) \in Nat
  <2>1. n \in 1 .. n /\ exits[n] \in CloseOrder
    BY <1>1
  <2>2. QED
    BY <1>1, <2>1, SoldIsNumber DEF CloseOrder
<1>3. /\ seen.filled \in Nat /\ seen.filled <= exits[n].filled /\ seen.id = n
      /\ seen.state = "FILLED" => exits[n].filled = exits[n].quantity
      /\ seen.state = "CANCELLED" => exits[n].status = "dead" /\ seen.filled = exits[n].filled
  BY <1>1, <1>2, ViewIs
<1>4. seen.filled <= Sold(exits)
  BY <1>2, <1>3
<1>5. [kind |-> "CLOSE_ACKNOWLEDGED", id |-> seen.id] \in Good
  <2>1. seen.id \in Nat
    BY <1>1, <1>3
  <2>2. QED
    BY <2>1 DEF CloseEvent, Founded
<1>6. Closing!FillEvent(seen, priced) \in Good
  <2>1. CASE seen.state = "FILLED" /\ priced
    <3>1. position.filled <= Sold(exits)
      BY <1>1, <1>2, <1>3, <2>1
    <3>2. [kind |-> "CLOSE_FILLED"] \in Good
      BY <3>1 DEF CloseEvent, Founded
    <3>3. Closing!FillEvent(seen, priced) = [kind |-> "CLOSE_FILLED"]
      BY <2>1 DEF Closing!FillEvent
    <3>4. QED
      BY <3>2, <3>3
  <2>2. CASE ~(seen.state = "FILLED" /\ priced)
    <3>1. [kind |-> "CLOSE_PARTIAL", filled |-> seen.filled] \in Good
      BY <1>3, <1>4 DEF CloseEvent, Founded
    <3>2. Closing!FillEvent(seen, priced) = [kind |-> "CLOSE_PARTIAL", filled |-> seen.filled]
      BY <2>2 DEF Closing!FillEvent
    <3>3. QED
      BY <3>1, <3>2
  <2>3. QED
    BY <2>1, <2>2
<1>7. [kind |-> "CLOSE_UNCERTAIN"] \in Good
  BY DEF CloseEvent, Founded
<1>8. ASSUME seen.state = "CANCELLED", Closing!Larger(known.filled, seen.filled) = 0
      PROVE  [kind |-> "CLOSE_FAILED"] \in Good
  <2>1. seen.filled = 0
    BY <1>1, <1>3, <1>8 DEF Closing!Larger
  <2>2. Void(exits[n])
    BY <1>3, <1>8, <2>1 DEF Void
  <2>3. ~doubted => AllVoid(exits)
    <3>1. ~doubted => \A i \in 1 .. n - 1 : Void(exits[i])
      BY DEF ExitInv, OneExitLives
    <3>2. \A i \in 1 .. n : i = n \/ i \in 1 .. n - 1
      BY <1>1
    <3>3. QED
      BY <2>2, <3>1, <3>2 DEF AllVoid
  <2>4. QED
    BY <2>3 DEF CloseEvent, Founded
<1> HIDE DEF Good, n
<1> DEFINE A == IF seen.id # known.id
                THEN <<[kind |-> "CLOSE_ACKNOWLEDGED", id |-> seen.id]>> ELSE <<>>
           B == IF seen.filled > known.filled THEN <<Closing!FillEvent(seen, priced)>> ELSE <<>>
           C == IF known.state = seen.state THEN <<>>
                ELSE IF Closing!Unsure(seen.state) THEN <<[kind |-> "CLOSE_UNCERTAIN"]>>
                ELSE IF seen.state = "CANCELLED"
                          /\ Closing!Larger(known.filled, seen.filled) = 0
                THEN <<[kind |-> "CLOSE_FAILED"]>> ELSE <<>>
<1>9. A \in Seq(Good)
  <2>1. \A e \in Good : <<e>> \in Seq(Good)
    OBVIOUS
  <2>2. QED
    BY <1>5, <2>1
<1>10. B \in Seq(Good)
  <2>1. \A e \in Good : <<e>> \in Seq(Good)
    OBVIOUS
  <2>2. QED
    BY <1>6, <2>1
<1>11. C \in Seq(Good)
  <2>1. \A e \in Good : <<e>> \in Seq(Good)
    OBVIOUS
  <2>2. QED
    BY <1>7, <1>8, <2>1
<1>12. Closing!Filings(known, seen, priced) = (A \o B) \o C
  BY DEF Closing!Filings
<1>13. (A \o B) \o C \in Seq(Good)
  <2> HIDE DEF A, B, C
  <2>1. A \o B \in Seq(Good)
    BY <1>9, <1>10
  <2>2. QED
    BY <1>11, <2>1
<1>14. Closing!Larger(known.filled, seen.filled) \in {known.filled, seen.filled}
  BY DEF Closing!Larger
<1>15. QED
  BY <1>1, <1>3, <1>4, <1>12, <1>13, <1>14 DEF Good

\* Every step of a pass over one position.
LEMMA PassStep ==
  ASSUME Closing!ClosingAssumption, ExitInv,
         \/ Closing!BeginPass \/ Closing!Hold \/ Closing!SubmitClose \/ Closing!PlaceOrder
         \/ Closing!SendFails \/ (\E last, gone \in BOOLEAN : Closing!Observe(last, gone))
         \/ Closing!File \/ Closing!FileRaises \/ Closing!Filed \/ Closing!Die
  PROVE  ExitInv'
<1> USE DEF Closing!NoPicture
<1>1. /\ position \in Position /\ position.filled \in Nat /\ position.closed \in Nat
      /\ position.closed <= Sold(exits) /\ exits \in Seq(CloseOrder) /\ Sold(exits) \in Nat
      /\ left \in Seq(CloseEvent) /\ <<>> \in Seq(CloseEvent)
      /\ position.filled \in 1 .. ExitSize /\ ExitSize \in Nat
  <2>1. exits \in Seq(CloseOrder) /\ position \in Position
    BY DEF ExitInv, ExitTypes
  <2>2. Sold(exits) \in Nat
    BY <2>1, SoldIsNumber
  <2>3. QED
    BY <2>1, <2>2 DEF ExitInv, ExitTypes, BookFollows, Position, Closing!ClosingAssumption
<1> DEFINE Resting == /\ manager' = "idle" /\ size' = 0 /\ left' = <<>>
                      /\ known'.filled = 0
<1>2. Closing!Rest => Resting
  BY DEF Closing!Rest
<1>3. ASSUME Resting, UNCHANGED <<position, opening, exits, doubted>>
      PROVE  ExitInv'
  <2>1. ExitTypes'
    BY <1>1, <1>3 DEF ExitInv, ExitTypes
  <2>2. BookFollows'
    BY <1>1, <1>3 DEF ExitInv, BookFollows
  <2>3. ExitsSuffice' /\ OneExitLives'
    BY <1>1, <1>3 DEF ExitInv, ExitsSuffice, OneExitLives
  <2>4. QED
    BY <2>1, <2>2, <2>3 DEF ExitInv
<1>4. CASE Closing!BeginPass
  <2>1. /\ manager = "idle" /\ manager' = "managing" /\ known'.filled = position.closed
        /\ UNCHANGED <<position, opening, exits, size, left, doubted>>
    BY <1>4 DEF Closing!BeginPass, Closing!Seed, Closing!broker
  <2>2. ExitTypes' /\ BookFollows'
    BY <1>1, <2>1 DEF ExitInv, ExitTypes, BookFollows
  <2>3. ExitsSuffice' /\ OneExitLives'
    BY <2>1 DEF ExitInv, ExitsSuffice, OneExitLives
  <2>4. QED
    BY <2>2, <2>3 DEF ExitInv
<1>5. CASE Closing!Hold
  BY <1>2, <1>3, <1>5 DEF Closing!Hold, Closing!broker
<1>6. CASE Closing!Die
  BY <1>2, <1>3, <1>6 DEF Closing!Die, Closing!broker
<1>7. CASE Closing!SubmitClose
  <2> DEFINE e == [kind |-> "CLOSE_SUBMITTED"]
  <2>1. /\ position.state = "OPEN" /\ Closing!Remaining(position) > 0
        /\ size' = Closing!Remaining(position) /\ manager' = "sending"
        /\ position' = Closing!Replay(position, e)
        /\ UNCHANGED <<opening, exits, known, left, doubted>>
    BY <1>7 DEF Closing!SubmitClose, Closing!Acts, Closing!Append1, Closing!broker
  <2>2. e \in CloseEvent /\ Founded(e, exits, position.filled, doubted) /\ e.kind = "CLOSE_SUBMITTED"
    BY DEF CloseEvent, Founded
  <2>3. /\ position' \in Position /\ position'.filled = position.filled
        /\ position'.closed <= Sold(exits)
        /\ position'.state = "CLOSED" => position.filled <= Sold(exits)
        /\ position'.state = "CLOSING"
    <3> HIDE DEF e
    <3>1. QED
      BY <2>1, <2>2, BookStep
  <2>4. size' \in 1 .. position.filled /\ position.filled <= size' + Sold(exits)
    <3>1. size' = position.filled - position.closed /\ size' > 0
      BY <1>1, <2>1 DEF Closing!Remaining, Closing!Larger
    <3>2. QED
      BY <1>1, <3>1
  <2>5. ~doubted => AllVoid(exits)
    BY <2>1 DEF ExitInv, OneExitLives
  <2>6. ExitTypes'
    BY <1>1, <1>7, <2>1, <2>3, <2>4 DEF Closing!SubmitClose, ExitInv, ExitTypes
  <2>7. BookFollows'
    BY <2>1, <2>3 DEF ExitInv, BookFollows
  <2>8. ExitsSuffice'
    BY <2>1, <2>3, <2>4 DEF ExitsSuffice
  <2>9. OneExitLives'
    BY <2>1, <2>5 DEF ExitInv, OneExitLives
  <2>10. QED
    BY <2>6, <2>7, <2>8, <2>9 DEF ExitInv
<1>8. ASSUME NEW status \in {"silent", "working"}, manager = "sending",
             exits' = Append(exits, Closing!Exit(status)),
             position' \in Position, position'.filled = position.filled,
             position'.closed <= Sold(exits), position'.state # "CLOSED",
             UNCHANGED opening, left' = <<>>,
             known'.filled \in Nat, known'.filled <= Sold(exits), size' \in Nat,
             \/ doubted' = doubted /\ manager' = "polling" /\ position'.state # "OPEN"
             \/ doubted' = TRUE /\ manager' = "idle"
      PROVE  ExitInv'
  <2> DEFINE x == Closing!Exit(status)
             n == Len(exits)
  <2>1. size \in 1 .. position.filled /\ position.filled <= size + Sold(exits)
    BY <1>8 DEF ExitInv, ExitsSuffice
  <2>2. x \in CloseOrder /\ x.filled = 0 /\ x.quantity = size
    BY <1>1, <2>1 DEF Closing!Exit, CloseOrder
  <2>3. /\ n \in Nat /\ exits' \in Seq(CloseOrder) /\ Len(exits') = n + 1 /\ exits'[n + 1] = x
        /\ \A i \in 1 .. n : exits'[i] = exits[i]
    <3> HIDE DEF x
    <3>1. QED
      BY <1>1, <1>8, <2>2 DEF x
  <2>4. Sold(exits') = Sold(exits)
    <3> HIDE DEF x
    <3>1. QED
      BY <1>1, <1>8, <2>2, SoldByAnother DEF x
  <2> HIDE DEF x, n
  <2>5. \A i \in 1 .. Len(exits') : i = n + 1 \/ i \in 1 .. n
    BY <2>3
  <2>6. ExitTypes'
    <3>1. \A i \in 1 .. Len(exits') : /\ exits'[i].filled <= exits'[i].quantity
                                      /\ exits'[i].quantity <= position.filled
      <4>1. \A i \in 1 .. n : /\ exits[i].filled <= exits[i].quantity
                              /\ exits[i].quantity <= position.filled
        BY DEF ExitInv, ExitTypes, n
      <4>2. x.filled <= x.quantity /\ x.quantity <= position.filled
        BY <1>1, <2>1, <2>2
      <4>3. QED
        BY <2>3, <2>5, <4>1, <4>2
    <3>2. QED
      BY <1>1, <1>8, <2>3, <3>1 DEF ExitInv, ExitTypes
  <2>7. BookFollows'
    BY <1>8, <2>4 DEF BookFollows
  <2>8. ExitsSuffice'
    <3>1. position.filled + x.filled <= Sold(exits) + x.quantity
      BY <1>1, <2>1, <2>2
    <3>2. QED
      BY <1>8, <2>3, <2>4, <3>1 DEF ExitsSuffice
  <2>9. OneExitLives'
    <3>1. SUFFICES ASSUME ~doubted'
                   PROVE  (\A i \in 1 .. Len(exits') - 1 : Void(exits'[i]))
                          /\ position'.state # "OPEN" /\ manager' # "sending"
      BY DEF OneExitLives
    <3>2. AllVoid(exits)
      BY <1>8, <3>1 DEF ExitInv, OneExitLives
    <3>3. QED
      BY <1>8, <2>3, <3>1, <3>2 DEF AllVoid, n
  <2>10. QED
    BY <2>6, <2>7, <2>8, <2>9 DEF ExitInv
<1>9. CASE Closing!PlaceOrder
  <2>1. /\ manager = "sending" /\ exits' = Append(exits, Closing!Exit("silent"))
        /\ manager' = "polling"
        /\ UNCHANGED <<position, opening, size, known, left, doubted>>
    BY <1>9 DEF Closing!PlaceOrder
  <2>2. left = <<>> /\ known.filled \in Nat /\ known.filled <= Sold(exits) /\ size \in Nat
        /\ position.state = "CLOSING"
    BY <2>1 DEF ExitInv, ExitTypes, BookFollows, ExitsSuffice
  <2>3. /\ position' \in Position /\ position'.filled = position.filled
        /\ position'.closed <= Sold(exits) /\ position'.state # "CLOSED"
        /\ position'.state # "OPEN" /\ left' = <<>>
        /\ known'.filled \in Nat /\ known'.filled <= Sold(exits) /\ size' \in Nat
    BY <1>1, <2>1, <2>2
  <2>4. /\ doubted' = doubted /\ manager' = "polling" /\ opening' = opening
        /\ manager = "sending" /\ "silent" \in {"silent", "working"}
        /\ exits' = Append(exits, Closing!Exit("silent"))
    BY <2>1
  <2>5. QED
    BY <1>8, <2>3, <2>4
<1>10. ASSUME NEW doubt \in BOOLEAN, position' = Closing!Replay(position, [kind |-> "CLOSE_FAILED"]),
              doubt \/ AllVoid(exits)
       PROVE  /\ position' \in Position /\ position'.filled = position.filled
              /\ position'.closed <= Sold(exits)
              /\ position'.state = "OPEN"
  <2> DEFINE e == [kind |-> "CLOSE_FAILED"]
  <2>1. e \in CloseEvent /\ Founded(e, exits, position.filled, doubt)
    BY <1>10 DEF CloseEvent, Founded
  <2>2. position'.state = "OPEN"
    <3>1. position' = [position EXCEPT !.state = "OPEN"]
      BY <1>10 DEF Closing!Replay
    <3>2. QED
      BY <1>1, <3>1 DEF Position
  <2>3. QED
    <3> HIDE DEF e
    <3>1. position' = Closing!Replay(position, e)
      BY <1>10 DEF e
    <3>2. QED
      BY <2>1, <2>2, <3>1, BookStep
<1>11. CASE Closing!SendFails
  <2>1. /\ manager = "sending" /\ Resting /\ opening' = opening
        /\ position' = Closing!Replay(position, [kind |-> "CLOSE_FAILED"])
    BY <1>2, <1>11 DEF Closing!SendFails, Closing!Append1
  <2>2. ~doubted => AllVoid(exits)
    BY <2>1 DEF ExitInv, OneExitLives
  <2>3. doubted \in BOOLEAN => doubted \/ AllVoid(exits)
    BY <2>2
  <2>4. CASE UNCHANGED <<exits, doubted>>
    <3>1. /\ position' \in Position /\ position'.filled = position.filled
          /\ position'.closed <= Sold(exits) /\ position'.state = "OPEN"
      <4>1. CASE doubted
        BY <1>10, <2>1, <4>1
      <4>2. CASE ~doubted
        BY <1>10, <2>1, <2>2, <4>2
      <4>3. QED
        BY <4>1, <4>2
    <3>2. ExitTypes'
      BY <1>1, <2>1, <2>4, <3>1 DEF ExitInv, ExitTypes
    <3>3. BookFollows'
      BY <1>1, <2>1, <2>4, <3>1 DEF BookFollows
    <3>4. ExitsSuffice'
      BY <2>1 DEF ExitsSuffice
    <3>5. OneExitLives'
      BY <2>2, <2>4 DEF ExitInv, OneExitLives
    <3>6. QED
      BY <3>2, <3>3, <3>4, <3>5 DEF ExitInv
  <2>5. CASE exits' = Append(exits, Closing!Exit("working")) /\ doubted' = TRUE
    <3>1. /\ position' \in Position /\ position'.filled = position.filled
          /\ position'.closed <= Sold(exits) /\ position'.state = "OPEN"
      BY <1>10, <2>1
    <3>2. QED
      BY <1>1, <1>8, <2>1, <2>5, <3>1
  <2>6. QED
    BY <1>11, <2>4, <2>5 DEF Closing!SendFails
<1>12. ASSUME NEW last \in BOOLEAN, NEW gone \in BOOLEAN, Closing!Observe(last, gone)
       PROVE  ExitInv'
  <2>1. /\ manager = "polling" /\ manager' = "filing"
        /\ UNCHANGED <<position, opening, exits, size, doubted>>
    BY <1>12 DEF Closing!Observe, Closing!broker
  <2>2. PICK seen \in Closing!Views(exits[Len(exits)], Len(exits), last, gone), priced \in BOOLEAN :
          IF Closing!Stale(known, seen)
          THEN UNCHANGED <<left, known>>
          ELSE /\ left' = Closing!Filings(known, seen, priced)
               /\ known' = [state |-> seen.state, id |-> seen.id,
                            filled |-> Closing!Larger(known.filled, seen.filled)]
    BY <1>12 DEF Closing!Observe
  <2> DEFINE Good == {e \in CloseEvent : Founded(e, exits, position.filled, doubted)}
  <2>3. left' \in Seq(Good) /\ known'.filled \in Nat /\ known'.filled <= Sold(exits)
    <3>1. CASE Closing!Stale(known, seen)
      <4>1. left = <<>> /\ known.filled \in Nat /\ known.filled <= Sold(exits)
        BY <2>1 DEF ExitInv, ExitTypes, BookFollows
      <4> HIDE DEF Good
      <4>2. QED
        BY <2>2, <3>1, <4>1
    <3>2. CASE ~Closing!Stale(known, seen)
      <4>1. /\ Closing!Filings(known, seen, priced) \in Seq(Good)
            /\ Closing!Larger(known.filled, seen.filled) \in Nat
            /\ Closing!Larger(known.filled, seen.filled) <= Sold(exits)
        BY <2>1, FilingsAreFounded
      <4> HIDE DEF Good
      <4>2. QED
        BY <2>2, <3>2, <4>1
    <3>3. QED
      BY <3>1, <3>2
  <2>4. /\ left' \in Seq(CloseEvent)
        /\ \A i \in 1 .. Len(left') : Founded(left'[i], exits, position.filled, doubted)
    <3>1. Good \subseteq CloseEvent /\ \A e \in Good : Founded(e, exits, position.filled, doubted)
      OBVIOUS
    <3> HIDE DEF Good
    <3>2. QED
      BY <2>3, <3>1
  <2>5. ExitTypes' /\ BookFollows'
    BY <2>1, <2>3, <2>4 DEF ExitInv, ExitTypes, BookFollows
  <2>6. ExitsSuffice' /\ OneExitLives'
    BY <2>1 DEF ExitInv, ExitsSuffice, OneExitLives
  <2>7. QED
    BY <2>5, <2>6 DEF ExitInv
<1>13. CASE Closing!File
  <2> DEFINE e == Head(left)
  <2>1. /\ manager = "filing" /\ left # <<>> /\ position' = Closing!Replay(position, e)
        /\ left' = Tail(left)
        /\ UNCHANGED <<opening, exits, manager, size, known, doubted>>
    BY <1>13 DEF Closing!File, Closing!Append1, Closing!broker
  <2>2. e \in CloseEvent /\ Founded(e, exits, position.filled, doubted)
    BY <1>1, <2>1 DEF ExitInv, BookFollows
  <2>3. /\ left' \in Seq(CloseEvent)
        /\ \A i \in 1 .. Len(left') : i + 1 \in 1 .. Len(left) /\ left'[i] = left[i + 1]
    BY <1>1, <2>1
  <2>4. /\ position' \in Position /\ position'.filled = position.filled
        /\ position'.closed <= Sold(exits)
        /\ position'.state = "CLOSED" => position.filled <= Sold(exits)
        /\ position'.state = "OPEN" => position.state = "OPEN" \/ doubted \/ AllVoid(exits)
    <3> HIDE DEF e
    <3>1. QED
      BY <2>1, <2>2, BookStep
  <2> HIDE DEF e
  <2>5. ExitTypes'
    BY <2>1, <2>3, <2>4 DEF ExitInv, ExitTypes
  <2>6. BookFollows'
    <3>1. \A i \in 1 .. Len(left') : Founded(left'[i], exits, position.filled, doubted)
      BY <2>3 DEF ExitInv, BookFollows
    <3>2. QED
      BY <2>1, <2>4, <3>1 DEF ExitInv, BookFollows
  <2>7. ExitsSuffice'
    BY <2>1, <2>4 DEF ExitInv, ExitsSuffice
  <2>8. OneExitLives'
    BY <2>1, <2>4 DEF ExitInv, OneExitLives
  <2>9. QED
    BY <2>5, <2>6, <2>7, <2>8 DEF ExitInv
<1>14. CASE Closing!FileRaises
  <2>1. /\ Resting /\ doubted' = TRUE /\ UNCHANGED <<opening, exits>>
        /\ position' = Closing!Replay(position, [kind |-> "CLOSE_FAILED"])
    BY <1>2, <1>14 DEF Closing!FileRaises, Closing!Append1, Closing!broker
  <2>2. /\ position' \in Position /\ position'.filled = position.filled
        /\ position'.closed <= Sold(exits) /\ position'.state = "OPEN"
    BY <1>10, <2>1
  <2>3. ExitTypes'
    BY <1>1, <2>1, <2>2 DEF ExitInv, ExitTypes
  <2>4. BookFollows'
    BY <1>1, <2>1, <2>2 DEF BookFollows
  <2>5. ExitsSuffice' /\ OneExitLives'
    BY <2>1 DEF ExitsSuffice, OneExitLives
  <2>6. QED
    BY <2>3, <2>4, <2>5 DEF ExitInv
<1>15. CASE Closing!Filed
  <2>1. UNCHANGED <<position, opening, exits, doubted>> /\ manager = "filing" /\ left = <<>>
    BY <1>15 DEF Closing!Filed, Closing!broker
  <2>2. CASE Resting
    BY <1>3, <2>1, <2>2
  <2>3. CASE manager' = "polling" /\ UNCHANGED <<size, known, left>>
    <3>1. ExitTypes' /\ BookFollows'
      BY <2>1, <2>3 DEF ExitInv, ExitTypes, BookFollows
    <3>2. ExitsSuffice' /\ OneExitLives'
      BY <2>1, <2>3 DEF ExitInv, ExitsSuffice, OneExitLives
    <3>3. QED
      BY <3>1, <3>2 DEF ExitInv
  <2>4. QED
    BY <1>2, <1>15, <2>2, <2>3 DEF Closing!Filed
<1>16. QED
  BY <1>4, <1>5, <1>6, <1>7, <1>9, <1>11, <1>12, <1>13, <1>14, <1>15

\* Every step of the broker.
LEMMA MarketStep ==
  ASSUME ExitInv,
         \/ \E i \in 1 .. Len(exits) : Closing!Hear(i) \/ Closing!Fill(i) \/ Closing!Kill(i)
         \/ Closing!FillOpening
  PROVE  ExitInv'
<1>1. exits \in Seq(CloseOrder)
  BY DEF ExitInv, ExitTypes
<1>2. ASSUME NEW i \in 1 .. Len(exits), Closing!Hear(i) \/ Closing!Fill(i) \/ Closing!Kill(i)
      PROVE  ExitInv'
  <2>1. UNCHANGED <<position, opening, manager, size, known, left, doubted>>
    BY <1>2 DEF Closing!Hear, Closing!Fill, Closing!Kill, Closing!pass
  <2>2. exits[i] \in CloseOrder /\ exits[i].filled <= exits[i].quantity
    BY <1>1 DEF ExitInv, ExitTypes
  <2>3. PICK quantity \in Nat, sold \in Nat, status \in {"silent", "working", "dead"} :
          exits[i] = [quantity |-> quantity, filled |-> sold, status |-> status]
    BY <2>2 DEF CloseOrder
  <2>4. exits[i].quantity = quantity /\ exits[i].filled = sold /\ exits[i].status = status
    BY <2>3
  <2>5. CASE Closing!Hear(i)
    <3> DEFINE x == [quantity |-> quantity, filled |-> sold, status |-> "working"]
    <3>1. exits' = [exits EXCEPT ![i] = x] /\ status = "silent"
      <4>1. exits' = [exits EXCEPT ![i].status = "working"] /\ exits[i].status = "silent"
        BY <2>5, Zenon DEF Closing!Hear
      <4>2. [exits[i] EXCEPT !.status = "working"] = x
        BY <2>3
      <4>3. QED
        BY <2>4, <4>1, <4>2
    <3>2. /\ x \in CloseOrder /\ x.quantity = quantity /\ x.filled = sold
          /\ sold <= sold /\ ~Void(exits[i])
      BY <2>3, <3>1 DEF CloseOrder, Void
    <3> HIDE DEF x
    <3>3. QED
      BY <2>1, <2>2, <2>4, <3>1, <3>2, OneExitMoves
  <2>6. CASE Closing!Fill(i)
    <3> DEFINE x == [quantity |-> quantity, filled |-> sold + 1, status |-> status]
    <3>1. exits' = [exits EXCEPT ![i] = x] /\ status = "working" /\ sold < quantity
      <4>1. /\ exits' = [exits EXCEPT ![i].filled = @ + 1]
            /\ exits[i].status = "working" /\ Closing!Alive(exits[i])
        BY <2>6, Zenon DEF Closing!Fill
      <4>2. [exits[i] EXCEPT !.filled = @ + 1] = x
        BY <2>3
      <4>3. QED
        BY <2>4, <4>1, <4>2 DEF Closing!Alive
    <3>2. /\ x \in CloseOrder /\ x.quantity = quantity /\ x.filled = sold + 1
          /\ sold + 1 <= quantity /\ sold <= sold + 1 /\ ~Void(exits[i])
      BY <2>3, <3>1 DEF CloseOrder, Void
    <3> HIDE DEF x
    <3>3. QED
      BY <2>1, <2>2, <2>4, <3>1, <3>2, OneExitMoves
  <2>7. CASE Closing!Kill(i)
    <3> DEFINE x == [quantity |-> quantity, filled |-> sold, status |-> "dead"]
    <3>1. exits' = [exits EXCEPT ![i] = x] /\ ~Void(exits[i])
      <4>1. exits' = [exits EXCEPT ![i].status = "dead"] /\ Closing!Alive(exits[i])
        BY <2>7, Zenon DEF Closing!Kill
      <4>2. [exits[i] EXCEPT !.status = "dead"] = x
        BY <2>3
      <4>3. QED
        BY <4>1, <4>2 DEF Closing!Alive, Void
    <3>2. x \in CloseOrder /\ x.quantity = quantity /\ x.filled = sold /\ sold <= sold
      BY <2>3, <3>1 DEF CloseOrder
    <3> HIDE DEF x
    <3>3. QED
      BY <2>1, <2>2, <2>4, <3>1, <3>2, OneExitMoves
  <2>8. QED
    BY <1>2, <2>5, <2>6, <2>7
<1>3. CASE Closing!FillOpening
  <2>1. /\ opening' = [opening EXCEPT !.filled = @ + 1]
        /\ UNCHANGED <<position, exits, manager, size, known, left, doubted>>
    BY <1>3 DEF Closing!FillOpening, Closing!pass
  <2>2. /\ opening' \in [quantity : Nat, filled : Nat, status : {"working", "dead"}]
        /\ position.filled <= opening'.filled
    <3>1. /\ opening \in [quantity : Nat, filled : Nat, status : {"working", "dead"}]
          /\ position.filled <= opening.filled /\ position.filled \in Nat
      BY DEF ExitInv, ExitTypes, Position
    <3>2. opening'.filled = opening.filled + 1 /\ opening.filled \in Nat
      BY <2>1, <3>1
    <3>3. opening' \in [quantity : Nat, filled : Nat, status : {"working", "dead"}]
      BY <2>1, <3>1
    <3>4. QED
      BY <3>1, <3>2, <3>3
  <2>3. ExitTypes' /\ BookFollows'
    BY <2>1, <2>2 DEF ExitInv, ExitTypes, BookFollows
  <2>4. ExitsSuffice' /\ OneExitLives'
    BY <2>1 DEF ExitInv, ExitsSuffice, OneExitLives
  <2>5. QED
    BY <2>3, <2>4 DEF ExitInv
<1>4. QED
  BY <1>2, <1>3

\* What the invariant says of the exits.
LEMMA ExitsAreSafe == ExitInv => Closing!ExitsAreTrue
<1>1. SUFFICES ASSUME ExitInv PROVE Closing!KnownExitsNeverOversell /\ Closing!ClosedIsClosed
  BY DEF Closing!ExitsAreTrue
<1> DEFINE n == Len(exits)
           f == [i \in 1 .. n |-> Closing!Exposed(exits[i])]
<1>2. exits \in Seq(CloseOrder) /\ position \in Position /\ n \in Nat /\ DOMAIN exits = 1 .. n
  BY <1>1 DEF ExitInv, ExitTypes
<1>3. /\ \A i \in 1 .. n : exits[i] \in CloseOrder /\ exits[i].filled <= exits[i].quantity
                           /\ exits[i].quantity <= position.filled
      /\ position.filled \in Nat /\ opening.filled \in Nat /\ position.filled <= opening.filled
  BY <1>1, <1>2 DEF ExitInv, ExitTypes, Position
<1>4. Closing!ClosedIsClosed
  BY <1>1, ClosingSums DEF ExitInv, BookFollows, Closing!ClosedIsClosed
<1>5. Closing!Committed = Total(f)
  <2>1. f = [i \in DOMAIN exits |-> Closing!Exposed(exits[i])]
    BY <1>2
  <2>2. Closing!Committed = Closing!Total(f)
    BY <2>1 DEF Closing!Committed
  <2> HIDE DEF f
  <2>3. QED
    BY <2>2, ClosingSums
<1>6. \A i \in 1 .. n : /\ f[i] \in Nat /\ f[i] <= position.filled
                        /\ Void(exits[i]) => f[i] = 0
  <2>1. TAKE i \in 1 .. n
  <2>2. exits[i].filled \in Nat /\ exits[i].quantity \in Nat
    BY <1>3 DEF CloseOrder
  <2>3. f[i] = IF Closing!Alive(exits[i]) THEN exits[i].quantity ELSE exits[i].filled
    BY DEF Closing!Exposed
  <2>4. Void(exits[i]) => ~Closing!Alive(exits[i]) /\ exits[i].filled = 0
    BY DEF Void, Closing!Alive
  <2> HIDE DEF f
  <2>5. QED
    BY <1>3, <2>2, <2>3, <2>4
<1>7. f \in [1 .. n -> Nat]
  BY <1>6
<1>8. ASSUME ~doubted PROVE Total(f) <= opening.filled
  <2>1. \A i \in 1 .. n - 1 : Void(exits[i])
    BY <1>1, <1>8 DEF ExitInv, OneExitLives
  <2> HIDE DEF f, n
  <2>2. CASE n = 0
    <3>1. \A i \in 1 .. n : f[i] = 0
      BY <2>2
    <3>2. Total(f) = 0
      BY <1>7, <3>1, TotalOfNone
    <3>3. QED
      BY <1>3, <3>2
  <2>3. CASE n > 0
    <3>1. n \in 1 .. n /\ IsFiniteSet(1 .. n)
      BY <1>2, <2>3, FS_Interval
    <3>2. \A i \in 1 .. n : i # n => i \in 1 .. n - 1
      BY <1>2
    <3>3. \A i \in 1 .. n : i # n => f[i] = 0
      BY <1>6, <2>1, <3>2
    <3>4. Total(f) = f[n]
      BY <1>7, <3>1, <3>3, TotalOfOnlyOne
    <3>5. QED
      BY <1>3, <1>6, <3>1, <3>4
  <2>4. QED
    BY <1>2, <2>2, <2>3
<1>9. Closing!KnownExitsNeverOversell
  BY <1>5, <1>8 DEF Closing!KnownExitsNeverOversell, Closing!NeverOversold
<1>10. QED
  BY <1>4, <1>9

\* A position opens with nothing sold.
LEMMA ExitsBegin == Closing!ClosingAssumption /\ Closing!Init => ExitInv
<1>1. SUFFICES ASSUME Closing!ClosingAssumption, Closing!Init PROVE ExitInv
  OBVIOUS
<1>2. PICK f \in 1 .. ExitSize, s \in {"OPEN", "UNCERTAIN"}, r \in {"working", "dead"} :
        /\ opening = [quantity |-> ExitSize, filled |-> f, status |-> r]
        /\ position = [state |-> s, filled |-> f, closed |-> 0, id |-> 0]
  BY <1>1 DEF Closing!Init
<1>3. /\ exits = <<>> /\ manager = "idle" /\ size = 0 /\ known.filled = 0 /\ left = <<>>
  BY <1>1 DEF Closing!Init, Closing!NoPicture
<1>4. f \in Nat /\ ExitSize \in Nat
  BY <1>1 DEF Closing!ClosingAssumption
<1>5. ExitTypes
  BY <1>2, <1>3, <1>4 DEF ExitTypes, Position, Closing!Live
<1>6. Sold(exits) \in Nat
  <2>1. exits \in Seq(CloseOrder)
    BY <1>3
  <2>2. QED
    BY <2>1, SoldIsNumber
<1>7. BookFollows
  BY <1>2, <1>3, <1>6 DEF BookFollows
<1>8. ExitsSuffice /\ OneExitLives
  BY <1>3 DEF ExitsSuffice, OneExitLives, AllVoid
<1>9. QED
  BY <1>5, <1>7, <1>8 DEF ExitInv

\* However many passes watch, abandon and repeat the exits of a position, and whenever
\* they die, the closing orders cannot between them sell more than the opening order
\* bought while none of them was wrongly recorded as failed, and what the book says is
\* closed has been bought back, for any size and number of exits and of deaths
\* (runner._manage_one, sink, positions.replay).
THEOREM ExitsStayTrue == MCSpec => []ExitsAreTrue
<1>1. Closing!ClosingAssumption
  BY OrdersAssumption
<1>2. MCInit => (part = "exit" => ExitInv)
  BY <1>1, ExitsBegin DEF MCInit
<1>3. (part = "exit" => ExitInv) /\ [MCNext]_everything => (part = "exit" => ExitInv)'
  <2>1. SUFFICES ASSUME part = "exit" => ExitInv, [MCNext]_everything, part' = "exit"
                 PROVE  ExitInv'
    OBVIOUS
  <2>2. part = "exit" /\ [Closing!Next]_Closing!vars
    BY <2>1 DEF MCNext, everything, closingBook, Closing!vars
  <2>3. CASE UNCHANGED Closing!vars
    <3>1. UNCHANGED <<position, opening, exits, manager, size, known, left, doubted>>
      BY <2>3 DEF Closing!vars
    <3>2. ExitTypes' /\ BookFollows' /\ ExitsSuffice' /\ OneExitLives'
      BY <2>1, <2>2, <3>1 DEF ExitInv, ExitTypes, BookFollows, ExitsSuffice, OneExitLives
    <3>3. QED
      BY <3>2 DEF ExitInv
  <2>4. CASE Closing!Next
    BY <1>1, <2>1, <2>2, <2>4, PassStep, MarketStep DEF Closing!Next
  <2>5. QED
    BY <2>2, <2>3, <2>4
<1>4. (part = "exit" => ExitInv) => ExitsAreTrue
  BY ExitsAreSafe DEF ExitsAreTrue
<1>5. QED
  BY <1>2, <1>3, <1>4, PTL DEF MCSpec

-----------------------------------------------------------------------------
(* The rows of a pass and the limits they are held to (EntryPass).      *)

Places == {None, "OPENING", "OPEN", "CLOSING", "UNCERTAIN", "FAILED", "CLOSED"}
OpeningOrders == {None, "resting", "partial", "held", "gone"}
Entry == [symbol : PassSymbols, state : Pass!EntryState, reserved : Nat, position : Places,
          cost : Nat, order : OpeningOrders]

\* The sets of symbols that have a limit in common.
Limits ==
  {<<PassSymbols, TotalCap>>} \cup {<<{x}, UnderlyingCap>> : x \in PassSymbols}
    \cup UNION {{<<{y \in PassSymbols : class[y] = class[x]}, ClassCap>> : x \in PassSymbols} :
                  class \in Groupings}

\* What the rows of a book commit, all of them or all but one.
Alive(entry) == entry.position \in {"OPENING", "OPEN", "CLOSING", "UNCERTAIN"}
Commits(entry) == IF Alive(entry) THEN entry.cost ELSE entry.reserved
Among(rows, xs) == {i \in DOMAIN rows : rows[i].symbol \in xs}
Sum(rows, xs) == Total([i \in Among(rows, xs) |-> Commits(rows[i])])
Without(rows, xs, e) ==
  Total([i \in Among(rows, xs) \ {e} |-> Commits(rows[i])])

Holds(rows) == \A limit \in Limits : Sum(rows, limit[1]) <= limit[2]

\* Whether one more entry of this symbol and cost, or the e-th at this cost, fits.
Fits(rows, x, e, bpr) ==
  \A limit \in Limits :
    x \in limit[1] => Without(rows, limit[1], e) + bpr <= limit[2]

Resting(rows) == {i \in 1 .. Len(rows) : rows[i].order = "resting"}
Eldest(S) == CHOOSE e \in S : \A k \in S : e <= k

\* An entry that has ended has released its reservation, no order is sent before its
\* position is recorded, and an open position has taken the reservation over.
Regular(entry) ==
  /\ entry.state = "ENDED" => entry.reserved = 0
  /\ entry.position = None => entry.order = None
  /\ entry.position = "OPEN" => entry.reserved = 0 /\ entry.order # "resting"

PassTypes ==
  /\ book \in Seq(Entry)
  /\ \A i \in 1 .. Len(book) : Regular(book[i])
  /\ foreign \in [PassSymbols -> Nat]
  /\ cost \in Nat
  /\ pc \in {"idle", "agreed", "doubtful", "serving", "new", "proposing", "attempted",
             "submitted", "working"}
  /\ todo \subseteq 1 .. Len(book)
  /\ pc \in {"attempted", "submitted", "working"} => todo # {}

\* The limits hold, also for the candidate that is about to be recorded.
Bounded ==
  /\ Holds(book)
  /\ pc = "attempted" => Fits(book, book[Eldest(todo)].symbol, Eldest(todo), cost)
  /\ pc \in {"submitted", "working"} => book[Eldest(todo)].position = "OPENING"
                                        /\ book[Eldest(todo)].cost = cost

\* An order rests only while it is the last one; the next pass opens nothing before
\* its position is known.
AtMostOneRests ==
  /\ \A i, k \in Resting(book) : i = k
  /\ pc = "agreed" => \A i \in Resting(book) : book[i].position = "UNCERTAIN"
  /\ pc \in {"serving", "new", "proposing", "attempted", "submitted"} => Resting(book) = {}
  /\ pc = "working" => Resting(book) \subseteq {Eldest(todo)}

PassInv == PassTypes /\ Bounded /\ AtMostOneRests

\* A set of numbers has a least one: the order of the naturals is well-founded.
LEMMA LeastExists ==
  ASSUME NEW S \in SUBSET Nat, S # {}
  PROVE  \E x \in S : \A y \in S : x <= y
<1> DEFINE R == OpToRel(<, Nat)
<1>1. IsWellFoundedOn(R, Nat)
  BY NatLessThanWellFounded
<1>2. \A x, y \in Nat : x < y => <<x, y>> \in R
  BY DEF OpToRel
<1> HIDE DEF R
<1>3. PICK x \in S : \A y \in S : ~(<<y, x>> \in R)
  BY <1>1, WFMin
<1>4. \A y \in S : ~(y < x)
  BY <1>2, <1>3
<1>5. QED
  BY <1>4

\* The oldest entry of a pass is one of its entries, and the only one where it has one.
LEMMA EldestIs ==
  /\ Pass!Oldest = Eldest(todo)
  /\ \A S \in SUBSET Nat : S # {} => Eldest(S) \in S
  /\ \A e \in Nat : Eldest({e}) = e
<1>1. Pass!Oldest = Eldest(todo)
  BY DEF Pass!Oldest, Eldest
<1>2. \A S \in SUBSET Nat : S # {} => Eldest(S) \in S
  BY LeastExists DEF Eldest
<1>3. \A e \in Nat : Eldest({e}) = e
  <2>1. TAKE e \in Nat
  <2>2. {e} \in SUBSET Nat /\ {e} # {}
    OBVIOUS
  <2>3. Eldest({e}) \in {e}
    BY <1>2, <2>2
  <2>4. QED
    BY <2>3
<1>4. QED
  BY <1>1, <1>2, <1>3

\* An instance sums as Totals does.
LEMMA PassSums == \A f : Pass!Total(f) = Total(f)
<1>1. \A S : Pass!Cardinality(S) = Cardinality(S)
  BY DEF Cardinality, Pass!Cardinality
<1>2. QED
  BY <1>1 DEF Pass!Total, Pass!Units, Total, Units

\* Which rows a sum is of, and what they commit.
LEMMA SumIsNumber ==
  ASSUME NEW rows \in Seq(Entry), NEW xs, NEW e
  PROVE  /\ IsFiniteSet(Among(rows, xs)) /\ Among(rows, xs) \subseteq 1 .. Len(rows)
         /\ \A i \in Among(rows, xs) : Commits(rows[i]) \in Nat
         /\ Sum(rows, xs) \in Nat /\ Without(rows, xs, e) \in Nat
<1> DEFINE S == Among(rows, xs)
           f == [i \in S |-> Commits(rows[i])]
           g == [i \in S \ {e} |-> Commits(rows[i])]
<1>1. S \subseteq 1 .. Len(rows) /\ IsFiniteSet(1 .. Len(rows))
  BY FS_Interval DEF Among
<1>2. IsFiniteSet(S) /\ IsFiniteSet(S \ {e})
  <2> HIDE DEF S
  <2>1. IsFiniteSet(S)
    BY <1>1, FS_Subset
  <2>2. QED
    BY <2>1, FS_Subset
<1>3. \A i \in S : Commits(rows[i]) \in Nat
  <2>1. \A i \in 1 .. Len(rows) : rows[i] \in Entry
    OBVIOUS
  <2>2. QED
    BY <1>1, <2>1 DEF Entry, Commits
<1>4. f \in [S -> Nat] /\ g \in [S \ {e} -> Nat]
  BY <1>3
<1>5. Sum(rows, xs) = Total(f) /\ Without(rows, xs, e) = Total(g)
  BY DEF Sum, Without
<1> HIDE DEF S, f, g
<1>6. Total(f) \in Nat
  BY <1>2, <1>4, TotalIsNumber
<1>7. Total(g) \in Nat
  <2> DEFINE T == S \ {e}
  <2>1. IsFiniteSet(T) /\ g \in [T -> Nat]
    BY <1>2, <1>4
  <2> HIDE DEF T
  <2>2. QED
    BY <2>1, TotalIsNumber
<1>8. QED
  BY <1>1, <1>2, <1>3, <1>5, <1>6, <1>7 DEF S

\* A sum is what one entry commits and what the others do.
LEMMA SumSplits ==
  ASSUME NEW rows \in Seq(Entry), NEW xs, NEW e \in 1 .. Len(rows)
  PROVE  Sum(rows, xs) = Without(rows, xs, e)
                              + (IF rows[e].symbol \in xs THEN Commits(rows[e]) ELSE 0)
<1> DEFINE S == Among(rows, xs)
           f == [i \in S |-> Commits(rows[i])]
           g == [i \in S \ {e} |-> Commits(rows[i])]
<1>1. IsFiniteSet(S) /\ f \in [S -> Nat] /\ Sum(rows, xs) = Total(f)
      /\ Without(rows, xs, e) = Total(g) /\ Without(rows, xs, e) \in Nat
      /\ (e \in S <=> rows[e].symbol \in xs)
  <2>1. IsFiniteSet(S) /\ Without(rows, xs, e) \in Nat /\ \A i \in S : Commits(rows[i]) \in Nat
    BY SumIsNumber
  <2>2. f \in [S -> Nat]
    BY <2>1
  <2>3. e \in S <=> rows[e].symbol \in xs
    BY DEF Among
  <2>4. Sum(rows, xs) = Total(f) /\ Without(rows, xs, e) = Total(g)
    BY DEF Sum, Without
  <2> HIDE DEF S, f, g
  <2>5. QED
    BY <2>1, <2>2, <2>3, <2>4
<1>2. CASE e \in S
  <2>1. f[e] = Commits(rows[e]) /\ g = [i \in S \ {e} |-> f[i]]
    BY <1>2
  <2>2. Total(f) = Total([i \in S \ {e} |-> f[i]]) + f[e]
    <3> HIDE DEF S, f
    <3>1. QED
      BY <1>1, <1>2, TotalOfOneMore
  <2> HIDE DEF S, f, g
  <2>3. QED
    BY <1>1, <1>2, <2>1, <2>2
<1>3. CASE e \notin S
  <2>1. g = f
    BY <1>3
  <2> HIDE DEF S, f, g
  <2>2. QED
    BY <1>1, <1>3, <2>1
<1>4. QED
  BY <1>2, <1>3

\* Where no entry but one commits more than before, neither do the others together.
LEMMA OthersKeep ==
  ASSUME NEW rows \in Seq(Entry), NEW rows2 \in Seq(Entry), NEW xs, NEW e,
         \A i \in 1 .. Len(rows2) : i # e =>
           /\ i \in 1 .. Len(rows) /\ rows2[i].symbol = rows[i].symbol
           /\ Commits(rows2[i]) <= Commits(rows[i])
  PROVE  Without(rows2, xs, e) <= Without(rows, xs, e)
<1> DEFINE S == Among(rows2, xs) \ {e}
           T == Among(rows, xs) \ {e}
           f == [i \in S |-> Commits(rows2[i])]
           g == [i \in T |-> Commits(rows[i])]
<1>1. /\ S \subseteq T
      /\ \A i \in S : Commits(rows2[i]) <= Commits(rows[i])
  BY DEF Among
<1>2. IsFiniteSet(T) /\ f \in [S -> Nat] /\ g \in [T -> Nat]
  <2>1. IsFiniteSet(Among(rows, xs))
    BY SumIsNumber
  <2>2. IsFiniteSet(T)
    BY <2>1, FS_Subset
  <2>3. /\ \A i \in S : Commits(rows2[i]) \in Nat
        /\ \A i \in T : Commits(rows[i]) \in Nat
    BY SumIsNumber
  <2> HIDE DEF S, T
  <2>4. QED
    BY <2>2, <2>3
<1>3. \A i \in S : f[i] <= g[i]
  BY <1>1
<1>4. Without(rows2, xs, e) = Total(f) /\ Without(rows, xs, e) = Total(g)
  BY DEF Without
<1>5. S \subseteq T
  BY <1>1
<1> HIDE DEF S, T, f, g
<1>6. Total(f) <= Total(g)
  BY <1>2, <1>3, <1>5, TotalIsMonotone
<1>7. QED
  BY <1>4, <1>6

\* The governor's figures cover what the other entries commit.
LEMMA OfCovers ==
  ASSUME PassTypes, Pass!PassAssumption, NEW xs \in SUBSET PassSymbols, NEW e
  PROVE  Pass!Of(xs, e) \in Nat /\ Without(book, xs, e) <= Pass!Of(xs, e)
<1> DEFINE S == Among(book, xs) \ {e}
           T == {i \in Pass!Exposed(e) : book[i].symbol \in xs}
           f == [i \in S |-> Commits(book[i])]
           g == [i \in T |-> Pass!Exposure(i)]
<1>1. book \in Seq(Entry) /\ \A i \in 1 .. Len(book) : Regular(book[i])
  BY DEF PassTypes
<1>2. \A i \in 1 .. Len(book) : book[i] \in Entry
  BY <1>1
<1>3. /\ \A i \in 1 .. Len(book) : Pass!Live(i) <=> Alive(book[i])
      /\ \A i \in 1 .. Len(book) : Pass!Exposure(i) = Commits(book[i])
  BY DEF Pass!Live, Alive, Pass!Exposure, Commits
<1>4. T \subseteq 1 .. Len(book) /\ DOMAIN book = 1 .. Len(book)
  BY <1>1 DEF Pass!Exposed
<1>5. IsFiniteSet(T)
  BY <1>4, FS_Interval, FS_Subset
<1>6. f \in [S -> Nat] /\ g \in [T -> Nat]
  <2>1. \A i \in 1 .. Len(book) : Commits(book[i]) \in Nat
    BY <1>2 DEF Commits, Entry
  <2>2. S \subseteq 1 .. Len(book)
    BY <1>4 DEF Among
  <2> HIDE DEF S, T
  <2>3. QED
    BY <1>3, <1>4, <2>1, <2>2
<1>7. \A i \in S : f[i] # 0 => i \in T /\ f[i] <= g[i]
  <2>1. SUFFICES ASSUME NEW i \in S, f[i] # 0
                 PROVE  i \in T /\ f[i] <= g[i]
    OBVIOUS
  <2>2. i \in 1 .. Len(book) /\ i # e /\ book[i].symbol \in xs /\ f[i] = Commits(book[i])
    BY <1>4 DEF Among
  <2>3. f[i] \in Nat
    BY <1>6
  <2>4. i \in Pass!Exposed(e)
    <3>1. CASE Alive(book[i])
      BY <1>3, <1>4, <2>2, <3>1 DEF Pass!Exposed
    <3>2. CASE ~Alive(book[i])
      <4>1. book[i].reserved # 0 /\ book[i].reserved \in Nat
        BY <1>2, <2>1, <2>2, <3>2 DEF Commits, Entry
      <4>2. Pass!Active(i)
        BY <1>1, <2>2, <4>1 DEF Regular, Pass!Active
      <4>3. book[i].reserved > 0
        BY <4>1
      <4>4. QED
        BY <1>4, <2>2, <4>2, <4>3 DEF Pass!Exposed
    <3>3. QED
      BY <3>1, <3>2
  <2>5. i \in T
    BY <2>2, <2>4
  <2>6. g[i] = f[i]
    BY <1>3, <2>2, <2>5
  <2>7. QED
    BY <2>3, <2>5, <2>6
<1>8. /\ Without(book, xs, e) = Total(f)
      /\ Pass!Of(xs, e) = Total(g)
  BY PassSums DEF Without, Pass!Of
<1> HIDE DEF S, T, f, g
<1>9. Total(g) \in Nat /\ Total(f) <= Total(g)
  BY <1>5, <1>6, <1>7, TotalIsNumber, TotalIsCovered
<1>10. QED
  BY <1>8, <1>9

\* What the governor permits fits in every limit.
LEMMA GovernorFits ==
  ASSUME PassTypes, Pass!PassAssumption, NEW x \in PassSymbols, NEW e, NEW bpr \in Nat,
         Pass!Governor(x, bpr, e)
  PROVE  Fits(book, x, e, bpr)
<1>1. SUFFICES ASSUME NEW limit \in Limits, x \in limit[1]
               PROVE  Without(book, limit[1], e) + bpr <= limit[2]
  BY DEF Fits
<1>2. \A xs \in SUBSET PassSymbols :
        /\ Pass!Of(xs, e) \in Nat /\ Without(book, xs, e) \in Nat
        /\ Without(book, xs, e) <= Pass!Of(xs, e)
  <2>1. book \in Seq(Entry)
    BY DEF PassTypes
  <2>2. QED
    BY <2>1, OfCovers, SumIsNumber
<1>3. {TotalCap, UnderlyingCap, ClassCap} \subseteq Nat
  BY DEF Pass!PassAssumption
<1>4. CASE limit = <<PassSymbols, TotalCap>>
  <2> DEFINE all == Pass!Derived(e)
             told == Pass!Reported
  <2>1. all = Pass!Of(PassSymbols, e) /\ all \in Nat
    BY <1>2 DEF Pass!Derived
  <2>2. told \in Nat
    <3>1. Pass!Foreign \in Nat
      <4>1. foreign \in [PassSymbols -> Nat] /\ IsFiniteSet(PassSymbols)
        <5>1. \A S : Pass!IsFiniteSet(S) <=> IsFiniteSet(S)
          BY DEF IsFiniteSet, Pass!IsFiniteSet
        <5>2. QED
          BY <5>1 DEF PassTypes, Pass!PassAssumption
      <4>2. QED
        BY <4>1, TotalIsNumber, PassSums DEF Pass!Foreign
    <3> DEFINE S == {i \in DOMAIN book : Pass!AtBroker(i)}
               h == [i \in S |-> book[i].cost]
    <3>2. IsFiniteSet(S) /\ h \in [S -> Nat]
      <4>1. DOMAIN book = 1 .. Len(book) /\ \A i \in 1 .. Len(book) : book[i] \in Entry
        BY DEF PassTypes
      <4>2. S \subseteq 1 .. Len(book)
        BY <4>1
      <4>3. \A i \in S : book[i].cost \in Nat
        BY <4>1, <4>2 DEF Entry
      <4>4. h \in [S -> Nat]
        BY <4>3
      <4> HIDE DEF S, h
      <4>5. IsFiniteSet(S)
        <5>1. Len(book) \in Nat
          BY DEF PassTypes
        <5>2. IsFiniteSet(1 .. Len(book))
          BY <5>1, FS_Interval
        <5>3. QED
          BY <4>2, <5>2, FS_Subset
      <4>6. QED
        BY <4>4, <4>5
    <3>3. told = Pass!Foreign + Total(h)
      BY PassSums DEF Pass!Reported
    <3> HIDE DEF S, h
    <3>4. Total(h) \in Nat
      BY <3>2, TotalIsNumber
    <3>5. QED
      BY <3>1, <3>3, <3>4
  <2>3. PICK total \in Pass!TotalReserved(e) : total + bpr <= TotalCap
    BY DEF Pass!Governor, Pass!BuyingPower
  <2>4. total \in Nat /\ all <= total
    <3>1. total = all \/ (total = told /\ ~(all >= told))
      BY <2>3 DEF Pass!TotalReserved
    <3> HIDE DEF all, told
    <3>2. QED
      BY <2>1, <2>2, <3>1
  <2>5. limit[1] = PassSymbols /\ limit[2] = TotalCap
    BY <1>4
  <2> HIDE DEF all, told
  <2>6. Without(book, PassSymbols, e) \in Nat /\ Without(book, PassSymbols, e) <= all
    BY <1>2, <2>1
  <2>7. QED
    BY <1>3, <2>1, <2>3, <2>4, <2>5, <2>6
<1>5. ASSUME NEW y \in PassSymbols, limit = <<{y}, UnderlyingCap>>
      PROVE  Without(book, limit[1], e) + bpr <= limit[2]
  <2>1. limit[1] = {x} /\ limit[2] = UnderlyingCap /\ {x} \in SUBSET PassSymbols
    BY <1>1, <1>5
  <2>2. Pass!Of({x}, e) + bpr <= UnderlyingCap
    BY DEF Pass!Governor, Pass!UnderlyingConcentration
  <2>3. QED
    BY <1>2, <1>3, <2>1, <2>2
<1>6. ASSUME NEW class \in Groupings, NEW y \in PassSymbols,
             limit = <<{z \in PassSymbols : class[z] = class[y]}, ClassCap>>
      PROVE  Without(book, limit[1], e) + bpr <= limit[2]
  <2> DEFINE xs == {z \in PassSymbols : class[z] = class[x]}
  <2>1. limit[1] = xs /\ limit[2] = ClassCap
    BY <1>1, <1>6
  <2>2. Pass!Of(xs, e) + bpr <= ClassCap
    BY <1>6 DEF Pass!Governor, Pass!GroupConcentration
  <2>3. xs \in SUBSET PassSymbols
    OBVIOUS
  <2> HIDE DEF xs
  <2>4. QED
    BY <1>2, <1>3, <2>1, <2>2, <2>3
<1>7. QED
  BY <1>1, <1>4, <1>5, <1>6 DEF Limits
\* What a rewritten entry is: its changes, and elsewhere what it was.
LEMMA ChangedIs ==
  ASSUME NEW old \in Entry, NEW changes
  PROVE  LET new == Pass!Changed(old, changes)
         IN /\ DOMAIN new = {"symbol", "state", "reserved", "position", "cost", "order"}
            /\ \A f \in DOMAIN new : new[f] = IF f \in DOMAIN changes THEN changes[f] ELSE old[f]
            /\ new = [symbol |-> new.symbol, state |-> new.state, reserved |-> new.reserved,
                      position |-> new.position, cost |-> new.cost, order |-> new.order]
<1>1. DOMAIN old = {"symbol", "state", "reserved", "position", "cost", "order"}
  BY DEF Entry
<1>2. QED
  BY <1>1 DEF Pass!Changed

\* One entry is rewritten.
Rewrites(rows, rows2, e) ==
  /\ Len(rows2) = Len(rows)
  /\ \A i \in 1 .. Len(rows) : i # e => rows2[i] = rows[i]
  /\ rows2[e].symbol = rows[e].symbol

\* A rewritten entry that commits no more breaks no limit.
LEMMA LessHolds ==
  ASSUME NEW rows \in Seq(Entry), NEW rows2 \in Seq(Entry), NEW e \in 1 .. Len(rows),
         Rewrites(rows, rows2, e), Commits(rows2[e]) <= Commits(rows[e]), Holds(rows),
         Pass!PassAssumption
  PROVE  Holds(rows2)
<1>1. SUFFICES ASSUME NEW limit \in Limits
               PROVE  Sum(rows2, limit[1]) <= limit[2]
  BY DEF Holds
<1>2. \A i \in 1 .. Len(rows2) : i # 0 =>
        /\ i \in 1 .. Len(rows) /\ rows2[i].symbol = rows[i].symbol
        /\ Commits(rows2[i]) <= Commits(rows[i])
  <2>1. \A i \in 1 .. Len(rows) : Commits(rows[i]) \in Nat
    <3>1. \A i \in 1 .. Len(rows) : rows[i] \in Entry
      OBVIOUS
    <3>2. QED
      BY <3>1 DEF Commits, Entry
  <2>2. TAKE i \in 1 .. Len(rows2)
  <2>3. CASE i = e
    BY <2>3 DEF Rewrites
  <2>4. CASE i # e
    BY <2>1, <2>4 DEF Rewrites
  <2>5. QED
    BY <2>3, <2>4
<1>3. Without(rows2, limit[1], 0) <= Without(rows, limit[1], 0)
  BY <1>2, OthersKeep
<1>4. Sum(rows2, limit[1]) = Without(rows2, limit[1], 0) /\ Sum(rows, limit[1]) = Without(rows, limit[1], 0)
  <2>1. \A xs : Among(rows, xs) \ {0} = Among(rows, xs) /\ Among(rows2, xs) \ {0} = Among(rows2, xs)
    BY DEF Among
  <2>2. QED
    BY <2>1 DEF Sum, Without
<1>5. Sum(rows, limit[1]) \in Nat /\ Sum(rows2, limit[1]) \in Nat
  BY SumIsNumber
<1>6. Sum(rows, limit[1]) <= limit[2]
  BY DEF Holds
<1>7. limit[2] \in Nat
  BY DEF Limits, Pass!PassAssumption
<1>8. QED
  BY <1>3, <1>4, <1>5, <1>6, <1>7

\* An entry that commits what fits breaks no limit.
LEMMA FittingHolds ==
  ASSUME NEW rows \in Seq(Entry), NEW rows2 \in Seq(Entry), NEW e \in 1 .. Len(rows2),
         NEW bpr \in Nat, Pass!PassAssumption,
         \A i \in 1 .. Len(rows2) : i # e => i \in 1 .. Len(rows) /\ rows2[i] = rows[i],
         Commits(rows2[e]) <= bpr, Holds(rows), Fits(rows, rows2[e].symbol, e, bpr)
  PROVE  Holds(rows2)
<1>1. SUFFICES ASSUME NEW limit \in Limits
               PROVE  Sum(rows2, limit[1]) <= limit[2]
  BY DEF Holds
<1>2. limit[2] \in Nat
  BY DEF Limits, Pass!PassAssumption
<1>3. /\ Sum(rows, limit[1]) \in Nat /\ Sum(rows, limit[1]) <= limit[2]
      /\ Without(rows, limit[1], e) \in Nat /\ Without(rows2, limit[1], e) \in Nat
  BY SumIsNumber DEF Holds
<1>4. Without(rows2, limit[1], e) <= Without(rows, limit[1], e)
  <2>1. \A i \in 1 .. Len(rows2) : i # e =>
          /\ i \in 1 .. Len(rows) /\ rows2[i].symbol = rows[i].symbol
          /\ Commits(rows2[i]) <= Commits(rows[i])
    <3>1. \A i \in 1 .. Len(rows) : Commits(rows[i]) \in Nat
      <4>1. \A i \in 1 .. Len(rows) : rows[i] \in Entry
        OBVIOUS
      <4>2. QED
        BY <4>1 DEF Commits, Entry
    <3>2. QED
      BY <3>1
  <2>2. QED
    BY <2>1, OthersKeep
<1>5. Without(rows, limit[1], e) <= Sum(rows, limit[1])
  <2> DEFINE T == Among(rows, limit[1])
             S == T \ {e}
             f == [i \in S |-> Commits(rows[i])]
             g == [i \in T |-> Commits(rows[i])]
  <2>1. IsFiniteSet(T) /\ \A i \in T : Commits(rows[i]) \in Nat
    BY SumIsNumber
  <2>2. S \subseteq T /\ f \in [S -> Nat] /\ g \in [T -> Nat] /\ \A i \in S : f[i] <= g[i]
    BY <2>1
  <2>3. Without(rows, limit[1], e) = Total(f) /\ Sum(rows, limit[1]) = Total(g)
    BY DEF Without, Sum
  <2> HIDE DEF S, T, f, g
  <2>4. Total(f) <= Total(g)
    BY <2>1, <2>2, TotalIsMonotone
  <2>5. QED
    BY <2>3, <2>4
<1>6. Sum(rows2, limit[1]) = Without(rows2, limit[1], e)
                              + (IF rows2[e].symbol \in limit[1] THEN Commits(rows2[e]) ELSE 0)
  BY SumSplits
<1>7. Commits(rows2[e]) \in Nat
  <2>1. rows2[e] \in Entry
    OBVIOUS
  <2>2. QED
    BY <2>1 DEF Commits, Entry
<1>8. CASE rows2[e].symbol \in limit[1]
  <2>1. Without(rows, limit[1], e) + bpr <= limit[2]
    BY <1>8 DEF Fits
  <2>2. Sum(rows2, limit[1]) = Without(rows2, limit[1], e) + Commits(rows2[e])
    BY <1>6, <1>8
  <2>3. QED
    BY <1>2, <1>3, <1>4, <1>7, <2>1, <2>2
<1>9. CASE rows2[e].symbol \notin limit[1]
  <2>1. Sum(rows2, limit[1]) = Without(rows2, limit[1], e)
    BY <1>3, <1>6, <1>9
  <2>2. QED
    BY <1>2, <1>3, <1>4, <1>5, <2>1
<1>10. QED
  BY <1>8, <1>9
-----------------------------------------------------------------------------
(* The steps of a pass.  Each lemma is of the actions that its name says. *)

\* What holds of an assumption's instances.
LEMMA PassConstants ==
  /\ Pass!PassAssumption /\ IsFiniteSet(PassSymbols)
  /\ \A bpr \in Pass!Candidate : bpr \in Nat /\ bpr > 0
<1>1. Pass!PassAssumption
  BY OrdersAssumption
<1>2. \A S : Pass!IsFiniteSet(S) <=> IsFiniteSet(S)
  BY DEF IsFiniteSet, Pass!IsFiniteSet
<1>3. QED
  BY <1>1, <1>2 DEF Pass!PassAssumption, Pass!Candidate

\* A step that leaves the book alone keeps everything but where the pass is.
LEMMA BookStays ==
  ASSUME PassInv, UNCHANGED book,
         foreign' \in [PassSymbols -> Nat], cost' \in Nat,
         \/ pc' = "idle"
         \/ pc' = "agreed" /\ \A i \in Resting(book) : book[i].position = "UNCERTAIN"
         \/ pc' = "doubtful"
         \/ pc' \in {"serving", "new", "proposing"} /\ Resting(book) = {},
         todo' \subseteq 1 .. Len(book)
  PROVE  PassInv'
<1>1. PassTypes'
  BY DEF PassInv, PassTypes
<1>2. Bounded'
  BY DEF PassInv, Bounded
<1>3. AtMostOneRests'
  BY DEF PassInv, AtMostOneRests
<1>4. QED
  BY <1>1, <1>2, <1>3 DEF PassInv

\* Reconcile, Gate, Skip, EndPass, TradeByHand and Crash.
LEMMA QuietSteps ==
  ASSUME PassInv,
         \/ Pass!Reconcile \/ Pass!Gate \/ Pass!Skip \/ Pass!EndPass \/ Pass!Crash
         \/ \E x \in PassSymbols : Pass!TradeByHand(x)
  PROVE  PassInv'
<1> USE DEF PassInv
<1>1. /\ book \in Seq(Entry) /\ \A i \in 1 .. Len(book) : Regular(book[i])
      /\ foreign \in [PassSymbols -> Nat] /\ cost \in Nat /\ todo \subseteq 1 .. Len(book)
      /\ DOMAIN book = 1 .. Len(book)
  BY DEF PassTypes
<1>2. {} \subseteq 1 .. Len(book) /\ 0 \in Nat
  OBVIOUS
<1>3. CASE Pass!Reconcile
  <2>1. UNCHANGED <<book, foreign, cost, todo>>
    BY <1>3 DEF Pass!Reconcile
  <2>2. ASSUME Pass!Agrees, NEW i \in Resting(book)
        PROVE  book[i].position = "UNCERTAIN"
    <3>1. i \in 1 .. Len(book) /\ book[i].order = "resting"
      BY <2>2 DEF Resting
    <3>2. book[i] \in Entry /\ Regular(book[i])
      BY <1>1, <3>1
    <3>3. book[i].position # None /\ book[i].position # "OPEN"
      BY <3>1, <3>2, PassConstants DEF Regular, Pass!PassAssumption
    <3>4. Pass!Live(i)
      BY <1>1, <2>2, <3>1, <3>3 DEF Pass!Agrees, Pass!OrdersAgree
    <3>5. QED
      BY <1>1, <2>2, <3>1, <3>3, <3>4 DEF Pass!Agrees, Pass!Live
  <2>3. QED
    BY <1>1, <1>3, <2>1, <2>2, BookStays DEF Pass!Reconcile
<1>4. CASE Pass!Gate
  <2>1. UNCHANGED <<book, foreign>> /\ pc \in {"agreed", "doubtful"}
    BY <1>4 DEF Pass!Gate
  <2>2. cost' \in Nat /\ todo' \subseteq 1 .. Len(book)
    BY <1>1, <1>2, <1>4 DEF Pass!Gate, Pass!Rests
  <2>3. pc' = "idle" \/ (pc' \in {"serving", "proposing"} /\ Pass!MayOpen)
    BY <1>4 DEF Pass!Gate, Pass!Rests
  <2>4. ASSUME Pass!MayOpen
        PROVE  Resting(book) = {}
    <3>1. \A i \in Resting(book) : i \in 1 .. Len(book)
      BY DEF Resting
    <3>2. QED
      BY <1>1, <2>4, <3>1 DEF Pass!MayOpen, AtMostOneRests
  <2>5. QED
    BY <1>1, <2>1, <2>2, <2>3, <2>4, BookStays
<1>5. CASE Pass!Skip
  <2>1. UNCHANGED <<book, foreign, pc>> /\ pc \in {"serving", "new"} /\ cost' = 0
        /\ todo' \subseteq todo
    BY <1>5 DEF Pass!Skip, Pass!Passes
  <2>2. Resting(book) = {}
    BY <2>1 DEF AtMostOneRests
  <2>3. QED
    BY <1>1, <1>2, <2>1, <2>2, BookStays
<1>6. CASE Pass!EndPass
  <2>1. UNCHANGED <<book, foreign>> /\ pc' = "idle" /\ cost' = 0 /\ todo' = {}
    BY <1>6 DEF Pass!EndPass, Pass!Rests
  <2>2. QED
    BY <1>1, <1>2, <2>1, BookStays
<1>7. CASE Pass!Crash
  <2>1. UNCHANGED <<book, foreign>> /\ pc' = "idle" /\ cost' = 0 /\ todo' = {}
    BY <1>7 DEF Pass!Crash, Pass!Rests
  <2>2. QED
    BY <1>1, <1>2, <2>1, BookStays
<1>8. ASSUME NEW x \in PassSymbols, Pass!TradeByHand(x)
      PROVE  PassInv'
  <2>1. UNCHANGED <<book, pc, todo, cost>> /\ pc = "idle"
    BY <1>8 DEF Pass!TradeByHand
  <2>2. foreign' \in [PassSymbols -> Nat]
    BY <1>1, <1>8 DEF Pass!TradeByHand
  <2>3. QED
    BY <1>1, <2>1, <2>2, BookStays
<1>9. QED
  BY <1>3, <1>4, <1>5, <1>6, <1>7, <1>8
\* A step that rewrites an entry.
LEMMA SetIs ==
  ASSUME PassTypes, NEW e \in 1 .. Len(book), NEW changes, Pass!Set(e, changes),
         Pass!Changed(book[e], changes) \in Entry, Regular(Pass!Changed(book[e], changes)),
         Pass!Changed(book[e], changes).symbol = book[e].symbol
  PROVE  /\ book' \in Seq(Entry) /\ Rewrites(book, book', e)
         /\ book'[e] = Pass!Changed(book[e], changes)
         /\ \A i \in 1 .. Len(book') : Regular(book'[i])
<1> DEFINE new == Pass!Changed(book[e], changes)
<1>1. book \in Seq(Entry) /\ \A i \in 1 .. Len(book) : Regular(book[i])
  BY DEF PassTypes
<1>2. book' = [book EXCEPT ![e] = new]
  BY DEF Pass!Set
<1>3. new \in Entry /\ Regular(new) /\ new.symbol = book[e].symbol
  OBVIOUS
<1> HIDE DEF new
<1>4. book' \in Seq(Entry) /\ Len(book') = Len(book) /\ book'[e] = new
      /\ \A i \in 1 .. Len(book) : i # e => book'[i] = book[i]
  BY <1>1, <1>2, <1>3
<1>5. Rewrites(book, book', e)
  BY <1>3, <1>4 DEF Rewrites
<1>6. \A i \in 1 .. Len(book') : Regular(book'[i])
  BY <1>1, <1>3, <1>4
<1>7. QED
  BY <1>4, <1>5, <1>6 DEF new

\* What an entry is after some changes: the changes, and elsewhere what it was.
Takes(new, old, changes) ==
  /\ new.symbol = old.symbol
  /\ new.state = IF "state" \in DOMAIN changes THEN changes["state"] ELSE old.state
  /\ new.reserved = IF "reserved" \in DOMAIN changes THEN changes["reserved"] ELSE old.reserved
  /\ new.position = IF "position" \in DOMAIN changes THEN changes["position"] ELSE old.position
  /\ new.cost = IF "cost" \in DOMAIN changes THEN changes["cost"] ELSE old.cost
  /\ new.order = IF "order" \in DOMAIN changes THEN changes["order"] ELSE old.order
  /\ new.state \in Pass!EntryState /\ new.reserved \in Nat /\ new.position \in Places
     /\ new.cost \in Nat /\ new.order \in OpeningOrders => new \in Entry

\* So it is with Changed.
LEMMA FieldsOf ==
  ASSUME NEW old \in Entry, NEW changes, NEW new, new = Pass!Changed(old, changes),
         "symbol" \notin DOMAIN changes
  PROVE  Takes(new, old, changes)
<1>1. /\ DOMAIN new = {"symbol", "state", "reserved", "position", "cost", "order"}
      /\ \A f \in DOMAIN new : new[f] = IF f \in DOMAIN changes THEN changes[f] ELSE old[f]
      /\ new = [symbol |-> new.symbol, state |-> new.state, reserved |-> new.reserved,
                position |-> new.position, cost |-> new.cost, order |-> new.order]
  BY ChangedIs
<1>2. new.symbol = old.symbol /\ old.symbol \in PassSymbols
  BY <1>1 DEF Entry
<1>3. new.state \in Pass!EntryState
            /\ new.reserved \in Nat /\ new.position \in Places /\ new.cost \in Nat
            /\ new.order \in OpeningOrders => new \in Entry
  BY <1>1, <1>2 DEF Entry
<1>4. QED
  BY <1>1, <1>2, <1>3 DEF Takes

\* What fits still fits when an entry commits no more.
LEMMA LessFits ==
  ASSUME NEW rows \in Seq(Entry), NEW rows2 \in Seq(Entry), NEW e \in 1 .. Len(rows),
         Rewrites(rows, rows2, e), Commits(rows2[e]) <= Commits(rows[e]),
         Pass!PassAssumption, NEW x, NEW k, NEW bpr \in Nat, Fits(rows, x, k, bpr)
  PROVE  Fits(rows2, x, k, bpr)
<1>1. SUFFICES ASSUME NEW limit \in Limits, x \in limit[1]
               PROVE  Without(rows2, limit[1], k) + bpr <= limit[2]
  BY DEF Fits
<1>2. \A i \in 1 .. Len(rows2) : i # k =>
        /\ i \in 1 .. Len(rows) /\ rows2[i].symbol = rows[i].symbol
        /\ Commits(rows2[i]) <= Commits(rows[i])
  <2>1. \A i \in 1 .. Len(rows) : Commits(rows[i]) \in Nat
    <3>1. \A i \in 1 .. Len(rows) : rows[i] \in Entry
      OBVIOUS
    <3>2. QED
      BY <3>1 DEF Commits, Entry
  <2>2. TAKE i \in 1 .. Len(rows2)
  <2>3. CASE i = e
    BY <2>3 DEF Rewrites
  <2>4. CASE i # e
    BY <2>1, <2>4 DEF Rewrites
  <2>5. QED
    BY <2>3, <2>4
<1>3. Without(rows2, limit[1], k) <= Without(rows, limit[1], k)
  BY <1>2, OthersKeep
<1>4. Without(rows, limit[1], k) \in Nat /\ Without(rows2, limit[1], k) \in Nat
  BY SumIsNumber
<1>5. Without(rows, limit[1], k) + bpr <= limit[2] /\ limit[2] \in Nat
  BY <1>1 DEF Fits, Limits, Pass!PassAssumption
<1>6. QED
  BY <1>3, <1>4, <1>5

\* A step that rewrites one entry and has it commit no more, in the middle of a pass.
LEMMA EntryKeeps ==
  ASSUME PassInv, NEW e \in 1 .. Len(book), NEW new, book' \in Seq(Entry),
         Rewrites(book, book', e), book'[e] = new,
         \A i \in 1 .. Len(book') : Regular(book'[i]),
         Commits(new) <= Commits(book[e]), UNCHANGED foreign,
         new.order = "resting" => book[e].order = "resting" /\ new.position = book[e].position,
         \/ /\ UNCHANGED <<pc, todo, cost>>
            /\ pc \in {"submitted", "working"} =>
                 new.position = book[e].position /\ new.cost = book[e].cost
         \/ /\ pc \in {"serving", "new"} /\ UNCHANGED pc
            /\ todo' \subseteq todo /\ cost' \in Nat
         \/ /\ pc \in {"serving", "new"} /\ pc' = "attempted" /\ todo' = {e}
            /\ cost' \in Nat /\ Fits(book, book[e].symbol, e, cost')
  PROVE  PassInv'
<1> USE PassConstants DEF PassInv
<1>1. /\ book \in Seq(Entry) /\ Len(book') = Len(book) /\ e \in Nat
      /\ todo \subseteq 1 .. Len(book) /\ cost \in Nat
      /\ book'[e].symbol = book[e].symbol
  BY DEF PassTypes, Rewrites
<1>2. PassTypes'
  BY <1>1 DEF PassTypes
<1>3. Holds(book')
  BY <1>1, LessHolds DEF Bounded
<1>4. ASSUME NEW x, NEW k, NEW bpr \in Nat, Fits(book, x, k, bpr)
      PROVE  Fits(book', x, k, bpr)
  BY <1>1, <1>4, LessFits
<1>5. \A i \in 1 .. Len(book) : book'[i].symbol = book[i].symbol
  BY <1>1 DEF Rewrites
<1>6. Resting(book') \subseteq Resting(book)
      /\ \A i \in Resting(book') : book'[i].position = book[i].position
  BY <1>1 DEF Resting, Rewrites
<1>7. AtMostOneRests'
  BY <1>6 DEF AtMostOneRests
<1>8. Bounded'
  <2>1. CASE UNCHANGED <<pc, todo, cost>> /\ (pc \in {"submitted", "working"} =>
                 new.position = book[e].position /\ new.cost = book[e].cost)
    <3>1. Eldest(todo)' = Eldest(todo)
      BY <2>1
    <3>2. pc = "attempted" => Fits(book', book'[Eldest(todo)].symbol, Eldest(todo), cost)
      <4>1. SUFFICES ASSUME pc = "attempted"
                     PROVE  Fits(book', book'[Eldest(todo)].symbol, Eldest(todo), cost)
        OBVIOUS
      <4>2. Eldest(todo) \in 1 .. Len(book)
        <5>1. todo # {} /\ todo \in SUBSET Nat
          BY <1>1, <4>1 DEF PassTypes
        <5>2. QED
          BY <1>1, <5>1, EldestIs
      <4>3. Fits(book, book[Eldest(todo)].symbol, Eldest(todo), cost)
        BY <4>1 DEF Bounded
      <4>4. Fits(book', book[Eldest(todo)].symbol, Eldest(todo), cost)
        BY <1>1, <1>4, <4>3
      <4>5. QED
        BY <1>5, <4>2, <4>4
    <3>3. pc \in {"submitted", "working"} => book'[Eldest(todo)].position = "OPENING"
                                             /\ book'[Eldest(todo)].cost = cost
      <4>1. SUFFICES ASSUME pc \in {"submitted", "working"}
                     PROVE  book'[Eldest(todo)].position = "OPENING"
                            /\ book'[Eldest(todo)].cost = cost
        OBVIOUS
      <4>2. Eldest(todo) \in 1 .. Len(book)
        <5>1. todo # {} /\ todo \in SUBSET Nat
          BY <1>1, <4>1 DEF PassTypes
        <5>2. QED
          BY <1>1, <5>1, EldestIs
      <4>3. book'[Eldest(todo)].position = book[Eldest(todo)].position
            /\ book'[Eldest(todo)].cost = book[Eldest(todo)].cost
        BY <2>1, <4>1, <4>2 DEF Rewrites
      <4>4. QED
        BY <4>1, <4>3 DEF Bounded
    <3>4. QED
      BY <1>3, <2>1, <3>1, <3>2, <3>3 DEF Bounded
  <2>2. CASE pc \in {"serving", "new"} /\ UNCHANGED pc
    BY <1>3, <2>2 DEF Bounded
  <2>3. CASE pc' = "attempted" /\ todo' = {e} /\ cost' \in Nat
             /\ Fits(book, book[e].symbol, e, cost')
    <3>1. Eldest(todo') = e
      BY <1>1, <2>3, EldestIs
    <3>2. Fits(book', book'[e].symbol, e, cost')
      BY <1>1, <1>4, <2>3
    <3>3. QED
      BY <1>3, <2>3, <3>1, <3>2 DEF Bounded
  <2>4. QED
    BY <2>1, <2>2, <2>3
<1>9. QED
  BY <1>2, <1>7, <1>8
\* Whom the pass is about: the oldest entry left, one of the book.
LEMMA OldestIs ==
  ASSUME PassInv, todo # {}
  PROVE  /\ Pass!Oldest = Eldest(todo) /\ Pass!Oldest \in todo
         /\ Pass!Oldest \in 1 .. Len(book) /\ book[Pass!Oldest] \in Entry
         /\ Regular(book[Pass!Oldest])
<1>1. todo \subseteq 1 .. Len(book) /\ todo \in SUBSET Nat /\ book \in Seq(Entry)
      /\ \A i \in 1 .. Len(book) : Regular(book[i])
  BY DEF PassInv, PassTypes
<1>2. Pass!Oldest = Eldest(todo) /\ Pass!Oldest \in todo
  BY <1>1, EldestIs
<1>3. QED
  BY <1>1, <1>2

\* Manage: an exit that is filled, due or not resolved.
LEMMA ManageSteps ==
  ASSUME PassInv, NEW e \in DOMAIN book, Pass!Manage(e)
  PROVE  PassInv'
<1> DEFINE old == book[e]
<1>1. /\ PassTypes /\ e \in 1 .. Len(book) /\ old \in Entry /\ Regular(old)
      /\ pc \in {"agreed", "doubtful"} /\ old.position = "OPEN"
      /\ UNCHANGED <<foreign, pc, todo, cost>>
  BY DEF PassInv, PassTypes, Pass!Manage
<1>2. PICK changes \in {[position |-> "CLOSED", order |-> "gone"], [position |-> "CLOSING"],
                        [position |-> "UNCERTAIN"]} : Pass!Set(e, changes)
  BY Zenon DEF Pass!Manage
<1> DEFINE new == Pass!Changed(old, changes)
<1>3. Takes(new, old, changes)
  BY <1>1, <1>2, FieldsOf
<1> HIDE DEF new
<1>4. /\ new.symbol = old.symbol /\ new.state = old.state /\ new.reserved = old.reserved
      /\ new.position \in {"CLOSED", "CLOSING", "UNCERTAIN"} /\ new.cost = old.cost
      /\ new.order \in {"gone", old.order}
  BY <1>2, <1>3 DEF Takes
<1>5. old.reserved = 0 /\ old.order # "resting" /\ old.cost \in Nat
  BY <1>1 DEF Regular, Entry
<1>6. new \in Entry
  BY <1>1, <1>3, <1>4 DEF Takes, Entry, Places, OpeningOrders
<1>7. Regular(new)
  BY <1>1, <1>4, PassConstants DEF Regular, Pass!PassAssumption
<1>8. Commits(new) <= Commits(old)
  BY <1>1, <1>4, <1>5 DEF Commits, Alive
<1>9. /\ book' \in Seq(Entry) /\ Rewrites(book, book', e) /\ book'[e] = new
      /\ \A i \in 1 .. Len(book') : Regular(book'[i])
  BY <1>1, <1>2, <1>4, <1>6, <1>7, SetIs DEF new
<1>10. QED
  BY <1>1, <1>4, <1>5, <1>8, <1>9, EntryKeeps

\* Sweep: an expired or refused entry ends.
LEMMA SweepSteps ==
  ASSUME PassInv, NEW e \in DOMAIN book, Pass!Sweep(e)
  PROVE  PassInv'
<1> DEFINE old == book[e]
           changes == [state |-> "ENDED", reserved |-> 0]
           new == Pass!Changed(old, changes)
<1>1. /\ PassTypes /\ e \in 1 .. Len(book) /\ old \in Entry /\ Regular(old)
      /\ pc \in {"agreed", "doubtful"}
      /\ UNCHANGED <<foreign, pc, todo, cost>> /\ Pass!Set(e, changes)
  BY DEF PassInv, PassTypes, Pass!Sweep
<1>2. Takes(new, old, changes)
  BY <1>1, FieldsOf
<1> HIDE DEF new
<1>3. /\ new.symbol = old.symbol /\ new.state = "ENDED" /\ new.reserved = 0
      /\ new.position = old.position /\ new.cost = old.cost /\ new.order = old.order
  BY <1>2 DEF Takes
<1>4. new \in Entry
  BY <1>1, <1>2, <1>3 DEF Takes, Entry, Pass!EntryState
<1>5. Regular(new)
  BY <1>1, <1>3 DEF Regular
<1>6. Commits(new) <= Commits(old)
  BY <1>1, <1>3 DEF Commits, Alive, Entry
<1>7. /\ book' \in Seq(Entry) /\ Rewrites(book, book', e) /\ book'[e] = new
      /\ \A i \in 1 .. Len(book') : Regular(book'[i])
  BY <1>1, <1>3, <1>4, <1>5, SetIs DEF new
<1>8. QED
  BY <1>1, <1>3, <1>6, <1>7, EntryKeeps

\* BrokerWorks: an order that rests fills or is gone; at most it rests no longer.
LEMMA PassBrokerSteps ==
  ASSUME PassInv, NEW e \in DOMAIN book, Pass!BrokerWorks(e)
  PROVE  PassInv'
<1> DEFINE old == book[e]
<1>1. /\ PassTypes /\ e \in 1 .. Len(book) /\ old \in Entry /\ Regular(old)
      /\ old.order \in {"resting", "partial"} /\ UNCHANGED <<foreign, pc, todo, cost>>
  BY DEF PassInv, PassTypes, Pass!BrokerWorks
<1>2. PICK changes \in {[order |-> "held"], [order |-> "gone"]} : Pass!Set(e, changes)
  BY Zenon DEF Pass!BrokerWorks
<1> DEFINE new == Pass!Changed(old, changes)
<1>3. Takes(new, old, changes)
  BY <1>1, <1>2, FieldsOf
<1> HIDE DEF new
<1>4. /\ new.symbol = old.symbol /\ new.state = old.state /\ new.reserved = old.reserved
      /\ new.position = old.position /\ new.cost = old.cost
      /\ new.order \in {"held", "gone"}
  BY <1>2, <1>3 DEF Takes
<1>5. new \in Entry
  BY <1>1, <1>3, <1>4 DEF Takes, Entry, OpeningOrders
<1>6. Regular(new)
  BY <1>1, <1>4, PassConstants DEF Regular, Pass!PassAssumption
<1>7. Commits(new) <= Commits(old)
  BY <1>1, <1>4 DEF Commits, Alive, Entry
<1>8. /\ book' \in Seq(Entry) /\ Rewrites(book, book', e) /\ book'[e] = new
      /\ \A i \in 1 .. Len(book') : Regular(book'[i])
  BY <1>1, <1>2, <1>4, <1>5, <1>6, SetIs DEF new
<1>9. QED
  BY <1>1, <1>4, <1>7, <1>8, EntryKeeps

\* Review and Authorize: the entry that is serviced moves on, at most to be sent.
LEMMA ServiceSteps ==
  ASSUME PassInv, Pass!Review \/ Pass!Authorize
  PROVE  PassInv'
<1> DEFINE e == Pass!Oldest
           old == book[e]
<1>1. /\ PassTypes /\ todo # {} /\ pc \in {"serving", "new"} /\ UNCHANGED foreign
      /\ todo \subseteq 1 .. Len(book)
  BY DEF PassInv, PassTypes, Pass!Review, Pass!Authorize
<1>2. e \in 1 .. Len(book) /\ old \in Entry /\ Regular(old)
  BY <1>1, OldestIs
<1>3. \E changes \in {[state |-> "AWAITING_REVIEW"], [state |-> "COOLDOWN"],
                      [state |-> "ENDED", reserved |-> 0], [state |-> "EXECUTING"],
                      [state |-> "APPROVED"]} :
        /\ Pass!Set(e, changes)
        /\ \/ UNCHANGED pc /\ todo' \subseteq todo /\ cost' \in Nat
           \/ /\ pc' = "attempted" /\ todo' = {e} /\ cost' \in Nat
              /\ Fits(book, old.symbol, e, cost')
  <2>1. CASE Pass!Review
    <3>1. Pass!Passes
      BY <2>1 DEF Pass!Review
    <3>2. UNCHANGED pc /\ todo' \subseteq todo /\ cost' \in Nat
      BY <3>1 DEF Pass!Passes
    <3>3. \E changes \in {[state |-> "AWAITING_REVIEW"], [state |-> "COOLDOWN"],
                          [state |-> "ENDED", reserved |-> 0]} : Pass!Set(e, changes)
      BY <2>1, Zenon DEF Pass!Review
    <3> HIDE DEF e
    <3>4. QED
      BY <3>2, <3>3, Zenon
  <2>2. CASE Pass!Authorize
    <3>1. PICK bpr \in Pass!Candidate :
            /\ Pass!Governor(old.symbol, bpr, e)
            /\ \/ /\ Pass!Set(e, [state |-> "EXECUTING"])
                  /\ cost' = bpr /\ todo' = {e} /\ pc' = "attempted"
               \/ Pass!Set(e, [state |-> "APPROVED"]) /\ Pass!Passes
      BY <2>2, Zenon DEF Pass!Authorize
    <3>2. bpr \in Nat
      BY PassConstants
    <3>3. Fits(book, old.symbol, e, bpr)
      <4>1. old.symbol \in PassSymbols
        BY <1>2 DEF Entry
      <4> HIDE DEF e, old
      <4>2. QED
        BY <1>1, <3>1, <3>2, <4>1, GovernorFits, PassConstants
    <3>4. CASE /\ Pass!Set(e, [state |-> "EXECUTING"])
               /\ cost' = bpr /\ todo' = {e} /\ pc' = "attempted"
      <4> HIDE DEF e, old
      <4>1. QED
        BY <3>2, <3>3, <3>4
    <3>5. CASE Pass!Set(e, [state |-> "APPROVED"]) /\ Pass!Passes
      <4>1. UNCHANGED pc /\ todo' \subseteq todo /\ cost' \in Nat
        BY <3>5 DEF Pass!Passes
      <4> HIDE DEF e, old
      <4>2. QED
        BY <3>5, <4>1
    <3>6. QED
      BY <3>1, <3>4, <3>5
  <2>3. QED
    BY <2>1, <2>2
<1> HIDE DEF e
<1>4. PICK changes \in {[state |-> "AWAITING_REVIEW"], [state |-> "COOLDOWN"],
                        [state |-> "ENDED", reserved |-> 0], [state |-> "EXECUTING"],
                        [state |-> "APPROVED"]} :
        /\ Pass!Set(e, changes)
        /\ \/ UNCHANGED pc /\ todo' \subseteq todo /\ cost' \in Nat
           \/ /\ pc' = "attempted" /\ todo' = {e} /\ cost' \in Nat
              /\ Fits(book, old.symbol, e, cost')
  BY <1>3
<1> DEFINE new == Pass!Changed(old, changes)
<1>5. Takes(new, old, changes)
  BY <1>2, <1>4, FieldsOf
<1> HIDE DEF new
<1>6. /\ new.symbol = old.symbol
      /\ new.state \in {"AWAITING_REVIEW", "COOLDOWN", "ENDED", "EXECUTING", "APPROVED"}
      /\ new.reserved \in {0, old.reserved} /\ (new.state = "ENDED" => new.reserved = 0)
      /\ new.position = old.position /\ new.cost = old.cost /\ new.order = old.order
  BY <1>4, <1>5 DEF Takes
<1>7. new \in Entry
  BY <1>2, <1>5, <1>6 DEF Takes, Entry, Pass!EntryState
<1>8. Regular(new)
  BY <1>2, <1>6 DEF Regular
<1>9. Commits(new) <= Commits(old)
  BY <1>2, <1>6 DEF Commits, Alive, Entry
<1>10. /\ book' \in Seq(Entry) /\ Rewrites(book, book', e) /\ book'[e] = new
       /\ \A i \in 1 .. Len(book') : Regular(book'[i])
  BY <1>1, <1>2, <1>4, <1>6, <1>7, <1>8, SetIs DEF new
<1>11. \/ /\ pc \in {"serving", "new"} /\ UNCHANGED pc
          /\ todo' \subseteq todo /\ cost' \in Nat
       \/ /\ pc \in {"serving", "new"} /\ pc' = "attempted" /\ todo' = {e}
          /\ cost' \in Nat /\ Fits(book, old.symbol, e, cost')
  BY <1>1, <1>4
<1>12. QED
  BY <1>1, <1>2, <1>6, <1>9, <1>10, <1>11, EntryKeeps

\* Submit: the position takes over from the reservation, at the cost that fits.
LEMMA SubmitSteps ==
  ASSUME PassInv, Pass!Submit
  PROVE  PassInv'
<1> DEFINE e == Pass!Oldest
           old == book[e]
           changes == [position |-> "OPENING", cost |-> cost]
           new == Pass!Changed(old, changes)
<1>1. /\ PassTypes /\ pc = "attempted" /\ pc' = "submitted"
      /\ UNCHANGED <<foreign, todo, cost>> /\ Pass!Set(e, changes)
      /\ todo # {} /\ todo \subseteq 1 .. Len(book) /\ book \in Seq(Entry) /\ cost \in Nat
      /\ foreign \in [PassSymbols -> Nat]
  BY DEF PassInv, PassTypes, Pass!Submit, Pass!Goes
<1>2. e \in 1 .. Len(book) /\ old \in Entry /\ Regular(old) /\ e = Eldest(todo)
  BY <1>1, OldestIs
<1> HIDE DEF e
<1>3. Takes(new, old, changes)
  BY <1>2, FieldsOf
<1> HIDE DEF new
<1>4. /\ new.symbol = old.symbol /\ new.state = old.state /\ new.reserved = old.reserved
      /\ new.position = "OPENING" /\ new.cost = cost /\ new.order = old.order
  BY <1>3 DEF Takes
<1>5. new \in Entry
  BY <1>1, <1>2, <1>3, <1>4 DEF Takes, Entry, Places
<1>6. Regular(new)
  BY <1>2, <1>4, PassConstants DEF Regular, Pass!PassAssumption
<1>7. /\ book' \in Seq(Entry) /\ Rewrites(book, book', e) /\ book'[e] = new
      /\ \A i \in 1 .. Len(book') : Regular(book'[i])
  BY <1>1, <1>2, <1>4, <1>5, <1>6, SetIs DEF new
<1>8. Holds(book')
  <2>1. Commits(new) <= cost
    BY <1>1, <1>4 DEF Commits, Alive
  <2>2. Holds(book) /\ Fits(book, book'[e].symbol, e, cost)
    BY <1>1, <1>2, <1>4, <1>7 DEF PassInv, Bounded
  <2>3. \A i \in 1 .. Len(book') : i # e => i \in 1 .. Len(book) /\ book'[i] = book[i]
    BY <1>7 DEF Rewrites
  <2>4. e \in 1 .. Len(book')
    BY <1>2, <1>7 DEF Rewrites
  <2>5. QED
    BY <1>1, <1>7, <2>1, <2>2, <2>3, <2>4, FittingHolds, PassConstants
<1>9. Eldest(todo') = e
  BY <1>1, <1>2
<1>10. PassTypes'
  BY <1>1, <1>7 DEF PassTypes, Rewrites
<1>11. Bounded'
  BY <1>1, <1>4, <1>7, <1>8, <1>9 DEF Bounded
<1>12. Resting(book') = {}
  <2>1. Resting(book) = {}
    BY <1>1 DEF PassInv, AtMostOneRests
  <2>2. \A i \in Resting(book') : i \in Resting(book)
    BY <1>4, <1>7 DEF Resting, Rewrites
  <2>3. QED
    BY <2>1, <2>2
<1>13. AtMostOneRests'
  BY <1>1, <1>12 DEF AtMostOneRests
<1>14. QED
  BY <1>10, <1>11, <1>13 DEF PassInv
\* Place: the order rests beside no other.
LEMMA PlaceSteps ==
  ASSUME PassInv, Pass!Place
  PROVE  PassInv'
<1> DEFINE e == Pass!Oldest
           old == book[e]
           changes == [order |-> "resting", cost |-> cost]
           new == Pass!Changed(old, changes)
<1>1. /\ PassTypes /\ pc = "submitted" /\ pc' = "working"
      /\ UNCHANGED <<foreign, todo, cost>> /\ Pass!Set(e, changes)
      /\ todo # {} /\ todo \subseteq 1 .. Len(book) /\ book \in Seq(Entry) /\ cost \in Nat
      /\ foreign \in [PassSymbols -> Nat]
  BY DEF PassInv, PassTypes, Pass!Place, Pass!Goes
<1>2. e \in 1 .. Len(book) /\ old \in Entry /\ Regular(old) /\ e = Eldest(todo)
  BY <1>1, OldestIs
<1>3. old.position = "OPENING" /\ old.cost = cost
  BY <1>1, <1>2 DEF PassInv, Bounded
<1> HIDE DEF e
<1>4. Takes(new, old, changes)
  BY <1>2, FieldsOf
<1> HIDE DEF new
<1>5. /\ new.symbol = old.symbol /\ new.state = old.state /\ new.reserved = old.reserved
      /\ new.position = "OPENING" /\ new.cost = cost /\ new.order = "resting"
  BY <1>3, <1>4 DEF Takes
<1>6. new \in Entry
  BY <1>1, <1>2, <1>4, <1>5 DEF Takes, Entry, Places, OpeningOrders
<1>7. Regular(new)
  BY <1>2, <1>5, PassConstants DEF Regular, Pass!PassAssumption
<1>8. /\ book' \in Seq(Entry) /\ Rewrites(book, book', e) /\ book'[e] = new
      /\ \A i \in 1 .. Len(book') : Regular(book'[i])
  BY <1>1, <1>2, <1>5, <1>6, <1>7, SetIs DEF new
<1>9. Holds(book')
  <2>1. Commits(new) <= Commits(old)
    BY <1>1, <1>3, <1>5 DEF Commits, Alive
  <2>2. QED
    BY <1>1, <1>2, <1>8, <2>1, LessHolds, PassConstants DEF PassInv, Bounded
<1>10. Eldest(todo') = e
  BY <1>1, <1>2
<1>11. PassTypes'
  BY <1>1, <1>8 DEF PassTypes, Rewrites
<1>12. Bounded'
  BY <1>1, <1>5, <1>8, <1>9, <1>10 DEF Bounded
<1>13. Resting(book') \subseteq {e}
  <2>1. Resting(book) = {}
    BY <1>1 DEF PassInv, AtMostOneRests
  <2>2. \A i \in Resting(book') : i # e => i \in Resting(book)
    BY <1>8 DEF Resting, Rewrites
  <2>3. QED
    BY <2>1, <2>2
<1>14. AtMostOneRests'
  BY <1>1, <1>10, <1>13 DEF AtMostOneRests
<1>15. QED
  BY <1>11, <1>12, <1>14 DEF PassInv

\* PlaceFails and Work: the pass ends with the order, whatever became of it.
LEMMA OutcomeSteps ==
  ASSUME PassInv, Pass!PlaceFails \/ Pass!Work
  PROVE  PassInv'
<1> DEFINE e == Pass!Oldest
           old == book[e]
           Outcomes ==
             {[position |-> "FAILED", state |-> "ENDED", reserved |-> 0],
              [position |-> "FAILED", state |-> "ENDED", reserved |-> 0, order |-> "resting"],
              [position |-> "OPEN", order |-> "held", state |-> "ENDED", reserved |-> 0],
              [position |-> "OPEN", order |-> "partial", state |-> "ENDED", reserved |-> 0],
              [position |-> "FAILED", order |-> "gone", state |-> "ENDED", reserved |-> 0],
              [position |-> "UNCERTAIN", order |-> "held"],
              [position |-> "UNCERTAIN", order |-> "resting"]}
<1>1. /\ PassTypes /\ pc \in {"submitted", "working"} /\ Pass!Rests /\ UNCHANGED foreign
      /\ todo # {} /\ todo \subseteq 1 .. Len(book) /\ book \in Seq(Entry) /\ cost \in Nat
      /\ foreign \in [PassSymbols -> Nat]
  BY DEF PassInv, PassTypes, Pass!PlaceFails, Pass!Work
<1>2. e \in 1 .. Len(book) /\ old \in Entry /\ Regular(old) /\ e = Eldest(todo)
  BY <1>1, OldestIs
<1>3. old.position = "OPENING" /\ old.cost = cost
  BY <1>1, <1>2 DEF PassInv, Bounded
<1>4. \E changes \in Outcomes : Pass!Set(e, changes)
  <2>1. CASE Pass!PlaceFails
    <3>1. \/ Pass!Set(e, [position |-> "FAILED", state |-> "ENDED", reserved |-> 0])
          \/ Pass!Set(e, [position |-> "FAILED", state |-> "ENDED", reserved |-> 0,
                          order |-> "resting"])
      BY <2>1, Zenon DEF Pass!PlaceFails
    <3> HIDE DEF e
    <3>2. QED
      BY <3>1, Zenon
  <2>2. CASE Pass!Work
    <3>1. \/ \E k \in {"held", "partial"} :
               Pass!Set(e, [position |-> "OPEN", order |-> k, state |-> "ENDED",
                            reserved |-> 0])
          \/ Pass!Set(e, [position |-> "FAILED", order |-> "gone", state |-> "ENDED",
                          reserved |-> 0])
          \/ \E k \in {"held", "resting"} :
               Pass!Set(e, [position |-> "UNCERTAIN", order |-> k])
      BY <2>2, Zenon DEF Pass!Work
    <3> HIDE DEF e
    <3>2. ASSUME NEW k \in {"held", "partial"},
                 Pass!Set(e, [position |-> "OPEN", order |-> k, state |-> "ENDED",
                              reserved |-> 0])
          PROVE  \E changes \in Outcomes : Pass!Set(e, changes)
      <4>1. k = "held" \/ k = "partial"
        OBVIOUS
      <4>2. QED
        BY <3>2, <4>1, Zenon
    <3>3. ASSUME NEW k \in {"held", "resting"},
                 Pass!Set(e, [position |-> "UNCERTAIN", order |-> k])
          PROVE  \E changes \in Outcomes : Pass!Set(e, changes)
      <4>1. k = "held" \/ k = "resting"
        OBVIOUS
      <4>2. QED
        BY <3>3, <4>1, Zenon
    <3>4. QED
      BY <3>1, <3>2, <3>3, Zenon
  <2>3. QED
    BY <2>1, <2>2
<1> HIDE DEF e
<1>5. PICK changes \in Outcomes : Pass!Set(e, changes)
  BY <1>4
<1> DEFINE new == Pass!Changed(old, changes)
<1>6. Takes(new, old, changes)
  BY <1>2, FieldsOf
<1> HIDE DEF new
<1>7. /\ new.symbol = old.symbol /\ new.cost = cost
      /\ \/ /\ new.position = "FAILED" /\ new.state = "ENDED" /\ new.reserved = 0
            /\ new.order \in {old.order, "resting", "gone"}
         \/ /\ new.position = "OPEN" /\ new.state = "ENDED" /\ new.reserved = 0
            /\ new.order \in {"held", "partial"}
         \/ /\ new.position = "UNCERTAIN" /\ new.state = old.state
            /\ new.reserved = old.reserved /\ new.order \in {"held", "resting"}
  BY <1>3, <1>5, <1>6 DEF Takes
<1>8. new \in Entry
  BY <1>1, <1>2, <1>6, <1>7 DEF Takes, Entry, Places, OpeningOrders, Pass!EntryState
<1>9. Regular(new)
  BY <1>2, <1>7, PassConstants DEF Regular, Pass!PassAssumption
<1>10. /\ book' \in Seq(Entry) /\ Rewrites(book, book', e) /\ book'[e] = new
       /\ \A i \in 1 .. Len(book') : Regular(book'[i])
  BY <1>1, <1>2, <1>5, <1>7, <1>8, <1>9, SetIs DEF new
<1>11. Holds(book')
  <2>1. Commits(new) <= Commits(old)
    BY <1>1, <1>3, <1>7 DEF Commits, Alive
  <2>2. QED
    BY <1>1, <1>2, <1>10, <2>1, LessHolds, PassConstants DEF PassInv, Bounded
<1>12. pc' = "idle" /\ todo' = {} /\ cost' = 0
  BY <1>1 DEF Pass!Rests
<1>13. PassTypes'
  BY <1>1, <1>10, <1>12 DEF PassTypes, Rewrites
<1>14. Bounded'
  BY <1>11, <1>12 DEF Bounded
<1>15. Resting(book') \subseteq {e}
  <2>1. Resting(book) \subseteq {e}
    BY <1>1, <1>2 DEF PassInv, AtMostOneRests
  <2>2. \A i \in Resting(book') : i # e => i \in Resting(book)
    BY <1>10 DEF Resting, Rewrites
  <2>3. QED
    BY <2>1, <2>2
<1>16. AtMostOneRests'
  BY <1>12, <1>15 DEF AtMostOneRests
<1>17. QED
  BY <1>13, <1>14, <1>16 DEF PassInv

\* Propose and Claim: one more entry, whose symbol and cost the governor permits.
LEMMA EntrySteps ==
  ASSUME PassInv, NEW x \in PassSymbols, Pass!Propose(x) \/ Pass!Claim(x)
  PROVE  PassInv'
<1> DEFINE n == Len(book) + 1
<1>1. /\ PassTypes /\ book \in Seq(Entry) /\ cost \in Nat /\ n \in Nat
      /\ foreign \in [PassSymbols -> Nat] /\ todo' = {n} /\ UNCHANGED foreign
      /\ \A i \in 1 .. Len(book) : Regular(book[i])
      /\ pc \in {"proposing", "serving"} /\ Holds(book)
  BY DEF PassInv, PassTypes, Bounded, Pass!Propose, Pass!Claim
<1>2. \E bpr \in Pass!Candidate :
        /\ Pass!Governor(x, bpr, 0)
        /\ \/ /\ book' = Append(book, Pass!NewEntry(x, "ENDED", 0))
              /\ pc' = "attempted" /\ cost' = bpr
           \/ /\ book' = Append(book, Pass!NewEntry(x, "CLAIMED", bpr))
              /\ pc' = "new" /\ cost' = cost
  BY DEF Pass!Propose, Pass!Claim
<1>3. PICK bpr \in Nat :
        /\ Pass!Governor(x, bpr, 0)
        /\ \/ /\ book' = Append(book, Pass!NewEntry(x, "ENDED", 0))
              /\ pc' = "attempted" /\ cost' = bpr
           \/ /\ book' = Append(book, Pass!NewEntry(x, "CLAIMED", bpr))
              /\ pc' = "new" /\ cost' = cost
  BY <1>2, PassConstants
<1>4. PICK new \in {Pass!NewEntry(x, "ENDED", 0), Pass!NewEntry(x, "CLAIMED", bpr)} :
        book' = Append(book, new)
  BY <1>3
<1>5. /\ new \in Entry /\ Regular(new) /\ new.symbol = x /\ new.order # "resting"
      /\ Commits(new) \in Nat /\ Commits(new) <= bpr
  <2>1. PICK s \in {"ENDED", "CLAIMED"}, r \in {0, bpr} :
          /\ new = [symbol |-> x, state |-> s, reserved |-> r, position |-> None, cost |-> 0,
                    order |-> None]
          /\ (s = "ENDED" => r = 0)
    BY <1>4 DEF Pass!NewEntry
  <2>2. new \in Entry
    BY <2>1 DEF Entry, Places, OpeningOrders, Pass!EntryState
  <2>3. Regular(new) /\ new.symbol = x /\ new.order # "resting"
    BY <2>1, PassConstants DEF Regular, Pass!PassAssumption
  <2>4. Commits(new) = r
    BY <2>1, PassConstants DEF Commits, Alive, Pass!PassAssumption
  <2>5. QED
    BY <2>2, <2>3, <2>4
<1> HIDE DEF n
<1>6. /\ book' \in Seq(Entry) /\ Len(book') = n /\ book'[n] = new
      /\ \A i \in 1 .. n : i # n => i \in 1 .. Len(book) /\ book'[i] = book[i]
  BY <1>1, <1>4, <1>5 DEF n
<1>7. Fits(book, x, n, bpr)
  <2>1. Fits(book, x, 0, bpr)
    BY <1>1, <1>3, GovernorFits, PassConstants
  <2>2. \A xs : Among(book, xs) \ {n} = Among(book, xs) \ {0}
    BY <1>1 DEF Among, n
  <2>3. \A xs : Without(book, xs, n) = Without(book, xs, 0)
    BY <2>2 DEF Without
  <2>4. QED
    BY <2>1, <2>3 DEF Fits
<1>8. n \in 1 .. Len(book')
  BY <1>1, <1>6 DEF n
<1>9. Holds(book')
  BY <1>1, <1>5, <1>6, <1>7, <1>8, FittingHolds, PassConstants
<1>10. PassTypes'
  <2>1. \A i \in 1 .. Len(book') : Regular(book'[i])
    BY <1>1, <1>5, <1>6
  <2>2. cost' \in Nat /\ pc' \in {"attempted", "new"} /\ todo' \subseteq 1 .. Len(book')
    BY <1>1, <1>3, <1>8
  <2>3. QED
    BY <1>1, <1>6, <2>1, <2>2 DEF PassTypes
<1>11. Eldest(todo') = n
  BY <1>1, EldestIs
<1>12. pc' = "attempted" => Fits(book', x, n, cost')
  <2>1. SUFFICES ASSUME pc' = "attempted", NEW limit \in Limits, x \in limit[1]
                 PROVE  Without(book', limit[1], n) + bpr <= limit[2]
    BY <1>3 DEF Fits
  <2>2. \A i \in 1 .. Len(book') : i # n =>
          /\ i \in 1 .. Len(book) /\ book'[i].symbol = book[i].symbol
          /\ Commits(book'[i]) <= Commits(book[i])
    <3>1. \A i \in 1 .. Len(book) : Commits(book[i]) \in Nat
      <4>1. \A i \in 1 .. Len(book) : book[i] \in Entry
        BY <1>1
      <4>2. QED
        BY <4>1 DEF Commits, Entry
    <3>2. QED
      BY <1>6, <3>1
  <2>3. Without(book', limit[1], n) <= Without(book, limit[1], n)
    BY <1>1, <1>6, <2>2, OthersKeep
  <2>4. Without(book, limit[1], n) \in Nat /\ Without(book', limit[1], n) \in Nat
    BY <1>1, <1>6, SumIsNumber
  <2>5. Without(book, limit[1], n) + bpr <= limit[2] /\ limit[2] \in Nat
    BY <1>7, <2>1, PassConstants DEF Fits, Limits, Pass!PassAssumption
  <2>6. QED
    BY <2>3, <2>4, <2>5
<1>13. Bounded'
  BY <1>3, <1>5, <1>6, <1>9, <1>11, <1>12 DEF Bounded
<1>14. Resting(book') = {}
  <2>1. Resting(book) = {}
    BY <1>1 DEF PassInv, AtMostOneRests
  <2>2. \A i \in Resting(book') : i \in Resting(book)
    BY <1>5, <1>6 DEF Resting
  <2>3. QED
    BY <2>1, <2>2
<1>15. AtMostOneRests'
  BY <1>3, <1>14 DEF AtMostOneRests
<1>16. QED
  BY <1>10, <1>13, <1>15 DEF PassInv
\* A pass begins with an empty book.
LEMMA PassBegins == Pass!Init => PassInv
<1>1. SUFFICES ASSUME Pass!Init PROVE PassInv
  OBVIOUS
<1>2. /\ book = <<>> /\ foreign = [x \in PassSymbols |-> 0] /\ pc = "idle" /\ todo = {}
      /\ cost = 0
  BY <1>1 DEF Pass!Init
<1>3. PassTypes
  BY <1>2 DEF PassTypes
<1>4. Holds(book)
  <2>1. SUFFICES ASSUME NEW limit \in Limits
                 PROVE  Sum(book, limit[1]) <= limit[2]
    BY DEF Holds
  <2> DEFINE S == Among(book, limit[1])
             f == [i \in S |-> Commits(book[i])]
  <2>2. S = {}
    BY <1>2 DEF Among
  <2>3. Sum(book, limit[1]) = Total(f) /\ f \in [S -> Nat] /\ \A i \in S : f[i] = 0
    BY <2>2 DEF Sum
  <2> HIDE DEF S, f
  <2>4. Sum(book, limit[1]) = 0
    BY <2>3, TotalOfNone
  <2>5. limit[2] \in Nat
    BY PassConstants DEF Limits, Pass!PassAssumption
  <2>6. QED
    BY <2>4, <2>5
<1>5. Resting(book) = {}
  BY <1>2 DEF Resting
<1>6. QED
  BY <1>2, <1>3, <1>4, <1>5 DEF PassInv, Bounded, AtMostOneRests

\* The limits of the model are those of the invariant, and what is committed is its sums.
LEMMA PassIsSafe == PassInv => Pass!PassIsBounded
<1>1. SUFFICES ASSUME PassInv PROVE Pass!PassIsBounded
  OBVIOUS
<1>2. book \in Seq(Entry) /\ DOMAIN book = 1 .. Len(book)
  BY <1>1 DEF PassInv, PassTypes
<1>3. ASSUME NEW xs
      PROVE  Pass!Committed(xs) = Sum(book, xs)
  <2>1. \A i \in 1 .. Len(book) : Pass!Exposure(i) = Commits(book[i])
    BY DEF Pass!Live, Alive, Pass!Exposure, Commits
  <2>2. [i \in Among(book, xs) |-> Pass!Exposure(i)] = [i \in Among(book, xs) |-> Commits(book[i])]
    BY <1>2, <2>1 DEF Among
  <2>3. {i \in DOMAIN book : book[i].symbol \in xs} = Among(book, xs)
    BY DEF Among
  <2>4. QED
    BY <2>2, <2>3, PassSums DEF Pass!Committed, Sum
<1>4. ASSUME NEW xs, NEW cap, <<xs, cap>> \in Limits
      PROVE  Pass!Committed(xs) <= cap
  <2>1. Sum(book, xs) <= cap
    BY <1>1, <1>4 DEF PassInv, Bounded, Holds
  <2>2. QED
    BY <1>3, <2>1
<1>5. Pass!WithinLimits
  <2>1. Pass!Committed(PassSymbols) <= TotalCap
    BY <1>4 DEF Limits
  <2>2. \A x \in PassSymbols : Pass!Committed({x}) <= UnderlyingCap
    BY <1>4 DEF Limits
  <2>3. \A class \in Groupings : \A x \in PassSymbols :
          Pass!Committed({y \in PassSymbols : class[y] = class[x]}) <= ClassCap
    BY <1>4 DEF Limits
  <2>4. QED
    BY <2>1, <2>2, <2>3 DEF Pass!WithinLimits
<1>6. Pass!OneUnresolvedOrder
  <2> DEFINE U == {e \in DOMAIN book : book[e].order = "resting" /\ book[e].position # "OPEN"}
  <2>1. U \subseteq Resting(book)
    BY <1>2 DEF Resting
  <2>2. \A i, k \in U : i = k
    BY <1>1, <2>1 DEF PassInv, AtMostOneRests
  <2>3. Pass!OneUnresolvedOrder <=> Pass!Cardinality(U) <= 1
    BY DEF Pass!OneUnresolvedOrder
  <2>4. \A S : Pass!Cardinality(S) = Cardinality(S)
    BY DEF Cardinality, Pass!Cardinality
  <2> HIDE DEF U
  <2>5. U = {} \/ \E i \in U : U = {i}
    BY <2>2
  <2>6. Cardinality(U) <= 1
    <3>1. CASE U = {}
      BY <3>1, FS_EmptySet
    <3>2. CASE \E i \in U : U = {i}
      BY <3>2, FS_Singleton
    <3>3. QED
      BY <2>5, <3>1, <3>2
  <2>7. QED
    BY <2>3, <2>4, <2>6
<1>7. QED
  BY <1>5, <1>6 DEF Pass!PassIsBounded

\* Whatever pass dies between the reservation, the record, the order and its outcome,
\* what the positions and the reservations commit stays within every limit of the
\* policy, and no order is sent beside one that is not resolved, for any symbols,
\* margins, classes, limits and number of entries and deaths (runner.run_once,
\* portfolio._fold_reservations, governor.evaluate).
THEOREM PassStaysBounded == MCSpec => []PassIsBounded
<1>1. MCInit => (part = "pass" => PassInv)
  BY PassBegins DEF MCInit
<1>2. (part = "pass" => PassInv) /\ [MCNext]_everything => (part = "pass" => PassInv)'
  <2>1. SUFFICES ASSUME part = "pass" => PassInv, [MCNext]_everything, part' = "pass"
                 PROVE  PassInv'
    OBVIOUS
  <2>2. PassInv /\ [Pass!Next]_passes
    BY <2>1 DEF MCNext, everything
  <2>3. CASE UNCHANGED passes
    <3>1. UNCHANGED <<book, foreign, pc, todo, cost>>
      BY <2>3 DEF passes
    <3>2. PassTypes' /\ Bounded' /\ AtMostOneRests'
      BY <2>2, <3>1 DEF PassInv, PassTypes, Bounded, AtMostOneRests
    <3>3. QED
      BY <3>2 DEF PassInv
  <2>4. CASE Pass!Next
    BY <2>2, <2>4, QuietSteps, ManageSteps, SweepSteps, PassBrokerSteps, ServiceSteps,
       SubmitSteps, PlaceSteps, OutcomeSteps, EntrySteps, Zenon DEF Pass!Next
  <2>5. QED
    BY <2>2, <2>3, <2>4
<1>3. (part = "pass" => PassInv) => PassIsBounded
  BY PassIsSafe DEF PassIsBounded
<1>4. QED
  BY <1>1, <1>2, <1>3, PTL DEF MCSpec

-----------------------------------------------------------------------------
(* A walk down a ladder of prices (PriceWalk).                             *)

\* A quotient and what it leaves.
LEMMA Division ==
  ASSUME NEW n \in Int, NEW k \in Nat \ {0}
  PROVE  /\ n \div k \in Int /\ n % k \in Int
         /\ n = (n \div k) * k + (n % k) /\ n % k >= 0 /\ n % k < k
OBVIOUS

\* A multiple leaves nothing.
LEMMA MultipleLeavesNothing ==
  ASSUME NEW q \in Int, NEW k \in Nat \ {0}
  PROVE  (q * k) % k = 0
<1> DEFINE n == q * k
           r == n \div k
           m == n % k
<1>1. n \in Int
  OBVIOUS
<1>2. n = r * k + m /\ m \in Int /\ m >= 0 /\ m < k /\ r \in Int
  <2> HIDE DEF n
  <2>1. QED
    BY <1>1, Division
<1>3. n = q * k
  OBVIOUS
<1> HIDE DEF n, r, m
<1>4. (q - r) * k = m
  BY <1>2, <1>3
<1>5. CASE q - r >= 1
  <2>1. (q - r) * k >= k
    BY <1>2, <1>5
  <2>2. QED
    BY <1>2, <1>4, <2>1
<1>6. CASE q - r <= -1
  <2>1. (q - r) * k <= -k
    BY <1>2, <1>6
  <2>2. QED
    BY <1>2, <1>4, <2>1
<1>7. CASE q - r = 0
  BY <1>2, <1>3, <1>4, <1>7 DEF m, n
<1>8. QED
  BY <1>2, <1>5, <1>6, <1>7

OnGrid(price) == price \in Int /\ price % Walk!Increment(price, 1) = 0

\* A price that is rounded down is on the grid of its own tier.
LEMMA FlooredIs ==
  ASSUME Walk!WalkAssumption, NEW n \in Int, NEW d \in {1, 3}
  PROVE  OnGrid(Walk!Floored(n, d)) /\ Walk!Floored(n, d) * d <= n
<1> DEFINE inc == Walk!Increment(n, d)
           unit == d * inc
           q == n \div unit
           p == q * inc
<1>1. /\ FineTick \in Nat \ {0} /\ CoarseTick \in Nat \ {0} /\ TickBoundary \in Nat
      /\ TickBoundary % CoarseTick = 0 /\ TickBoundary % FineTick = 0
  BY DEF Walk!WalkAssumption
<1>2. /\ inc \in Nat \ {0}
      /\ n >= TickBoundary * d => inc = CoarseTick
      /\ n < TickBoundary * d => inc = FineTick
  BY <1>1 DEF Walk!Increment
<1>3. Walk!Floored(n, d) = p
  BY DEF Walk!Floored
<1> HIDE DEF inc
<1>4. unit \in Nat \ {0}
  BY <1>2
<1>5. q \in Int /\ q * unit <= n /\ n < q * unit + unit
  <2> DEFINE m == n % unit
  <2> HIDE DEF unit
  <2>1. q \in Int /\ m \in Int /\ n = q * unit + m /\ m >= 0 /\ m < unit
    BY <1>4, Division
  <2> HIDE DEF q, m
  <2>2. q * unit \in Int
    BY <1>4, <2>1
  <2>3. QED
    BY <1>4, <2>1, <2>2
<1>6. p \in Int /\ p * d = q * unit /\ p % inc = 0
  <2> HIDE DEF q
  <2>1. p \in Int /\ p * d = q * unit
    BY <1>2, <1>5
  <2>2. QED
    BY <1>2, <1>5, <2>1, MultipleLeavesNothing
<1> HIDE DEF q, p
<1>7. CASE n >= TickBoundary * d
  <2> DEFINE b == TickBoundary \div CoarseTick
  <2>1. b \in Int /\ TickBoundary = b * CoarseTick
    BY <1>1, Division
  <2> HIDE DEF b
  <2>2. inc = CoarseTick /\ b * unit = TickBoundary * d
    BY <1>1, <1>2, <1>7, <2>1
  <2> HIDE DEF unit
  <2>3. q >= b
    <3>1. SUFFICES ASSUME q + 1 <= b PROVE FALSE
      BY <1>5, <2>1
    <3>2. (q + 1) * unit <= b * unit
      BY <1>4, <1>5, <2>1, <3>1
    <3>3. (q + 1) * unit = q * unit + unit
      BY <1>4, <1>5
    <3>4. q * unit \in Int /\ b * unit \in Int
      BY <1>4, <1>5, <2>1
    <3>5. QED
      BY <1>4, <1>5, <1>7, <2>2, <3>2, <3>3, <3>4
  <2>4. p >= TickBoundary
    BY <1>1, <1>5, <2>1, <2>2, <2>3 DEF p
  <2>5. Walk!Increment(p, 1) = inc
    BY <1>1, <1>6, <2>2, <2>4 DEF Walk!Increment
  <2>6. QED
    BY <1>3, <1>5, <1>6, <2>5 DEF OnGrid
<1>8. CASE n < TickBoundary * d
  <2> HIDE DEF unit
  <2>1. p * d < TickBoundary * d
    <3>1. q * unit \in Int /\ TickBoundary * d \in Int
      BY <1>1, <1>4, <1>5
    <3>2. QED
      BY <1>5, <1>6, <1>8, <3>1
  <2>2. p < TickBoundary
    BY <1>1, <1>6, <2>1
  <2>3. Walk!Increment(p, 1) = inc
    BY <1>1, <1>2, <1>6, <1>8, <2>2 DEF Walk!Increment
  <2>4. QED
    BY <1>3, <1>5, <1>6, <2>3 DEF OnGrid
<1>9. QED
  BY <1>1, <1>7, <1>8

\* A price that is rounded up is on the grid of its own tier, or on the boundary.
LEMMA CeiledIs ==
  ASSUME Walk!WalkAssumption, NEW n \in Int
  PROVE  OnGrid(Walk!Ceiled(n)) /\ Walk!Ceiled(n) >= n
<1> DEFINE inc == Walk!Increment(n, 1)
           top == n + inc - 1
           q == top \div inc
           p == q * inc
<1>1. /\ FineTick \in Nat \ {0} /\ CoarseTick \in Nat \ {0} /\ TickBoundary \in Nat
      /\ TickBoundary % CoarseTick = 0 /\ TickBoundary % FineTick = 0
  BY DEF Walk!WalkAssumption
<1>2. /\ inc \in Nat \ {0}
      /\ n >= TickBoundary => inc = CoarseTick
      /\ n < TickBoundary => inc = FineTick
  BY <1>1 DEF Walk!Increment
<1>3. Walk!Ceiled(n) = p
  BY DEF Walk!Ceiled
<1> HIDE DEF inc
<1>4. top \in Int
  BY <1>2
<1>5. q \in Int /\ q * inc <= top /\ top < q * inc + inc
  <2> HIDE DEF top
  <2>1. QED
    BY <1>2, <1>4, Division
<1>6. p \in Int /\ p % inc = 0
  <2> HIDE DEF q
  <2>1. QED
    BY <1>2, <1>5, MultipleLeavesNothing
<1>7. p >= n /\ p <= n + inc - 1
  <2> HIDE DEF q
  <2>1. p = q * inc
    OBVIOUS
  <2> HIDE DEF p
  <2>2. QED
    BY <1>2, <1>5, <1>6, <2>1
<1>8. CASE n >= TickBoundary
  <2> HIDE DEF p
  <2>1. Walk!Increment(p, 1) = inc
    BY <1>1, <1>2, <1>6, <1>7, <1>8 DEF Walk!Increment
  <2>2. QED
    BY <1>3, <1>6, <1>7, <2>1 DEF OnGrid
<1>9. CASE n < TickBoundary
  <2> DEFINE b == TickBoundary \div FineTick
  <2>1. b \in Int /\ TickBoundary = b * FineTick
    BY <1>1, Division
  <2> HIDE DEF b
  <2>2. inc = FineTick
    BY <1>2, <1>9
  <2>3. p <= TickBoundary
    <3> HIDE DEF q
    <3>1. SUFFICES ASSUME q >= b + 1 PROVE FALSE
      BY <1>1, <1>5, <2>1, <2>2
    <3>2. q * FineTick >= (b + 1) * FineTick
      BY <1>1, <1>5, <2>1, <3>1
    <3>3. (b + 1) * FineTick = TickBoundary + FineTick
      BY <1>1, <2>1
    <3>4. p = q * FineTick
      BY <2>2
    <3> HIDE DEF p
    <3>5. QED
      BY <1>1, <1>6, <1>7, <1>9, <2>2, <3>2, <3>3, <3>4
  <2> HIDE DEF p
  <2>4. CASE p < TickBoundary
    <3>1. Walk!Increment(p, 1) = inc
      BY <1>1, <1>6, <2>2, <2>4 DEF Walk!Increment
    <3>2. QED
      BY <1>3, <1>6, <1>7, <3>1 DEF OnGrid
  <2>5. CASE p = TickBoundary
    <3>1. Walk!Increment(p, 1) = CoarseTick
      BY <1>1, <1>6, <2>5 DEF Walk!Increment
    <3>2. QED
      BY <1>1, <1>3, <1>6, <1>7, <2>5, <3>1 DEF OnGrid
  <2>6. QED
    BY <1>1, <1>6, <2>3, <2>4, <2>5
<1>10. QED
  BY <1>1, <1>8, <1>9

\* What a rung of the ladder may be, and that the next one is lower.
Rung(price) ==
  OnGrid(price) /\ Walk!InEnvelope(price) /\ price >= FloorCredit

Descends(rungs) ==
  /\ rungs \in Seq(Int)
  /\ \A i \in 1 .. Len(rungs) : Rung(rungs[i]) /\ (i > 1 => rungs[i] < rungs[i - 1])

\* A rung that is kept is below the last.
LEMMA KeepDescends ==
  ASSUME NEW kept, Descends(kept), NEW r, Rung(r)
  PROVE  Descends(Walk!Keep(kept, r))
<1>1. kept \in Seq(Int) /\ r \in Int
  BY DEF Descends, Rung, OnGrid
<1>2. CASE kept # <<>> /\ r >= kept[Len(kept)]
  BY <1>2 DEF Walk!Keep
<1>3. CASE ~(kept # <<>> /\ r >= kept[Len(kept)])
  <2> DEFINE more == Append(kept, r)
  <2>1. Walk!Keep(kept, r) = more
    BY <1>3 DEF Walk!Keep
  <2>2. /\ more \in Seq(Int) /\ Len(more) = Len(kept) + 1 /\ more[Len(kept) + 1] = r
        /\ \A i \in 1 .. Len(kept) : more[i] = kept[i]
    BY <1>1
  <2> HIDE DEF more
  <2>3. SUFFICES ASSUME NEW i \in 1 .. Len(more)
                 PROVE  Rung(more[i]) /\ (i > 1 => more[i] < more[i - 1])
    BY <2>1, <2>2 DEF Descends
  <2>4. CASE i <= Len(kept)
    <3>1. i \in 1 .. Len(kept) /\ (i > 1 => i - 1 \in 1 .. Len(kept))
      BY <1>1, <2>2, <2>4
    <3>2. QED
      BY <2>2, <3>1 DEF Descends
  <2>5. CASE i = Len(kept) + 1
    <3>1. more[i] = r
      BY <2>2, <2>5
    <3>2. ASSUME i > 1 PROVE more[i] < more[i - 1]
      <4>1. Len(kept) \in 1 .. Len(kept) /\ i - 1 = Len(kept) /\ kept # <<>>
        BY <1>1, <2>5, <3>2
      <4>2. more[i - 1] = kept[Len(kept)] /\ kept[Len(kept)] \in Int
        BY <1>1, <2>2, <4>1
      <4>3. QED
        BY <1>1, <1>3, <3>1, <4>1, <4>2
    <3>3. QED
      BY <3>1, <3>2
  <2>6. QED
    BY <1>1, <2>2, <2>4, <2>5
<1>4. QED
  BY <1>2, <1>3

\* Of any book within the envelope, the ladder descends on the grid between its floor
\* and its ceiling.
LEMMA LadderDescends ==
  ASSUME Walk!WalkAssumption, NEW market \in Walk!Quoted
  PROVE  Descends(Walk!Ladder(market))
<1> DEFINE ceiling == Walk!Floored(Walk!Envelope.maximum, 1)
           floor == Walk!Ceiled(Walk!Larger(Walk!Envelope.minimum, FloorCredit))
           start == Walk!Floored(Walk!Smaller(market.mid, ceiling), 1)
           wanted == Walk!Ceiled(Walk!Larger(market.natural, floor))
           target == Walk!Smaller(wanted, start)
<1>1. /\ {Credit, Tolerance, Spread, ProofCredit, FloorCredit} \subseteq Nat
      /\ market.mid \in Nat /\ market.natural \in Int
  BY DEF Walk!WalkAssumption, Walk!Quoted
<1>2. Walk!Envelope.minimum \in Int /\ Walk!Envelope.maximum \in Int
  BY <1>1 DEF Walk!Envelope, Walk!Larger, Walk!Smaller
<1>3. \A a, b \in Int : /\ Walk!Larger(a, b) \in {a, b} /\ Walk!Smaller(a, b) \in {a, b}
                        /\ Walk!Larger(a, b) >= a /\ Walk!Larger(a, b) >= b
                        /\ Walk!Smaller(a, b) <= a /\ Walk!Smaller(a, b) <= b
  BY DEF Walk!Larger, Walk!Smaller
<1>4. OnGrid(ceiling) /\ ceiling \in Int /\ ceiling <= Walk!Envelope.maximum
  <2>1. OnGrid(ceiling) /\ ceiling * 1 <= Walk!Envelope.maximum
    BY <1>2, FlooredIs
  <2> HIDE DEF ceiling
  <2>2. ceiling \in Int
    BY <2>1 DEF OnGrid
  <2>3. QED
    BY <2>1, <2>2
<1> HIDE DEF ceiling
<1>5. OnGrid(floor) /\ floor \in Int /\ floor >= Walk!Envelope.minimum /\ floor >= FloorCredit
  <2> DEFINE low == Walk!Larger(Walk!Envelope.minimum, FloorCredit)
  <2>1. low \in Int /\ low >= Walk!Envelope.minimum /\ low >= FloorCredit
    BY <1>1, <1>2, <1>3
  <2> HIDE DEF low
  <2>2. OnGrid(floor) /\ floor >= low
    BY <2>1, CeiledIs DEF low
  <2> HIDE DEF floor
  <2>3. floor \in Int
    BY <2>2 DEF OnGrid
  <2>4. QED
    BY <1>1, <1>2, <2>1, <2>2, <2>3
<1> HIDE DEF floor
<1>6. OnGrid(start) /\ start \in Int
  <2>1. Walk!Smaller(market.mid, ceiling) \in Int
    BY <1>1, <1>3, <1>4
  <2>2. OnGrid(start)
    BY <2>1, FlooredIs
  <2>3. QED
    BY <2>2 DEF OnGrid
<1> HIDE DEF start
<1>7. OnGrid(wanted) /\ wanted \in Int /\ wanted >= floor
  <2> DEFINE low == Walk!Larger(market.natural, floor)
  <2>1. low \in Int /\ low >= floor
    BY <1>1, <1>3, <1>5
  <2> HIDE DEF low
  <2>2. OnGrid(wanted) /\ wanted >= low
    BY <2>1, CeiledIs DEF low
  <2> HIDE DEF wanted
  <2>3. wanted \in Int
    BY <2>2 DEF OnGrid
  <2>4. QED
    BY <1>5, <2>1, <2>2, <2>3
<1> HIDE DEF wanted
<1>8. \/ Walk!Ladder(market) = <<>>
      \/ /\ Walk!Ladder(market) = Walk!Rungs(start, target, ceiling)
         /\ floor <= ceiling /\ start >= floor
  <2>1. Walk!Ladder(market) =
          IF market.natural > market.mid \/ floor > ceiling \/ start < floor \/ wanted > ceiling
          THEN <<>> ELSE Walk!Rungs(start, target, ceiling)
    BY DEF Walk!Ladder, ceiling, floor, start, wanted
  <2> HIDE DEF target
  <2>2. QED
    BY <1>4, <1>5, <1>6, <2>1
<1>9. CASE Walk!Ladder(market) = <<>>
  BY <1>9 DEF Descends
<1>10. CASE /\ Walk!Ladder(market) = Walk!Rungs(start, target, ceiling)
            /\ floor <= ceiling /\ start >= floor
  <2>1. target \in Int /\ OnGrid(target) /\ target >= floor
    BY <1>3, <1>5, <1>6, <1>7, <1>10
  <2> HIDE DEF target
  <2> DEFINE asked(i) == Walk!Floored(3 * start - (i - 1) * (start - target), 3)
             offer(i) == Walk!Smaller(Walk!Larger(asked(i), target), ceiling)
  <2>2. ASSUME NEW i \in 1 .. 4
        PROVE  Rung(offer(i))
    <3>1. asked(i) \in Int /\ OnGrid(asked(i))
      <4>1. 3 * start - (i - 1) * (start - target) \in Int
        BY <1>6, <2>1
      <4> DEFINE price == 3 * start - (i - 1) * (start - target)
      <4> HIDE DEF price
      <4>2. OnGrid(Walk!Floored(price, 3))
        BY <4>1, FlooredIs DEF price
      <4>3. QED
        BY <4>2 DEF OnGrid, price
    <3> HIDE DEF asked
    <3>2. Walk!Larger(asked(i), target) \in {asked(i), target}
          /\ Walk!Larger(asked(i), target) >= target
      BY <1>3, <2>1, <3>1
    <3>3. offer(i) \in {asked(i), target, ceiling} /\ offer(i) >= floor /\ offer(i) <= ceiling
      BY <1>3, <1>4, <1>5, <1>10, <2>1, <3>1, <3>2 DEF Walk!Smaller
    <3> HIDE DEF offer
    <3>4. OnGrid(offer(i)) /\ offer(i) \in Int
      BY <1>4, <2>1, <3>1, <3>3
    <3>5. QED
      BY <1>1, <1>2, <1>4, <1>5, <3>3, <3>4 DEF Rung, Walk!InEnvelope
  <2>3. Walk!Rungs(start, target, ceiling) =
          Walk!Keep(Walk!Keep(Walk!Keep(Walk!Keep(<<>>, offer(1)), offer(2)), offer(3)), offer(4))
    BY DEF Walk!Rungs
  <2> HIDE DEF offer
  <2>4. Descends(<<>>)
    BY DEF Descends
  <2>5. Descends(Walk!Keep(<<>>, offer(1)))
    BY <2>2, <2>4, KeepDescends
  <2>6. Descends(Walk!Keep(Walk!Keep(<<>>, offer(1)), offer(2)))
    BY <2>2, <2>5, KeepDescends
  <2>7. Descends(Walk!Keep(Walk!Keep(Walk!Keep(<<>>, offer(1)), offer(2)), offer(3)))
    BY <2>2, <2>6, KeepDescends
  <2>8. Descends(Walk!Keep(Walk!Keep(Walk!Keep(Walk!Keep(<<>>, offer(1)), offer(2)), offer(3)), offer(4)))
    BY <2>2, <2>7, KeepDescends
  <2>9. QED
    BY <1>10, <2>3, <2>8
<1>11. QED
  BY <1>8, <1>9, <1>10
-----------------------------------------------------------------------------
(* The orders of a walk and what it counted of them.                       *)

WalkStage == {"top", "quote", "replace", "settle", "send", "dwell", "next", "over", "pull", "done"}
Offer == [credit : Int, quantity : Nat, filled : Nat,
          status : {"working", "cancelling", "dead", "absent"}, recorded : BOOLEAN]
Locals == [index : Nat, filled : Nat, remaining : Int, credit : Int, candidate : Int,
           working : Nat, credited : Nat, state : {None, "REFUSED", "EXHAUSTED"}]
Fills(list) == Total([i \in 1 .. Len(list) |-> list[i].filled])

WalkTypes ==
  /\ rung \in WalkStage /\ walk \in Locals /\ orders \in Seq(Offer)
  /\ rung \in {"over", "pull"} => walk.state \in {"REFUSED", "EXHAUSTED"}
  /\ Descends(ladder.rungs)

\* Only the last order may live, and what it may still fill was left by the others.
Fillable(list) ==
  /\ \A i \in 1 .. Len(list) :
       /\ list[i].filled <= list[i].quantity
       /\ Walk!Live(list[i]) => i = Len(list) /\ list[i].filled < list[i].quantity
  /\ list # <<>> => Fills(list) + list[Len(list)].quantity <= OrderSize + list[Len(list)].filled

\* Without an order that works, all fills are counted, unless the last order could not be
\* recorded; with one, all but those it had since it was last observed.
Follows(stage, w, list) ==
  \/ /\ w.working = 0 /\ w.filled = Fills(list)
     /\ \A i \in 1 .. Len(list) : ~Walk!Live(list[i]) /\ list[i].recorded
  \/ /\ w.working = 0 /\ stage = "over" /\ list # <<>>
     /\ w.filled + list[Len(list)].filled = Fills(list)
     /\ \A i \in 1 .. Len(list) : list[i].recorded <=> i # Len(list)
  \/ /\ w.working # 0 /\ w.working = Len(list)
     /\ w.filled + list[Len(list)].filled = Fills(list) + w.credited
     /\ w.credited <= list[Len(list)].filled
     /\ \A i \in 1 .. Len(list) : list[i].recorded

\* What is sent or priced is the remainder.
Sized(stage, w) ==
  /\ stage \in {"replace", "settle", "dwell", "pull"} => w.working # 0
  /\ stage = "send" => w.working = 0 /\ w.candidate = OrderSize - w.filled
  /\ stage = "quote" => w.remaining = OrderSize - w.filled
  /\ stage \notin {"settle", "pull"} => w.filled < OrderSize

\* The outcome, which no later fill makes false.
Reckoned(w, list, verd) ==
  /\ w.filled <= Fills(list)
  /\ verd.released > 0 =>
       /\ \A i \in 1 .. Len(list) : ~Walk!Live(list[i])
       /\ verd.released + Fills(list) = OrderSize
  /\ verd.state = "FILLED" <=> w.filled = OrderSize
  /\ verd.state \in {"REFUSED", "EXHAUSTED"} =>
       \A i \in 1 .. Len(list) :
         list[i].recorded => ~Walk!Live(list[i]) /\ list[i].filled = 0

WalkInv ==
  /\ WalkTypes /\ Fillable(orders)
  /\ rung # "done" => Follows(rung, walk, orders) /\ Sized(rung, walk)
  /\ rung = "done" => Reckoned(walk, orders, outcome)

\* An instance sums as Totals does.
LEMMA WalkSums == \A f : Walk!Total(f) = Total(f)
<1>1. \A S : Walk!Cardinality(S) = Cardinality(S)
  BY DEF Cardinality, Walk!Cardinality
<1>2. QED
  BY <1>1 DEF Walk!Total, Walk!Units, Total, Units

\* The fills are a number, and no order has more of them than there are.
LEMMA FillsAreNumbers ==
  ASSUME NEW list \in Seq(Offer)
  PROVE  /\ Fills(list) \in Nat
         /\ \A i \in 1 .. Len(list) : list[i].filled \in Nat /\ list[i].filled <= Fills(list)
<1> DEFINE f == [i \in 1 .. Len(list) |-> list[i].filled]
<1>1. \A i \in 1 .. Len(list) : list[i].filled \in Nat
  <2>1. \A i \in 1 .. Len(list) : list[i] \in Offer
    OBVIOUS
  <2>2. QED
    BY <2>1 DEF Offer
<1>2. f \in [1 .. Len(list) -> Nat] /\ \A i \in 1 .. Len(list) : f[i] = list[i].filled
  BY <1>1
<1>3. Fills(list) = Total(f) /\ Len(list) \in Nat
  BY DEF Fills
<1>4. IsFiniteSet(1 .. Len(list))
  BY <1>3, FS_Interval
<1> HIDE DEF f
<1>5. f \in [1 .. Len(list) -> Nat]
  BY <1>2
<1>6. Total(f) \in Nat /\ \A i \in 1 .. Len(list) : f[i] <= Total(f)
  BY <1>4, <1>5, TotalIsNumber, TermIsWithin
<1>7. QED
  BY <1>1, <1>2, <1>3, <1>6

\* Fills that stay are counted as before.
LEMMA FillsStay ==
  ASSUME NEW list, NEW list2, Len(list2) = Len(list),
         \A i \in 1 .. Len(list) : list2[i].filled = list[i].filled
  PROVE  Fills(list2) = Fills(list)
<1>1. [i \in 1 .. Len(list2) |-> list2[i].filled] = [i \in 1 .. Len(list) |-> list[i].filled]
  OBVIOUS
<1>2. QED
  BY <1>1 DEF Fills

\* One more contract filled is one more counted.
LEMMA OneMoreFills ==
  ASSUME NEW list \in Seq(Offer), NEW list2 \in Seq(Offer), Len(list2) = Len(list),
         NEW k \in DOMAIN list, list2[k].filled = list[k].filled + 1,
         \A i \in DOMAIN list : i # k => list2[i].filled = list[i].filled
  PROVE  Fills(list2) = Fills(list) + 1
<1> DEFINE S == 1 .. Len(list)
           f == [i \in S |-> list[i].filled]
           g == [i \in S |-> list2[i].filled]
<1>1. \A i \in S : list[i].filled \in Nat /\ list2[i].filled \in Nat
  BY FillsAreNumbers
<1>2. f \in [S -> Nat] /\ g \in [S -> Nat]
  BY <1>1
<1>3. \A i \in S : i # k => g[i] = f[i]
  OBVIOUS
<1>4. IsFiniteSet(S)
  BY FS_Interval
<1>5. Fills(list) = Total(f) /\ Fills(list2) = Total(g) /\ f[k] \in Nat /\ g[k] = f[k] + 1
  BY <1>1 DEF Fills
<1>6. k \in S /\ g[k] = f[k] + 1
  BY <1>5
<1>7. Total(g) = Total(f) + 1
  <2>1. DifferAt(k, S, f, g)
    BY <1>2, <1>3, <1>4, <1>6 DEF DifferAt
  <2> HIDE DEF S, f, g
  <2>2. QED
    BY <1>6, <2>1, TotalsDiffer
<1> HIDE DEF S, f, g
<1>8. QED
  BY <1>5, <1>7

\* What is still to be filled never exceeds the order.
LEMMA FillsAreOrdered ==
  ASSUME Walk!WalkAssumption, NEW list \in Seq(Offer), Fillable(list)
  PROVE  /\ Fills(list) <= OrderSize
         /\ Total([i \in 1 .. Len(list) |-> Walk!Exposure(list[i])]) <= OrderSize
<1> DEFINE n == Len(list)
           S == 1 .. n
           f == [i \in S |-> list[i].filled]
           g == [i \in S |-> Walk!Exposure(list[i])]
<1>1. OrderSize \in Nat /\ n \in Nat
  BY DEF Walk!WalkAssumption
<1>2. \A i \in S : /\ list[i].filled \in Nat /\ list[i].quantity \in Nat
                   /\ list[i].filled <= list[i].quantity
  <2>1. \A i \in S : list[i] \in Offer
    OBVIOUS
  <2>2. QED
    BY <2>1 DEF Offer, Fillable
<1>3. /\ f \in [S -> Nat] /\ g \in [S -> Nat] /\ IsFiniteSet(S)
      /\ Fills(list) = Total(f)
  <2>1. f \in [S -> Nat] /\ g \in [S -> Nat] /\ Fills(list) = Total(f)
    BY <1>2 DEF Walk!Exposure, Fills
  <2>2. IsFiniteSet(S)
    BY <1>1, FS_Interval
  <2>3. QED
    BY <2>1, <2>2
<1>4. CASE list = <<>>
  <2>1. /\ \A i \in S : f[i] = 0
        /\ \A i \in S : g[i] = 0
    BY <1>4
  <2> HIDE DEF f, g, S
  <2>2. Total(f) = 0 /\ Total(g) = 0
    BY <1>3, <2>1, TotalOfNone
  <2>3. QED
    BY <1>1, <1>3, <2>2 DEF g, S
<1>5. CASE list # <<>>
  <2>1. n \in S
    BY <1>5
  <2>2. \A i \in S : i # n => g[i] = f[i]
    BY DEF Walk!Exposure, Fillable
  <2>3. f[n] = list[n].filled /\ g[n] <= list[n].quantity /\ list[n].filled <= list[n].quantity
        /\ f[n] \in Nat /\ g[n] \in Nat /\ list[n].quantity \in Nat
        /\ Total(f) + list[n].quantity <= OrderSize + list[n].filled
    BY <1>2, <1>3, <1>5, <2>1 DEF Walk!Exposure, Fillable
  <2>4. Total([i \in 1 .. Len(list) |-> Walk!Exposure(list[i])]) = Total(g)
    OBVIOUS
  <2> HIDE DEF f, g, S, n
  <2>5. Total(g) + f[n] = Total(f) + g[n] /\ Total(g) \in Nat /\ Total(f) \in Nat
    BY <1>3, <2>1, <2>2, TotalOfChanged, TotalIsNumber
  <2>6. Total(f) <= OrderSize /\ Total(g) <= OrderSize
    <3>1. ASSUME NEW a \in Nat, NEW b \in Nat, NEW c \in Nat, NEW d \in Nat, NEW q \in Nat,
                 NEW o \in Nat, a + d = b + c, c <= q, d <= q, b + q <= o + d
          PROVE  b <= o /\ a <= o
      BY <3>1
    <3>2. f[n] \in Nat /\ g[n] \in Nat /\ list[n].quantity \in Nat /\ g[n] <= list[n].quantity
          /\ f[n] <= list[n].quantity /\ Total(f) + list[n].quantity <= OrderSize + f[n]
      BY <2>3
    <3>3. QED
      BY <1>1, <2>5, <3>1, <3>2
  <2>7. QED
    BY <1>3, <2>4, <2>6
<1>6. QED
  BY <1>4, <1>5

\* What observe_order can say of the order that works.
LEMMA SeenIs ==
  ASSUME Walk!WalkAssumption, WalkInv, rung # "done", walk.working # 0,
         NEW seen \in Walk!Snapshots
  PROVE  /\ seen.filled \in Nat /\ seen.terminal \in BOOLEAN
         /\ seen.filled <= orders[Len(orders)].filled
         /\ Walk!Counted(seen) \in Nat /\ Walk!Counted(seen) <= OrderSize
         /\ Walk!Counted(seen) <= Fills(orders)
         /\ Walk!Counted(seen) + orders[Len(orders)].filled = Fills(orders) + seen.filled
         /\ seen.terminal => /\ ~Walk!Live(orders[Len(orders)])
                             /\ Walk!Counted(seen) = Fills(orders)
<1> DEFINE last == orders[Len(orders)]
<1>1. /\ walk \in Locals /\ orders \in Seq(Offer) /\ Fillable(orders)
      /\ walk.working = Len(orders) /\ walk.credited <= last.filled
      /\ walk.filled + last.filled = Fills(orders) + walk.credited
  BY DEF WalkInv, WalkTypes, Follows
<1>2. walk.filled \in Nat /\ walk.credited \in Nat /\ Len(orders) \in 1 .. Len(orders)
  BY <1>1 DEF Locals
<1>3. last \in Offer
  BY <1>1, <1>2
<1>4. last.filled \in Nat /\ Fills(orders) \in Nat /\ Fills(orders) <= OrderSize
      /\ OrderSize \in Nat
  BY <1>1, <1>3, FillsAreNumbers, FillsAreOrdered DEF Offer, Walk!WalkAssumption
<1>5. \/ seen = [filled |-> walk.credited, terminal |-> FALSE]
      \/ \E f \in walk.credited .. last.filled : seen = [filled |-> f, terminal |-> FALSE]
      \/ last.status = "dead" /\ seen = [filled |-> last.filled, terminal |-> TRUE]
  BY <1>1 DEF Walk!Snapshots
<1>11. walk.credited <= last.filled /\ walk.filled + last.filled = Fills(orders) + walk.credited
       /\ last.filled \in Nat
  BY <1>1, <1>4
<1> HIDE DEF last
<1>6. /\ seen.filled \in Nat /\ seen.filled >= walk.credited /\ seen.filled <= last.filled
      /\ seen.terminal \in BOOLEAN
      /\ seen.terminal => last.status = "dead" /\ seen.filled = last.filled
  <2>1. CASE seen = [filled |-> walk.credited, terminal |-> FALSE]
    BY <1>2, <1>11, <2>1
  <2>2. CASE \E f \in walk.credited .. last.filled : seen = [filled |-> f, terminal |-> FALSE]
    <3>1. PICK f \in walk.credited .. last.filled : seen = [filled |-> f, terminal |-> FALSE]
      BY <2>2
    <3>2. f \in Nat /\ f >= walk.credited /\ f <= last.filled
      BY <1>2, <1>11
    <3>3. QED
      BY <3>1, <3>2
  <2>3. CASE last.status = "dead" /\ seen = [filled |-> last.filled, terminal |-> TRUE]
    BY <1>2, <1>11, <2>3
  <2>4. QED
    BY <1>5, <2>1, <2>2, <2>3
<1>7. Walk!Counted(seen) = walk.filled + (seen.filled - walk.credited)
  BY DEF Walk!Counted
<1>8. /\ Walk!Counted(seen) \in Nat /\ Walk!Counted(seen) <= Fills(orders)
      /\ Walk!Counted(seen) + last.filled = Fills(orders) + seen.filled
  <2>1. ASSUME NEW a \in Nat, NEW b \in Nat, NEW c \in Nat, NEW d \in Nat, NEW e \in Nat,
               b <= c, c <= d, a + d = e + b
        PROVE  /\ a + (c - b) \in Nat /\ a + (c - b) <= e /\ a + (c - b) + d = e + c
    BY <2>1
  <2> DEFINE a == walk.filled
             b == walk.credited
             c == seen.filled
             d == last.filled
             e == Fills(orders)
  <2>2. a \in Nat /\ b \in Nat /\ c \in Nat /\ d \in Nat /\ e \in Nat
    BY <1>2, <1>4, <1>6, <1>11
  <2>3. b <= c /\ c <= d /\ a + d = e + b
    BY <1>6, <1>11
  <2>4. Walk!Counted(seen) = a + (c - b)
    BY <1>7
  <2>5. Walk!Counted(seen) \in Nat /\ Walk!Counted(seen) <= e /\ Walk!Counted(seen) + d = e + c
    <3> HIDE DEF a, b, c, d, e
    <3>1. QED
      BY <2>1, <2>2, <2>3, <2>4
  <2>6. QED
    BY <2>5
<1>9. seen.terminal => ~Walk!Live(last)
  BY <1>6 DEF Walk!Live
<1>10. QED
  BY <1>4, <1>6, <1>8, <1>9 DEF last

\* A walk that ends: its outcome is true of the orders as they are.
LEMMA Finishes ==
  ASSUME WalkInv, UNCHANGED <<orders, ladder>>,
         NEW verd, NEW n \in Nat, NEW released \in Nat, Walk!Finish(verd, n, released),
         n <= Fills(orders),
         released > 0 =>
           /\ \A i \in 1 .. Len(orders) : ~Walk!Live(orders[i])
           /\ released + Fills(orders) = OrderSize,
         verd = "FILLED" <=> n = OrderSize,
         verd \in {"REFUSED", "EXHAUSTED"} =>
           \A i \in 1 .. Len(orders) :
             orders[i].recorded => ~Walk!Live(orders[i]) /\ orders[i].filled = 0
  PROVE  WalkInv'
<1>1. /\ walk \in Locals /\ WalkTypes /\ Fillable(orders)
  BY DEF WalkInv, WalkTypes
<1>2. /\ rung' = "done" /\ outcome' = [state |-> verd, filled |-> n, released |-> released]
      /\ walk' = [walk EXCEPT !.filled = n]
  BY DEF Walk!Finish
<1>3. walk' \in Locals /\ walk'.filled = n /\ walk'.state = walk.state
  BY <1>1, <1>2 DEF Locals
<1>4. outcome'.state = verd /\ outcome'.released = released
  BY <1>2
<1>5. WalkTypes'
  BY <1>1, <1>2, <1>3 DEF WalkTypes, WalkStage
<1>6. Reckoned(walk', orders, outcome')
  BY <1>3, <1>4 DEF Reckoned
<1>7. QED
  BY <1>1, <1>2, <1>5, <1>6 DEF WalkInv

\* A step of the walk that sends and cancels nothing.
LEMMA Proceeds ==
  ASSUME WalkInv, UNCHANGED orders, rung # "done", rung' # "done", rung' \in WalkStage,
         Descends(ladder'.rungs), walk' \in Locals,
         rung' \in {"over", "pull"} => walk'.state \in {"REFUSED", "EXHAUSTED"},
         Follows(rung', walk', orders), Sized(rung', walk')
  PROVE  WalkInv'
BY DEF WalkInv, WalkTypes

\* Exhaust, Refuse, NoRungLeft and SendRefused leave the loop; NextRung goes round it.
LEMMA LeaveSteps ==
  ASSUME Walk!WalkAssumption, WalkInv,
         \/ Walk!Exhaust \/ Walk!Refuse \/ Walk!NoRungLeft \/ Walk!SendRefused
         \/ Walk!NextRung
  PROVE  WalkInv'
<1>1. /\ walk \in Locals /\ orders \in Seq(Offer) /\ Descends(ladder.rungs)
      /\ rung \in {"top", "quote", "send", "next"} /\ UNCHANGED orders
      /\ Follows(rung, walk, orders) /\ Sized(rung, walk)
  BY DEF WalkInv, WalkTypes, Walk!Exhaust, Walk!Refuse, Walk!NoRungLeft, Walk!SendRefused,
         Walk!NextRung
<1>2. Descends(ladder'.rungs)
  <2>1. CASE Walk!NoRungLeft
    <3>1. PICK market \in Walk!Quoted : ladder'.rungs = Walk!Ladder(market)
      BY <2>1 DEF Walk!NoRungLeft
    <3>2. QED
      BY <3>1, LadderDescends
  <2>2. QED
    BY <1>1, <2>1 DEF Walk!Exhaust, Walk!Refuse, Walk!SendRefused, Walk!NextRung
<1>3. CASE \E verd \in {"REFUSED", "EXHAUSTED"} : Walk!Leave(verd)
  <2>1. PICK verd \in {"REFUSED", "EXHAUSTED"} : Walk!Leave(verd)
    BY <1>3
  <2>2. rung' = "over" /\ walk' = [walk EXCEPT !.state = verd]
    BY <2>1 DEF Walk!Leave
  <2>3. /\ walk' \in Locals /\ walk'.state = verd /\ walk'.working = walk.working
        /\ walk'.filled = walk.filled /\ walk'.credited = walk.credited
    BY <1>1, <2>2 DEF Locals
  <2>4. Follows(rung', walk', orders)
    BY <1>1, <2>2, <2>3 DEF Follows
  <2>5. Sized(rung', walk')
    BY <1>1, <2>2, <2>3 DEF Sized
  <2>6. QED
    BY <1>1, <1>2, <2>2, <2>3, <2>4, <2>5, Proceeds DEF WalkStage
<1>4. CASE Walk!NextRung
  <2>1. rung = "next" /\ rung' = "top" /\ walk' = [walk EXCEPT !.index = walk.index + 1]
    BY <1>4 DEF Walk!NextRung
  <2>2. /\ walk' \in Locals /\ walk'.working = walk.working
        /\ walk'.filled = walk.filled /\ walk'.credited = walk.credited
    BY <1>1, <2>1 DEF Locals
  <2>3. Follows(rung', walk', orders) /\ Sized(rung', walk')
    BY <1>1, <2>1, <2>2 DEF Follows, Sized
  <2>4. QED
    BY <1>1, <1>2, <2>1, <2>2, <2>3, Proceeds DEF WalkStage
<1>5. QED
  BY <1>3, <1>4 DEF Walk!Exhaust, Walk!Refuse, Walk!NoRungLeft, Walk!SendRefused

\* Counting an observation, of an order that works on or is dead.
LEMMA Recounts ==
  ASSUME Walk!WalkAssumption, WalkInv, rung # "done", walk.working # 0,
         NEW seen \in Walk!Snapshots, NEW w, NEW stage, w.filled = Walk!Counted(seen)
  PROVE  /\ w.working = walk.working /\ w.credited = seen.filled => Follows(stage, w, orders)
         /\ w.working = 0 /\ seen.terminal => Follows(stage, w, orders)
<1>1. /\ walk.working = Len(orders)
      /\ \A i \in 1 .. Len(orders) : orders[i].recorded
      /\ Fillable(orders)
  BY DEF WalkInv, Follows
<1>2. /\ seen.filled <= orders[Len(orders)].filled
      /\ w.filled + orders[Len(orders)].filled = Fills(orders) + seen.filled
      /\ seen.terminal => /\ ~Walk!Live(orders[Len(orders)])
                          /\ w.filled = Fills(orders)
  BY SeenIs
<1>3. seen.terminal => \A i \in 1 .. Len(orders) : ~Walk!Live(orders[i])
  BY <1>1, <1>2 DEF Fillable
<1>4. QED
  BY <1>1, <1>2, <1>3 DEF Follows

\* A walk that ends with an order that may still rest gives nothing back.
LEMMA EndsOpen ==
  ASSUME Walk!WalkAssumption, WalkInv, rung # "done", walk.working # 0,
         UNCHANGED <<orders, ladder>>, NEW seen \in Walk!Snapshots,
         \/ Walk!Counted(seen) >= OrderSize /\ Walk!Finish("FILLED", Walk!Counted(seen), 0)
         \/ Walk!Counted(seen) < OrderSize /\ Walk!Unconfirmed(Walk!Counted(seen))
  PROVE  WalkInv'
<1> DEFINE n == Walk!Counted(seen)
<1>1. n \in Nat /\ n <= OrderSize /\ n <= Fills(orders) /\ OrderSize \in Nat
  BY SeenIs DEF Walk!WalkAssumption
<1>2. CASE n >= OrderSize /\ Walk!Finish("FILLED", n, 0)
  <2>1. n = OrderSize
    BY <1>1, <1>2
  <2> HIDE DEF n
  <2>2. QED
    BY <1>1, <1>2, <2>1, Finishes
<1>3. CASE n < OrderSize /\ Walk!Unconfirmed(n)
  <2>1. PICK verd \in {"UNCERTAIN", "PARTIALLY_FILLED"} : Walk!Finish(verd, n, 0)
    BY <1>3 DEF Walk!Unconfirmed
  <2>2. n # OrderSize
    BY <1>1, <1>3
  <2> HIDE DEF n
  <2>3. QED
    BY <1>1, <2>1, <2>2, Finishes
<1>4. QED
  BY <1>2, <1>3

\* Harvest: what filled during the dwell is counted before the rung is sized.
LEMMA HarvestSteps ==
  ASSUME Walk!WalkAssumption, WalkInv, Walk!Harvest
  PROVE  WalkInv'
<1>1. /\ walk \in Locals /\ orders \in Seq(Offer) /\ Descends(ladder.rungs)
      /\ rung = "top" /\ UNCHANGED <<orders, ladder>>
      /\ Follows(rung, walk, orders) /\ Sized(rung, walk) /\ OrderSize \in Nat
  BY DEF WalkInv, WalkTypes, Walk!Harvest, Walk!WalkAssumption
<1>2. walk.filled \in Nat /\ walk.filled < OrderSize
  BY <1>1 DEF Locals, Sized
<1>3. CASE walk.working = 0
  <2>1. rung' = "quote" /\ walk' = [walk EXCEPT !.remaining = OrderSize - walk.filled]
    BY <1>3 DEF Walk!Harvest
  <2>2. /\ walk' \in Locals /\ walk'.working = walk.working
        /\ walk'.filled = walk.filled /\ walk'.credited = walk.credited
        /\ walk'.remaining = OrderSize - walk.filled
    BY <1>1, <1>2, <2>1 DEF Locals
  <2>3. Follows(rung', walk', orders)
    BY <1>1, <2>1, <2>2 DEF Follows
  <2>4. Sized(rung', walk')
    BY <1>1, <1>2, <2>1, <2>2 DEF Sized
  <2>5. QED
    BY <1>1, <2>1, <2>2, <2>3, <2>4, Proceeds DEF WalkStage
<1>4. CASE walk.working # 0
  <2>1. PICK seen \in Walk!Snapshots :
          IF Walk!Counted(seen) >= OrderSize THEN Walk!Finish("FILLED", Walk!Counted(seen), 0)
          ELSE /\ walk' = [Walk!Counting(seen) EXCEPT !.remaining = OrderSize - Walk!Counted(seen)]
               /\ rung' = "quote" /\ UNCHANGED outcome
    BY <1>4, Zenon DEF Walk!Harvest
  <2>2. seen.filled \in Nat /\ Walk!Counted(seen) \in Nat
    BY <1>1, <1>4, SeenIs
  <2>3. CASE Walk!Counted(seen) >= OrderSize
    BY <1>1, <1>4, <2>1, <2>3, EndsOpen
  <2>4. CASE ~(Walk!Counted(seen) >= OrderSize)
    <3> DEFINE n == Walk!Counted(seen)
    <3>1. /\ walk' = [walk EXCEPT !.filled = n, !.credited = seen.filled,
                                  !.remaining = OrderSize - n]
          /\ rung' = "quote"
      BY <2>1, <2>4 DEF Walk!Counting
    <3> HIDE DEF n
    <3>2. n \in Nat /\ n < OrderSize
      BY <1>1, <2>2, <2>4 DEF n
    <3>3. /\ walk' \in Locals /\ walk'.working = walk.working
          /\ walk'.filled = n /\ walk'.credited = seen.filled
          /\ walk'.remaining = OrderSize - n
      <4>1. walk \in Locals /\ seen.filled \in Nat /\ OrderSize - n \in Int
        BY <1>1, <2>2, <3>2
      <4>2. QED
        BY <3>1, <3>2, <4>1 DEF Locals
    <3>4. Follows(rung', walk', orders)
      BY <1>1, <1>4, <3>3, Recounts DEF n
    <3>5. Sized(rung', walk')
      BY <3>1, <3>2, <3>3 DEF Sized
    <3>6. QED
      BY <1>1, <3>1, <3>3, <3>4, <3>5, Proceeds DEF WalkStage
  <2>5. QED
    BY <2>3, <2>4
<1>5. QED
  BY <1>3, <1>4

\* Price: the next rung is for the remainder.
LEMMA PriceSteps ==
  ASSUME Walk!WalkAssumption, WalkInv, Walk!Price
  PROVE  WalkInv'
<1>1. /\ walk \in Locals /\ orders \in Seq(Offer)
      /\ rung = "quote" /\ UNCHANGED orders
      /\ Follows(rung, walk, orders) /\ Sized(rung, walk)
      /\ rung' = IF walk.working = 0 THEN "send" ELSE "replace"
  BY DEF WalkInv, WalkTypes, Walk!Price
<1>2. PICK market \in Walk!Quoted :
        /\ walk.index < Len(Walk!Ladder(market))
        /\ Walk!InEnvelope(Walk!Ladder(market)[walk.index + 1])
        /\ Walk!Verified(Walk!Ladder(market)[walk.index + 1], walk.remaining)
        /\ ladder' = [rungs |-> Walk!Ladder(market), natural |-> market.natural]
        /\ walk' = [walk EXCEPT !.credit = Walk!Ladder(market)[walk.index + 1],
                                !.candidate = walk.remaining]
  BY Zenon DEF Walk!Price
<1>3. Descends(ladder'.rungs)
  BY <1>2, LadderDescends
<1> DEFINE price == Walk!Ladder(market)[walk.index + 1]
<1>4. price \in Int
  <2>1. Walk!Ladder(market) \in Seq(Int) /\ walk.index \in Nat
    BY <1>1, <1>2, <1>3 DEF Descends, Locals
  <2> HIDE DEF price
  <2>2. walk.index + 1 \in 1 .. Len(Walk!Ladder(market))
    BY <1>2, <2>1
  <2>3. QED
    BY <2>1, <2>2 DEF price
<1> HIDE DEF price
<1>5. /\ walk' \in Locals /\ walk'.working = walk.working
      /\ walk'.filled = walk.filled /\ walk'.credited = walk.credited
      /\ walk'.candidate = walk.remaining
  BY <1>1, <1>2, <1>4 DEF Locals, price
<1>6. Follows(rung', walk', orders) /\ Sized(rung', walk')
  BY <1>1, <1>5 DEF Follows, Sized
<1>7. QED
  BY <1>1, <1>3, <1>5, <1>6, Proceeds DEF WalkStage

\* Orders that differ in nothing but that fewer of them live.
LEMMA Alike ==
  ASSUME NEW list \in Seq(Offer), NEW list2 \in Seq(Offer), Len(list2) = Len(list),
         \A i \in 1 .. Len(list) :
           /\ list2[i].filled = list[i].filled /\ list2[i].quantity = list[i].quantity
           /\ list2[i].recorded = list[i].recorded
           /\ Walk!Live(list2[i]) => Walk!Live(list[i]),
         Fillable(list)
  PROVE  /\ Fillable(list2)
         /\ \A stage, w : Follows(stage, w, list) => Follows(stage, w, list2)
         /\ \A w, verd : Reckoned(w, list, verd) => Reckoned(w, list2, verd)
<1>1. Fills(list2) = Fills(list)
  BY FillsStay
<1>2. list2 # <<>> <=> list # <<>>
  OBVIOUS
<1>3. list # <<>> => Len(list) \in 1 .. Len(list)
  OBVIOUS
<1>4. Fillable(list2)
  BY <1>1, <1>2, <1>3 DEF Fillable
<1>5. ASSUME NEW stage, NEW w, Follows(stage, w, list)
      PROVE  Follows(stage, w, list2)
  <2>1. CASE /\ w.working = 0 /\ w.filled = Fills(list)
             /\ \A i \in 1 .. Len(list) : ~Walk!Live(list[i]) /\ list[i].recorded
    BY <1>1, <2>1 DEF Follows
  <2>2. CASE /\ w.working = 0 /\ stage = "over" /\ list # <<>>
             /\ w.filled + list[Len(list)].filled = Fills(list)
             /\ \A i \in 1 .. Len(list) : list[i].recorded <=> i # Len(list)
    BY <1>1, <1>2, <1>3, <2>2 DEF Follows
  <2>3. CASE /\ w.working # 0 /\ w.working = Len(list)
             /\ w.filled + list[Len(list)].filled = Fills(list) + w.credited
             /\ w.credited <= list[Len(list)].filled
             /\ \A i \in 1 .. Len(list) : list[i].recorded
    <3>1. list # <<>>
      BY <2>3
    <3>2. QED
      BY <1>1, <1>3, <2>3, <3>1 DEF Follows
  <2>4. QED
    BY <1>5, <2>1, <2>2, <2>3 DEF Follows
<1>6. ASSUME NEW w, NEW verd, Reckoned(w, list, verd)
      PROVE  Reckoned(w, list2, verd)
  BY <1>1, <1>6 DEF Reckoned
<1>7. QED
  BY <1>4, <1>5, <1>6

\* One more contract fills: of the last order, which still had one to fill.
LEMMA FillIs ==
  ASSUME Walk!WalkAssumption, NEW list \in Seq(Offer), NEW list2 \in Seq(Offer),
         Len(list2) = Len(list), NEW k \in DOMAIN list, Walk!Live(list[k]),
         list2[k].filled = list[k].filled + 1, list2[k].quantity = list[k].quantity,
         list2[k].recorded = list[k].recorded,
         Walk!Live(list2[k]) => list[k].filled + 1 # list[k].quantity,
         \A i \in DOMAIN list : i # k => list2[i] = list[i],
         Fillable(list)
  PROVE  /\ Fillable(list2)
         /\ \A w \in Locals : \A stage : Follows(stage, w, list) => Follows(stage, w, list2)
         /\ \A w \in Locals : \A verd : Reckoned(w, list, verd) => Reckoned(w, list2, verd)
<1>1. Fills(list2) = Fills(list) + 1
  <2>1. \A i \in DOMAIN list : i # k => list2[i].filled = list[i].filled
    OBVIOUS
  <2>2. QED
    BY <2>1, OneMoreFills
<1>2. /\ k = Len(list) /\ list # <<>> /\ list2 # <<>> /\ DOMAIN list = 1 .. Len(list)
      /\ list[k].filled < list[k].quantity
  BY DEF Fillable
<1>3. /\ list[k].filled \in Nat /\ list[k].quantity \in Nat /\ Fills(list) \in Nat
      /\ OrderSize \in Nat
  <2>1. list[k] \in Offer
    BY <1>2
  <2>2. QED
    BY <2>1, FillsAreNumbers DEF Offer, Walk!WalkAssumption
<1>4. Fillable(list2)
  <2>1. ASSUME NEW i \in 1 .. Len(list2)
        PROVE  /\ list2[i].filled <= list2[i].quantity
               /\ Walk!Live(list2[i]) => i = Len(list2) /\ list2[i].filled < list2[i].quantity
    <3>1. CASE i = k
      BY <1>2, <1>3, <3>1
    <3>2. CASE i # k
      BY <1>2, <3>2 DEF Fillable
    <3>3. QED
      BY <3>1, <3>2
  <2>2. Fills(list) + list[k].quantity <= OrderSize + list[k].filled
    BY <1>2 DEF Fillable
  <2>3. Fills(list2) + list2[k].quantity <= OrderSize + list2[k].filled
    <3>1. ASSUME NEW a \in Nat, NEW b \in Nat, NEW c \in Nat, NEW d \in Nat, a + b <= c + d
          PROVE  (a + 1) + b <= c + (d + 1)
      BY <3>1
    <3> DEFINE a == Fills(list)
               b == list[k].quantity
               d == list[k].filled
    <3>2. a \in Nat /\ b \in Nat /\ OrderSize \in Nat /\ d \in Nat /\ a + b <= OrderSize + d
      BY <1>3, <2>2
    <3>3. Fills(list2) = a + 1 /\ list2[k].quantity = b /\ list2[k].filled = d + 1
      BY <1>1
    <3> HIDE DEF a, b, d
    <3>4. (a + 1) + b <= OrderSize + (d + 1)
      BY <3>1, <3>2
    <3>5. QED
      BY <3>3, <3>4
  <2>4. QED
    BY <1>2, <2>1, <2>3 DEF Fillable
<1>5. ASSUME NEW stage, NEW w \in Locals, Follows(stage, w, list)
      PROVE  Follows(stage, w, list2)
  <2>0. w.filled \in Nat /\ w.credited \in Nat
    BY DEF Locals
  <2>1. ~(\A i \in 1 .. Len(list) : ~Walk!Live(list[i]))
    BY <1>2
  <2>2. \A i \in 1 .. Len(list) : list2[i].recorded = list[i].recorded
    BY <1>2
  <2>3. CASE /\ w.working = 0 /\ stage = "over" /\ list # <<>>
             /\ w.filled + list[Len(list)].filled = Fills(list)
             /\ \A i \in 1 .. Len(list) : list[i].recorded <=> i # Len(list)
    <3>1. w.filled + list2[k].filled = Fills(list2)
      BY <1>1, <1>2, <1>3, <2>0, <2>3
    <3>2. QED
      BY <1>2, <2>2, <2>3, <3>1 DEF Follows
  <2>4. CASE /\ w.working # 0 /\ w.working = Len(list)
             /\ w.filled + list[Len(list)].filled = Fills(list) + w.credited
             /\ w.credited <= list[Len(list)].filled
             /\ \A i \in 1 .. Len(list) : list[i].recorded
    <3>1. /\ w.filled + list2[k].filled = Fills(list2) + w.credited
          /\ w.credited <= list2[k].filled
      <4>1. ASSUME NEW a \in Nat, NEW b \in Nat, NEW c \in Nat, NEW d \in Nat,
                   a + b = c + d, d <= b
            PROVE  a + (b + 1) = (c + 1) + d /\ d <= b + 1
        BY <4>1
      <4> DEFINE a == w.filled
                 b == list[k].filled
                 c == Fills(list)
                 d == w.credited
      <4>2. a \in Nat /\ b \in Nat /\ c \in Nat /\ d \in Nat /\ a + b = c + d /\ d <= b
        BY <1>2, <1>3, <2>0, <2>4
      <4>3. list2[k].filled = b + 1 /\ Fills(list2) = c + 1
        BY <1>1
      <4>4. a + (b + 1) = (c + 1) + d /\ d <= b + 1
        <5> HIDE DEF a, b, c, d
        <5>1. QED
          BY <4>1, <4>2
      <4>5. QED
        BY <4>3, <4>4
    <3>2. QED
      BY <1>2, <2>2, <2>4, <3>1 DEF Follows
  <2>5. QED
    BY <1>5, <2>1, <2>3, <2>4 DEF Follows
<1>6. ASSUME NEW w \in Locals, NEW verd, Reckoned(w, list, verd)
      PROVE  Reckoned(w, list2, verd)
  <2>1. w.filled \in Nat /\ w.filled <= Fills(list)
    BY <1>6 DEF Locals, Reckoned
  <2>2. w.filled <= Fills(list2)
    BY <1>1, <1>3, <2>1
  <2>3. ~(verd.released > 0)
    BY <1>2, <1>6 DEF Reckoned
  <2>4. ASSUME verd.state \in {"REFUSED", "EXHAUSTED"}, NEW i \in 1 .. Len(list2), list2[i].recorded
        PROVE  ~Walk!Live(list2[i]) /\ list2[i].filled = 0
    BY <1>2, <1>6, <2>4 DEF Reckoned
  <2>5. QED
    BY <1>6, <2>2, <2>3, <2>4 DEF Reckoned
<1>7. QED
  BY <1>4, <1>5, <1>6

\* One order of the walk is changed.
LEMMA Amended ==
  ASSUME NEW list \in Seq(Offer), NEW k \in DOMAIN list, NEW o \in Offer
  PROVE  LET list2 == [list EXCEPT ![k] = o]
         IN /\ list2 \in Seq(Offer) /\ Len(list2) = Len(list) /\ list2[k] = o
            /\ \A i \in DOMAIN list : i # k => list2[i] = list[i]
OBVIOUS

\* An order that is only found or taken to be on its way out: the broker cancels it, ends

\* it, or has been asked to cancel it.
LEMMA StatusIs ==
  ASSUME NEW list \in Seq(Offer), NEW k \in DOMAIN list, Fillable(list),
         NEW s \in {"working", "cancelling", "dead"},
         Walk!Live([list[k] EXCEPT !.status = s]) => Walk!Live(list[k])
  PROVE  LET list2 == [list EXCEPT ![k].status = s]
         IN /\ list2 \in Seq(Offer) /\ Fillable(list2)
            /\ \A stage, w : Follows(stage, w, list) => Follows(stage, w, list2)
            /\ \A w, verd : Reckoned(w, list, verd) => Reckoned(w, list2, verd)
<1> DEFINE o == [list[k] EXCEPT !.status = s]
           list2 == [list EXCEPT ![k] = o]
<1>1. list[k] \in Offer
  OBVIOUS
<1>2. /\ o \in Offer /\ o.filled = list[k].filled /\ o.quantity = list[k].quantity
      /\ o.recorded = list[k].recorded
  BY <1>1 DEF Offer
<1>3. Walk!Live(o) => Walk!Live(list[k])
  OBVIOUS
<1>4. [list EXCEPT ![k].status = s] = list2
  OBVIOUS
<1> HIDE DEF o
<1>5. /\ list2 \in Seq(Offer) /\ Len(list2) = Len(list) /\ list2[k] = o
      /\ \A i \in DOMAIN list : i # k => list2[i] = list[i]
  BY <1>2, Amended
<1> HIDE DEF list2
<1>6. \A i \in 1 .. Len(list) :
         /\ list2[i].filled = list[i].filled /\ list2[i].quantity = list[i].quantity
         /\ list2[i].recorded = list[i].recorded
         /\ Walk!Live(list2[i]) => Walk!Live(list[i])
  <2>1. TAKE i \in 1 .. Len(list)
  <2>2. CASE i = k
    BY <1>2, <1>3, <1>5, <2>2
  <2>3. CASE i # k
    BY <1>5, <2>3
  <2>4. QED
    BY <2>2, <2>3
<1>7. /\ Fillable(list2)
      /\ \A stage, w : Follows(stage, w, list) => Follows(stage, w, list2)
      /\ \A w, verd : Reckoned(w, list, verd) => Reckoned(w, list2, verd)
  BY <1>5, <1>6, Alike
<1>8. QED
  BY <1>4, <1>5, <1>7

\* An observation in which nothing is decided.
LEMMA CountsIn ==
  ASSUME Walk!WalkAssumption, WalkInv, rung # "done", walk.working # 0,
         NEW seen \in Walk!Snapshots
  PROVE  /\ Walk!Counting(seen) \in Locals
         /\ Walk!Counting(seen).working = walk.working
         /\ Walk!Counting(seen).state = walk.state
         /\ Walk!Counting(seen).filled = Walk!Counted(seen)
         /\ Walk!Counting(seen).credited = seen.filled
         /\ \A stage : Follows(stage, Walk!Counting(seen), orders)
<1>1. walk \in Locals /\ Walk!Counted(seen) \in Nat /\ seen.filled \in Nat
  BY SeenIs DEF WalkInv, WalkTypes
<1> DEFINE n == Walk!Counted(seen)
           w == [walk EXCEPT !.filled = n, !.credited = seen.filled]
<1>2. Walk!Counting(seen) = w
  BY DEF Walk!Counting
<1> HIDE DEF n
<1>3. n \in Nat /\ w \in Locals /\ w.working = walk.working /\ w.state = walk.state
      /\ w.filled = n /\ w.credited = seen.filled
  BY <1>1 DEF Locals, n
<1> HIDE DEF w
<1>4. \A stage : Follows(stage, w, orders)
  BY <1>3, Recounts DEF n
<1>5. QED
  BY <1>2, <1>3, <1>4 DEF n

\* Replace, and Over of an order that rests: the cancellation is asked for.
LEMMA CancelSteps ==
  ASSUME Walk!WalkAssumption, WalkInv, rung \in {"replace", "over"}, walk.working # 0,
         UNCHANGED ladder, NEW next \in {"settle", "pull"}, next = "pull" => rung = "over",
         Walk!RequestCancellation(next)
  PROVE  WalkInv'
<1>1. /\ walk \in Locals /\ orders \in Seq(Offer) /\ Fillable(orders) /\ rung # "done"
      /\ Follows(rung, walk, orders) /\ Sized(rung, walk) /\ Descends(ladder.rungs)
      /\ rung = "over" => walk.state \in {"REFUSED", "EXHAUSTED"}
  BY DEF WalkInv, WalkTypes
<1>2. PICK seen \in Walk!Snapshots :
        \/ /\ Walk!Counted(seen) >= OrderSize
           /\ Walk!Finish("FILLED", Walk!Counted(seen), 0)
           /\ UNCHANGED orders
        \/ /\ Walk!Counted(seen) < OrderSize
           /\ Walk!Unconfirmed(Walk!Counted(seen))
           /\ UNCHANGED orders
        \/ /\ Walk!Counted(seen) < OrderSize
           /\ orders' = [orders EXCEPT ![walk.working].status =
                                         IF @ = "working" THEN "cancelling" ELSE @]
           /\ walk' = Walk!Counting(seen)
           /\ rung' = next /\ UNCHANGED outcome
  BY Zenon DEF Walk!RequestCancellation
<1>3. CASE /\ UNCHANGED orders
           /\ \/ Walk!Counted(seen) >= OrderSize /\ Walk!Finish("FILLED", Walk!Counted(seen), 0)
              \/ Walk!Counted(seen) < OrderSize /\ Walk!Unconfirmed(Walk!Counted(seen))
  BY <1>1, <1>3, EndsOpen
<1>4. CASE /\ orders' = [orders EXCEPT ![walk.working].status =
                                         IF @ = "working" THEN "cancelling" ELSE @]
           /\ walk' = Walk!Counting(seen)
           /\ rung' = next
  <2> DEFINE k == walk.working
             s == IF orders[k].status = "working" THEN "cancelling" ELSE orders[k].status
  <2>1. k = Len(orders) /\ orders # <<>>
    BY <1>1 DEF Follows
  <2>2. k \in DOMAIN orders /\ orders[k] \in Offer
    BY <1>1, <2>1
  <2>3. CASE Walk!Live(orders[k])
    <3>1. s \in {"working", "cancelling", "dead"}
      BY <2>3 DEF Walk!Live
    <3>2. orders' = [orders EXCEPT ![k].status = s]
      BY <1>4
    <3> HIDE DEF s
    <3>3. /\ orders' \in Seq(Offer) /\ Fillable(orders')
          /\ \A stage, w : Follows(stage, w, orders) => Follows(stage, w, orders')
      BY <1>1, <2>2, <2>3, <3>1, <3>2, StatusIs
    <3>4. /\ walk' \in Locals /\ walk'.working # 0 /\ walk'.state = walk.state
          /\ Follows(rung', walk', orders)
      BY <1>1, <1>4, CountsIn
    <3>5. Sized(rung', walk')
      BY <1>4, <3>4 DEF Sized
    <3>6. QED
      BY <1>1, <1>4, <3>3, <3>4, <3>5 DEF WalkInv, WalkTypes, WalkStage
  <2>4. CASE ~Walk!Live(orders[k])
    <3>1. s = orders[k].status
      BY <2>4 DEF Walk!Live
    <3>2. UNCHANGED orders
      <4> DEFINE o == [orders[k] EXCEPT !.status = s]
      <4>1. o = orders[k]
        BY <2>2, <3>1 DEF Offer
      <4>2. orders' = [orders EXCEPT ![k] = o]
        BY <1>4
      <4> HIDE DEF o
      <4>3. [orders EXCEPT ![k] = orders[k]] = orders
        BY <1>1, <2>2
      <4>4. QED
        BY <4>1, <4>2, <4>3
    <3>4. /\ walk' \in Locals /\ walk'.working # 0 /\ walk'.state = walk.state
          /\ Follows(rung', walk', orders)
      BY <1>1, <1>4, CountsIn
    <3>5. Sized(rung', walk')
      BY <1>4, <3>4 DEF Sized
    <3>6. QED
      BY <1>1, <1>4, <3>2, <3>4, <3>5 DEF WalkInv, WalkTypes, WalkStage
  <2>5. QED
    BY <2>3, <2>4
<1>5. QED
  BY <1>2, <1>3, <1>4

\* An order seen dead is counted in full, and no other lives.
LEMMA DeadIs ==
  ASSUME Walk!WalkAssumption, WalkInv, rung # "done", walk.working # 0,
         NEW seen \in Walk!Snapshots, Walk!Settled(seen)
  PROVE  /\ Walk!Counted(seen) = Fills(orders)
         /\ \A i \in 1 .. Len(orders) : ~Walk!Live(orders[i]) /\ orders[i].recorded
         /\ Walk!Counted(seen) = 0 => \A i \in 1 .. Len(orders) : orders[i].filled = 0
<1>1. /\ walk \in Locals /\ orders \in Seq(Offer) /\ Fillable(orders)
      /\ \A i \in 1 .. Len(orders) : orders[i].recorded
  BY DEF WalkInv, WalkTypes, Follows
<1>2. /\ ~Walk!Live(orders[Len(orders)])
      /\ Walk!Counted(seen) = Fills(orders)
  BY SeenIs DEF Walk!Settled
<1>3. \A i \in 1 .. Len(orders) : ~Walk!Live(orders[i])
  BY <1>1, <1>2 DEF Fillable
<1>4. \A i \in 1 .. Len(orders) : orders[i].filled \in Nat /\ orders[i].filled <= Fills(orders)
  BY <1>1, FillsAreNumbers
<1>5. Fills(orders) = 0 => \A i \in 1 .. Len(orders) : orders[i].filled = 0
  BY <1>4
<1>6. QED
  BY <1>1, <1>2, <1>3, <1>5

\* The last verdict of a walk that is left.
LEMMA VerdictIs ==
  ASSUME NEW n \in Nat, NEW s \in {"REFUSED", "EXHAUSTED"}, n < OrderSize, OrderSize \in Nat
  PROVE  /\ Walk!Verdict(s, n) # "FILLED" /\ n # OrderSize
         /\ Walk!Verdict(s, n) \in {"REFUSED", "EXHAUSTED"} => n = 0
<1>1. CASE n = 0
  BY <1>1 DEF Walk!Verdict
<1>2. CASE n > 0
  BY <1>2 DEF Walk!Verdict
<1>3. QED
  BY <1>1, <1>2

\* Settle: what the cancelled order filled is counted before the rung is sent.
LEMMA SettleSteps ==
  ASSUME Walk!WalkAssumption, WalkInv, Walk!Settle
  PROVE  WalkInv'
<1>1. /\ walk \in Locals /\ orders \in Seq(Offer) /\ Descends(ladder.rungs)
      /\ rung = "settle" /\ rung # "done" /\ UNCHANGED <<orders, ladder>>
      /\ walk.working # 0 /\ OrderSize \in Nat
  BY DEF WalkInv, WalkTypes, Walk!Settle, Walk!WalkAssumption, Sized
<1>2. PICK seen \in Walk!Snapshots :
        LET total == Walk!Counted(seen)
            rest == OrderSize - total
            dead == [Walk!Counting(seen) EXCEPT
                       !.working = 0, !.credited = 0, !.remaining = rest,
                       !.candidate = Walk!Resized(rest)]
        IN \/ /\ ~Walk!Settled(seen)
              /\ walk' = Walk!Counting(seen) /\ UNCHANGED <<rung, outcome>>
           \/ /\ ~Walk!Settled(seen)
              /\ IF total >= OrderSize THEN Walk!Finish("FILLED", total, 0)
                 ELSE Walk!Unconfirmed(total)
           \/ /\ Walk!Settled(seen) /\ total >= OrderSize
              /\ Walk!Finish("FILLED", total, 0)
           \/ /\ Walk!Settled(seen) /\ total < OrderSize
              /\ Walk!Verified(walk.credit, rest)
              /\ walk' = dead /\ rung' = "send" /\ UNCHANGED outcome
           \/ /\ Walk!Settled(seen) /\ total < OrderSize /\ rest # walk.remaining
              /\ Walk!Finish(IF total > 0 THEN "PARTIALLY_FILLED" ELSE "REFUSED", total, 0)
  BY Zenon DEF Walk!Settle
<1> DEFINE total == Walk!Counted(seen)
<1>3. total \in Nat /\ total <= OrderSize /\ total <= Fills(orders)
  BY <1>1, SeenIs
<1>4. CASE walk' = Walk!Counting(seen) /\ UNCHANGED rung
  <2>1. /\ walk' \in Locals /\ walk'.working # 0 /\ Follows(rung', walk', orders)
    BY <1>1, <1>4, CountsIn
  <2>2. Sized(rung', walk')
    BY <1>1, <1>4, <2>1 DEF Sized
  <2>3. QED
    BY <1>1, <1>4, <2>1, <2>2, Proceeds DEF WalkStage
<1>5. CASE IF total >= OrderSize THEN Walk!Finish("FILLED", total, 0)
           ELSE Walk!Unconfirmed(total)
  <2>1. total >= OrderSize \/ total < OrderSize
    BY <1>1, <1>3
  <2>2. \/ total >= OrderSize /\ Walk!Finish("FILLED", total, 0)
        \/ total < OrderSize /\ Walk!Unconfirmed(total)
    BY <1>1, <1>3, <1>5, <2>1
  <2>3. QED
    BY <1>1, <2>2, EndsOpen
<1>6. CASE total >= OrderSize /\ Walk!Finish("FILLED", total, 0)
  BY <1>1, <1>6, EndsOpen
<1>7. CASE /\ Walk!Settled(seen) /\ total < OrderSize
           /\ walk' = [Walk!Counting(seen) EXCEPT
                         !.working = 0, !.credited = 0, !.remaining = OrderSize - total,
                         !.candidate = Walk!Resized(OrderSize - total)]
           /\ rung' = "send"
  <2>1. /\ Walk!Counting(seen) \in Locals /\ Walk!Counting(seen).filled = total
    BY <1>1, CountsIn
  <2>2. Walk!Resized(OrderSize - total) = OrderSize - total /\ OrderSize - total \in Int
    BY <1>1, <1>3 DEF Walk!Resized
  <2>3. seen.terminal
    BY <1>7 DEF Walk!Settled
  <2> DEFINE w == Walk!Counting(seen)
             rest == OrderSize - total
  <2>4. w \in Locals /\ w.filled = total /\ rest \in Int
        /\ walk' = [w EXCEPT !.working = 0, !.credited = 0, !.remaining = rest,
                             !.candidate = rest]
    BY <1>7, <2>1, <2>2
  <2> HIDE DEF w, rest, total
  <2>5. /\ walk' \in Locals /\ walk'.working = 0 /\ walk'.filled = total
        /\ walk'.candidate = rest
    BY <2>4 DEF Locals
  <2>6. Follows(rung', walk', orders)
    BY <1>1, <2>3, <2>5, Recounts DEF total
  <2>7. Sized(rung', walk')
    BY <1>7, <2>5 DEF Sized, rest, total
  <2>8. QED
    BY <1>1, <1>7, <2>5, <2>6, <2>7, Proceeds DEF WalkStage
<1>8. CASE /\ Walk!Settled(seen) /\ total < OrderSize
           /\ Walk!Finish(IF total > 0 THEN "PARTIALLY_FILLED" ELSE "REFUSED", total, 0)
  <2>1. /\ total = Fills(orders)
        /\ \A i \in 1 .. Len(orders) : ~Walk!Live(orders[i]) /\ orders[i].recorded
        /\ total = 0 => \A i \in 1 .. Len(orders) : orders[i].filled = 0
    BY <1>1, <1>8, DeadIs
  <2>2. PICK verd \in {"PARTIALLY_FILLED", "REFUSED"} :
          Walk!Finish(verd, total, 0) /\ (verd = "REFUSED" => ~(total > 0))
    BY <1>8
  <2>3. total # OrderSize /\ (verd = "REFUSED" => total = 0)
    BY <1>1, <1>3, <1>8, <2>2
  <2> HIDE DEF total
  <2>4. QED
    BY <1>1, <1>3, <2>1, <2>2, <2>3, Finishes
<1>9. QED
  BY <1>2, <1>4, <1>5, <1>6, <1>7, <1>8

\* Pull: what can no longer fill is given back.
LEMMA PullSteps ==
  ASSUME Walk!WalkAssumption, WalkInv, Walk!Pull
  PROVE  WalkInv'
<1>1. /\ walk \in Locals /\ orders \in Seq(Offer) /\ Descends(ladder.rungs)
      /\ rung = "pull" /\ rung # "done" /\ UNCHANGED <<orders, ladder>>
      /\ walk.working # 0 /\ OrderSize \in Nat
      /\ walk.state \in {"REFUSED", "EXHAUSTED"}
  BY DEF WalkInv, WalkTypes, Walk!Pull, Walk!WalkAssumption, Sized
<1>2. PICK seen \in Walk!Snapshots :
        LET total == Walk!Counted(seen)
        IN \/ /\ ~Walk!Settled(seen)
              /\ walk' = Walk!Counting(seen) /\ UNCHANGED <<rung, outcome>>
           \/ /\ ~Walk!Settled(seen)
              /\ IF total >= OrderSize THEN Walk!Finish("FILLED", total, 0)
                 ELSE Walk!Unconfirmed(total)
           \/ /\ Walk!Settled(seen)
              /\ IF total >= OrderSize THEN Walk!Finish("FILLED", total, 0)
                 ELSE Walk!Finish(Walk!Verdict(walk.state, total), total, Walk!Released(total))
  BY Zenon DEF Walk!Pull
<1> DEFINE total == Walk!Counted(seen)
<1>3. total \in Nat /\ total <= OrderSize /\ total <= Fills(orders)
  BY <1>1, SeenIs
<1>4. CASE walk' = Walk!Counting(seen) /\ UNCHANGED rung
  <2>1. /\ walk' \in Locals /\ walk'.working # 0 /\ walk'.state = walk.state
        /\ Follows(rung', walk', orders)
    BY <1>1, <1>4, CountsIn
  <2>2. Sized(rung', walk')
    BY <1>1, <1>4, <2>1 DEF Sized
  <2>3. QED
    BY <1>1, <1>4, <2>1, <2>2, Proceeds DEF WalkStage
<1>5. CASE IF total >= OrderSize THEN Walk!Finish("FILLED", total, 0)
           ELSE Walk!Unconfirmed(total)
  <2>1. \/ total >= OrderSize /\ Walk!Finish("FILLED", total, 0)
        \/ total < OrderSize /\ Walk!Unconfirmed(total)
    BY <1>1, <1>3, <1>5
  <2>2. QED
    BY <1>1, <2>1, EndsOpen
<1>6. CASE total >= OrderSize /\ Walk!Finish("FILLED", total, 0)
  BY <1>1, <1>6, EndsOpen
<1>7. CASE /\ Walk!Settled(seen) /\ ~(total >= OrderSize)
           /\ Walk!Finish(Walk!Verdict(walk.state, total), total, Walk!Released(total))
  <2>1. /\ total = Fills(orders)
        /\ \A i \in 1 .. Len(orders) : ~Walk!Live(orders[i]) /\ orders[i].recorded
        /\ total = 0 => \A i \in 1 .. Len(orders) : orders[i].filled = 0
    BY <1>1, <1>7, DeadIs
  <2> DEFINE verd == Walk!Verdict(walk.state, total)
             released == Walk!Released(total)
  <2>2. released = OrderSize - total
    BY DEF Walk!Released
  <2>3. Walk!Finish(verd, total, released)
    BY <1>7
  <2> HIDE DEF total, released
  <2>4. released \in Nat /\ released + total = OrderSize /\ total < OrderSize
    BY <1>1, <1>3, <1>7, <2>2
  <2>5. /\ verd # "FILLED" /\ total # OrderSize
        /\ verd \in {"REFUSED", "EXHAUSTED"} => total = 0
    BY <1>1, <1>3, <2>4, VerdictIs
  <2> HIDE DEF verd
  <2>6. QED
    BY <1>1, <1>3, <2>1, <2>3, <2>4, <2>5, Finishes
<1>8. QED
  BY <1>2, <1>4, <1>5, <1>6, <1>7

\* When the last order holds all fills, the others hold none.
LEMMA OthersHoldNone ==
  ASSUME NEW list \in Seq(Offer), list # <<>>, Fills(list) = list[Len(list)].filled
  PROVE  \A i \in DOMAIN list : i # Len(list) => list[i].filled = 0
<1> DEFINE n == Len(list)
           S == 1 .. n
           f == [i \in S |-> list[i].filled]
<1>1. \A i \in S : list[i].filled \in Nat
  BY FillsAreNumbers
<1>2. /\ DOMAIN list = S /\ n \in Nat
      /\ \A i \in S : f[i] = list[i].filled
  OBVIOUS
<1>3. f \in [S -> Nat] /\ n \in S /\ Total(f) = f[n]
  BY <1>1, <1>2 DEF Fills
<1>4. IsFiniteSet(S)
  BY <1>2, FS_Interval
<1> HIDE DEF S, f, n
<1>5. \A i \in S : i # n => f[i] = 0
  BY <1>3, <1>4, OthersAreZero
<1>6. QED
  BY <1>2, <1>5 DEF n

\* Over: the walk ends, after a cancellation when an order may rest.
LEMMA OverSteps ==
  ASSUME Walk!WalkAssumption, WalkInv, Walk!Over
  PROVE  WalkInv'
<1>1. /\ walk \in Locals /\ orders \in Seq(Offer) /\ Fillable(orders)
      /\ rung = "over" /\ rung # "done" /\ UNCHANGED ladder /\ OrderSize \in Nat
      /\ walk.state \in {"REFUSED", "EXHAUSTED"}
      /\ Follows(rung, walk, orders) /\ Sized(rung, walk)
  BY DEF WalkInv, WalkTypes, Walk!Over, Walk!WalkAssumption
<1>2. CASE walk.working # 0
  BY <1>1, <1>2, CancelSteps DEF Walk!Over
<1>3. CASE walk.working = 0
  <2> DEFINE n == walk.filled
             verd == Walk!Verdict(walk.state, n)
  <2>1. Walk!Finish(verd, n, 0) /\ UNCHANGED orders
    BY <1>3 DEF Walk!Over
  <2>2. n \in Nat /\ n < OrderSize
    BY <1>1 DEF Locals, Sized
  <2>3. /\ verd # "FILLED" /\ n # OrderSize
        /\ verd \in {"REFUSED", "EXHAUSTED"} => n = 0
    BY <1>1, <2>2, VerdictIs
  <2>4. /\ Fills(orders) \in Nat
        /\ \A i \in 1 .. Len(orders) : orders[i].filled \in Nat /\ orders[i].filled <= Fills(orders)
    BY <1>1, FillsAreNumbers
  <2>5. /\ n <= Fills(orders)
        /\ n = 0 => \A i \in 1 .. Len(orders) :
                      orders[i].recorded => ~Walk!Live(orders[i]) /\ orders[i].filled = 0
    <3>1. CASE /\ n = Fills(orders)
               /\ \A i \in 1 .. Len(orders) : ~Walk!Live(orders[i]) /\ orders[i].recorded
      BY <2>2, <2>4, <3>1
    <3>2. CASE /\ orders # <<>> /\ n + orders[Len(orders)].filled = Fills(orders)
               /\ \A i \in 1 .. Len(orders) : orders[i].recorded <=> i # Len(orders)
      <4>1. orders[Len(orders)].filled \in Nat
        BY <1>1, <2>4, <3>2
      <4>2. n <= Fills(orders) /\ (n = 0 => Fills(orders) = orders[Len(orders)].filled)
        <5> DEFINE a == orders[Len(orders)].filled
                   b == Fills(orders)
        <5>1. a \in Nat /\ b \in Nat /\ n + a = b
          BY <2>4, <3>2, <4>1
        <5> HIDE DEF a, b, n
        <5>2. n <= b /\ (n = 0 => b = a)
          BY <2>2, <5>1
        <5>3. QED
          BY <5>2 DEF a, b
      <4>3. n = 0 => \A i \in DOMAIN orders : i # Len(orders) => orders[i].filled = 0
        BY <1>1, <3>2, <4>2, OthersHoldNone
      <4>4. \A i \in 1 .. Len(orders) : Walk!Live(orders[i]) => i = Len(orders)
        BY <1>1 DEF Fillable
      <4>5. DOMAIN orders = 1 .. Len(orders)
        BY <1>1
      <4>6. ASSUME n = 0, NEW i \in 1 .. Len(orders), orders[i].recorded
            PROVE  ~Walk!Live(orders[i]) /\ orders[i].filled = 0
        <5>1. i # Len(orders)
          BY <3>2, <4>6
        <5>2. ~Walk!Live(orders[i])
          BY <4>4, <5>1
        <5>3. \A j \in DOMAIN orders : j # Len(orders) => orders[j].filled = 0
          BY <4>3, <4>6
        <5>4. i \in DOMAIN orders
          BY <4>5
        <5>5. QED
          BY <5>1, <5>2, <5>3, <5>4
      <4>7. QED
        BY <4>2, <4>6
    <3>3. QED
      BY <1>1, <1>3, <3>1, <3>2 DEF Follows
  <2> HIDE DEF n, verd
  <2>6. QED
    BY <1>1, <2>1, <2>2, <2>3, <2>5, Finishes
<1>4. QED
  BY <1>2, <1>3

\* DwellEnds: an order that died leaves nothing to replace.
LEMMA DwellSteps ==
  ASSUME Walk!WalkAssumption, WalkInv, Walk!DwellEnds
  PROVE  WalkInv'
<1>1. /\ walk \in Locals /\ orders \in Seq(Offer) /\ Descends(ladder.rungs)
      /\ rung = "dwell" /\ rung # "done" /\ UNCHANGED <<orders, ladder>>
      /\ walk.working # 0 /\ OrderSize \in Nat
  BY DEF WalkInv, WalkTypes, Walk!DwellEnds, Walk!WalkAssumption, Sized
<1>2. PICK seen \in Walk!Snapshots :
        IF Walk!Counted(seen) >= OrderSize THEN Walk!Finish("FILLED", Walk!Counted(seen), 0)
        ELSE /\ walk' = [Walk!Counting(seen) EXCEPT
                           !.working = IF seen.terminal THEN 0 ELSE @,
                           !.credited = IF seen.terminal THEN 0 ELSE @]
             /\ rung' = "next" /\ UNCHANGED outcome
  BY Zenon DEF Walk!DwellEnds
<1> DEFINE n == Walk!Counted(seen)
<1>3. n \in Nat /\ n <= OrderSize
  BY <1>1, SeenIs
<1>4. CASE n >= OrderSize
  BY <1>1, <1>2, <1>4, EndsOpen
<1>5. CASE ~(n >= OrderSize)
  <2> DEFINE w == Walk!Counting(seen)
  <2>1. w \in Locals /\ w.filled = n /\ w.working = walk.working /\ w.credited = seen.filled
    BY <1>1, CountsIn
  <2>2. /\ walk' = [w EXCEPT !.working = IF seen.terminal THEN 0 ELSE w.working,
                             !.credited = IF seen.terminal THEN 0 ELSE w.credited]
        /\ rung' = "next"
    BY <1>2, <1>5
  <2> HIDE DEF w, n
  <2>3. /\ walk' \in Locals /\ walk'.filled = n
        /\ walk'.working = IF seen.terminal THEN 0 ELSE walk.working
        /\ ~seen.terminal => walk'.credited = seen.filled
    BY <2>1, <2>2 DEF Locals
  <2>4. Follows(rung', walk', orders)
    <3>1. CASE seen.terminal
      BY <1>1, <2>3, <3>1, Recounts DEF n
    <3>2. CASE ~seen.terminal
      BY <1>1, <2>3, <3>2, Recounts DEF n
    <3>3. QED
      BY <3>1, <3>2
  <2>5. Sized(rung', walk')
    BY <1>1, <1>3, <1>5, <2>2, <2>3 DEF Sized
  <2>6. QED
    BY <1>1, <2>2, <2>3, <2>4, <2>5, Proceeds DEF WalkStage
<1>6. QED
  BY <1>4, <1>5

\* An order for the remainder, when no other lives.
LEMMA SentIs ==
  ASSUME Walk!WalkAssumption, NEW list \in Seq(Offer), Fillable(list),
         \A i \in 1 .. Len(list) : ~Walk!Live(list[i]),
         NEW o \in Offer, o.filled = 0, o.quantity = OrderSize - Fills(list),
         Fills(list) < OrderSize
  PROVE  LET list2 == Append(list, o)
         IN /\ list2 \in Seq(Offer) /\ Fillable(list2) /\ Fills(list2) = Fills(list)
            /\ Len(list2) = Len(list) + 1 /\ list2[Len(list) + 1] = o
            /\ \A i \in 1 .. Len(list) : list2[i] = list[i]
<1> DEFINE list2 == Append(list, o)
           n == Len(list)
<1>1. /\ list2 \in Seq(Offer) /\ Len(list2) = n + 1 /\ list2[n + 1] = o /\ n \in Nat
      /\ \A i \in 1 .. n : list2[i] = list[i]
  OBVIOUS
<1> HIDE DEF list2
<1>2. /\ \A i \in 1 .. n : list[i].filled \in Nat
      /\ \A i \in 1 .. n + 1 : list2[i].filled \in Nat
      /\ Fills(list) \in Nat /\ OrderSize \in Nat
  BY <1>1, FillsAreNumbers DEF Walk!WalkAssumption
<1>3. Fills(list2) = Fills(list)
  <2> DEFINE f == [i \in 1 .. n |-> list[i].filled]
             g == [i \in 1 .. n + 1 |-> list2[i].filled]
  <2>1. f \in [1 .. n -> Nat] /\ g \in [1 .. n + 1 -> Nat]
    BY <1>2
  <2>2. \A i \in 1 .. n : g[i] = f[i]
    BY <1>1
  <2>3. Fills(list) = Total(f) /\ Fills(list2) = Total(g) /\ g[n + 1] = 0
    BY <1>1 DEF Fills
  <2> HIDE DEF f, g
  <2>4. Total(g) = Total(f) + g[n + 1]
    BY <1>1, <2>1, <2>2, TotalOfAppended
  <2>5. QED
    BY <1>2, <2>3, <2>4
<1>4. \A i \in 1 .. Len(list2) :
         /\ list2[i].filled <= list2[i].quantity
         /\ Walk!Live(list2[i]) => i = Len(list2) /\ list2[i].filled < list2[i].quantity
  <2>1. TAKE i \in 1 .. Len(list2)
  <2>2. CASE i = n + 1
    BY <1>1, <1>2, <2>2
  <2>3. CASE i # n + 1
    <3>1. i \in 1 .. n
      BY <1>1, <2>3
    <3>2. QED
      BY <1>1, <3>1 DEF Fillable
  <2>4. QED
    BY <2>2, <2>3
<1>5. Fills(list2) + list2[Len(list2)].quantity <= OrderSize + list2[Len(list2)].filled
  BY <1>1, <1>2, <1>3
<1>6. Fillable(list2)
  BY <1>4, <1>5 DEF Fillable
<1>7. QED
  BY <1>1, <1>3, <1>6 DEF list2

\* Send, SendRaises and SinkRaises: an order for the remainder, recorded or not.
LEMMA SendSteps ==
  ASSUME Walk!WalkAssumption, WalkInv, Walk!Send \/ Walk!SendRaises \/ Walk!SinkRaises
  PROVE  WalkInv'
<1>1. /\ walk \in Locals /\ orders \in Seq(Offer) /\ Fillable(orders)
      /\ rung = "send" /\ UNCHANGED ladder /\ OrderSize \in Nat /\ Descends(ladder.rungs)
      /\ Follows(rung, walk, orders) /\ Sized(rung, walk)
  BY DEF WalkInv, WalkTypes, Walk!Send, Walk!SendRaises, Walk!SinkRaises, Walk!WalkAssumption
<1>2. /\ walk.working = 0 /\ walk.candidate = OrderSize - walk.filled
      /\ walk.filled \in Nat /\ walk.filled < OrderSize /\ walk.filled = Fills(orders)
      /\ \A i \in 1 .. Len(orders) : ~Walk!Live(orders[i]) /\ orders[i].recorded
  BY <1>1 DEF Sized, Follows, Locals
<1>3. \A s \in {"working", "absent"} : \A b \in BOOLEAN :
         /\ Walk!NewOrder(s, b) \in Offer /\ Walk!NewOrder(s, b).filled = 0
         /\ Walk!NewOrder(s, b).quantity = OrderSize - walk.filled
         /\ Walk!NewOrder(s, b).recorded = b
  BY <1>1, <1>2 DEF Walk!NewOrder, Offer, Locals
<1>4. ASSUME NEW s \in {"working", "absent"}, NEW b \in BOOLEAN,
             orders' = Append(orders, Walk!NewOrder(s, b))
      PROVE  /\ orders' \in Seq(Offer) /\ Fillable(orders') /\ walk.filled = Fills(orders')
             /\ orders' # <<>> /\ Len(orders') = Len(orders) + 1
             /\ orders'[Len(orders')].filled = 0 /\ orders'[Len(orders')].recorded = b
             /\ \A i \in 1 .. Len(orders') : i # Len(orders') => orders'[i].recorded
  <2> DEFINE o == Walk!NewOrder(s, b)
  <2>1. o \in Offer /\ o.filled = 0 /\ o.quantity = OrderSize - Fills(orders) /\ o.recorded = b
    BY <1>2, <1>3
  <2>2. orders' = Append(orders, o)
    BY <1>4
  <2> HIDE DEF o
  <2>3. /\ \A i \in 1 .. Len(orders) : ~Walk!Live(orders[i])
        /\ Fills(orders) < OrderSize
    BY <1>2
  <2>4. /\ orders' \in Seq(Offer) /\ Fillable(orders') /\ Fills(orders') = Fills(orders)
        /\ Len(orders') = Len(orders) + 1 /\ orders'[Len(orders) + 1] = o
        /\ \A i \in 1 .. Len(orders) : orders'[i] = orders[i]
    BY <1>1, <2>1, <2>2, <2>3, SentIs
  <2>5. \A i \in 1 .. Len(orders') : i # Len(orders') => i \in 1 .. Len(orders)
    BY <1>1, <2>4
  <2>6. \A i \in 1 .. Len(orders') : i # Len(orders') => orders'[i].recorded
    BY <1>2, <2>4, <2>5
  <2>7. orders' # <<>>
    BY <1>1, <2>4
  <2>8. QED
    BY <1>2, <2>1, <2>4, <2>6, <2>7
<1>5. CASE \E s \in {"working", "absent"} : \E stage \in {"dwell", "next"} :
             Walk!Working(s, stage)
  <2>1. PICK s \in {"working", "absent"}, stage \in {"dwell", "next"} :
          /\ orders' = Append(orders, Walk!NewOrder(s, TRUE))
          /\ walk' = [walk EXCEPT !.working = Len(orders) + 1, !.credited = 0]
          /\ rung' = stage
    BY <1>5 DEF Walk!Working
  <2>2. /\ orders' \in Seq(Offer) /\ Fillable(orders') /\ walk.filled = Fills(orders')
        /\ orders' # <<>> /\ Len(orders') = Len(orders) + 1
        /\ orders'[Len(orders')].filled = 0 /\ orders'[Len(orders')].recorded = TRUE
        /\ \A i \in 1 .. Len(orders') : i # Len(orders') => orders'[i].recorded
    BY <1>4, <2>1
  <2>3. /\ walk' \in Locals /\ walk'.working = Len(orders') /\ walk'.working # 0
        /\ walk'.credited = 0 /\ walk'.filled = walk.filled
    <3> DEFINE m == Len(orders) + 1
    <3>1. m \in Nat /\ m # 0 /\ Len(orders') = m
      BY <1>1, <2>2
    <3>2. walk \in Locals /\ walk' = [walk EXCEPT !.working = m, !.credited = 0]
      BY <1>1, <2>1
    <3> HIDE DEF m
    <3>3. QED
      BY <3>1, <3>2 DEF Locals
  <2>4. \A i \in 1 .. Len(orders') : orders'[i].recorded
    BY <2>2
  <2>5. Follows(rung', walk', orders')
    BY <1>2, <2>2, <2>3, <2>4 DEF Follows
  <2>6. Sized(rung', walk')
    BY <1>1, <1>2, <2>1, <2>3 DEF Sized
  <2>7. QED
    BY <1>1, <2>1, <2>2, <2>3, <2>5, <2>6 DEF WalkInv, WalkTypes, WalkStage
<1>6. CASE Walk!SinkRaises
  <2>1. /\ orders' = Append(orders, Walk!NewOrder("working", FALSE))
        /\ walk' = [walk EXCEPT !.state = "REFUSED"]
        /\ rung' = "over"
    BY <1>6 DEF Walk!SinkRaises, Walk!Leave
  <2>2. /\ orders' \in Seq(Offer) /\ Fillable(orders') /\ walk.filled = Fills(orders')
        /\ orders' # <<>>
        /\ orders'[Len(orders')].filled = 0 /\ orders'[Len(orders')].recorded = FALSE
        /\ \A i \in 1 .. Len(orders') : i # Len(orders') => orders'[i].recorded
    BY <1>4, <2>1
  <2>3. /\ walk' \in Locals /\ walk'.working = 0 /\ walk'.filled = walk.filled
        /\ walk'.state = "REFUSED"
    BY <1>1, <1>2, <2>1 DEF Locals
  <2>4. \A i \in 1 .. Len(orders') : orders'[i].recorded <=> i # Len(orders')
    <3>1. orders'[Len(orders')].recorded = FALSE
      BY <2>2
    <3>2. \A i \in 1 .. Len(orders') : i # Len(orders') => orders'[i].recorded
      BY <2>2
    <3>3. TAKE i \in 1 .. Len(orders')
    <3>4. CASE i = Len(orders')
      BY <3>1, <3>4
    <3>5. CASE i # Len(orders')
      BY <3>2, <3>5
    <3>6. QED
      BY <3>4, <3>5
  <2>5. Follows(rung', walk', orders')
    <3>1. walk'.filled + orders'[Len(orders')].filled = Fills(orders')
      <4>1. walk'.filled = Fills(orders') /\ walk'.filled \in Nat
            /\ orders'[Len(orders')].filled = 0
        BY <1>2, <2>2, <2>3
      <4>2. QED
        BY <4>1
    <3>2. walk'.working = 0 /\ rung' = "over" /\ orders' # <<>>
      BY <2>1, <2>2, <2>3
    <3>3. QED
      BY <2>4, <3>1, <3>2 DEF Follows
  <2>6. Sized(rung', walk')
    BY <1>1, <1>2, <2>1, <2>3 DEF Sized
  <2>7. QED
    BY <1>1, <2>1, <2>2, <2>3, <2>5, <2>6 DEF WalkInv, WalkTypes, WalkStage
<1>7. QED
  BY <1>5, <1>6 DEF Walk!Send, Walk!SendRaises

\* The broker fills, cancels and ends orders on its own, also after the walk has ended.
LEMMA WalkBrokerSteps ==
  ASSUME Walk!WalkAssumption, WalkInv, NEW k \in 1 .. Len(orders),
         Walk!BrokerFills(k) \/ Walk!BrokerCancels(k) \/ Walk!BrokerEnds(k)
  PROVE  WalkInv'
<1>1. /\ walk \in Locals /\ orders \in Seq(Offer) /\ Fillable(orders) /\ WalkTypes
      /\ k \in DOMAIN orders /\ UNCHANGED <<rung, walk, ladder, outcome>>
  BY DEF WalkInv, WalkTypes, Walk!BrokerFills, Walk!BrokerCancels, Walk!BrokerEnds
<1>2. SUFFICES /\ orders' \in Seq(Offer) /\ Fillable(orders')
               /\ \A stage : Follows(stage, walk, orders) => Follows(stage, walk, orders')
               /\ \A verd : Reckoned(walk, orders, verd) => Reckoned(walk, orders', verd)
  BY <1>1, <1>2 DEF WalkInv, WalkTypes
<1>3. CASE Walk!BrokerCancels(k) \/ Walk!BrokerEnds(k)
  <2>1. orders' = [orders EXCEPT ![k].status = "dead"] /\ ~Walk!Live([orders[k] EXCEPT !.status = "dead"])
    <3>1. orders[k] \in Offer
      BY <1>1
    <3>2. ~Walk!Live([orders[k] EXCEPT !.status = "dead"])
      BY <3>1 DEF Walk!Live, Offer
    <3>3. QED
      BY <1>3, <3>2 DEF Walk!BrokerCancels, Walk!BrokerEnds
  <2>2. QED
    BY <1>1, <2>1, StatusIs
<1>4. CASE Walk!BrokerFills(k)
  <2> DEFINE o == [orders[k] EXCEPT !.filled = orders[k].filled + 1,
                                    !.status = IF orders[k].filled + 1 = orders[k].quantity
                                               THEN "dead" ELSE orders[k].status]
  <2>1. orders[k] \in Offer /\ Walk!Live(orders[k])
    BY <1>1, <1>4 DEF Walk!BrokerFills
  <2>2. /\ o \in Offer /\ o.filled = orders[k].filled + 1 /\ o.quantity = orders[k].quantity
        /\ o.recorded = orders[k].recorded
        /\ Walk!Live(o) => orders[k].filled + 1 # orders[k].quantity
    <3> DEFINE n == orders[k].filled + 1
               s == IF n = orders[k].quantity THEN "dead" ELSE orders[k].status
    <3>1. n \in Nat /\ s \in {"working", "cancelling", "dead", "absent"}
          /\ (n = orders[k].quantity => s = "dead")
      BY <2>1 DEF Offer
    <3>2. o = [orders[k] EXCEPT !.filled = n, !.status = s]
      OBVIOUS
    <3> HIDE DEF n, s, o
    <3>3. /\ o \in Offer /\ o.filled = n /\ o.quantity = orders[k].quantity
          /\ o.recorded = orders[k].recorded /\ o.status = s
      BY <2>1, <3>1, <3>2 DEF Offer
    <3>4. QED
      BY <3>1, <3>3 DEF Walk!Live, n
  <2>3. orders' = [orders EXCEPT ![k] = o]
    BY <1>4 DEF Walk!BrokerFills
  <2> HIDE DEF o
  <2>4. /\ orders' \in Seq(Offer) /\ Len(orders') = Len(orders) /\ orders'[k] = o
        /\ \A i \in DOMAIN orders : i # k => orders'[i] = orders[i]
    BY <1>1, <2>2, <2>3, Amended
  <2>5. /\ Fillable(orders')
        /\ \A w \in Locals : \A stage : Follows(stage, w, orders) => Follows(stage, w, orders')
        /\ \A w \in Locals : \A verd : Reckoned(w, orders, verd) => Reckoned(w, orders', verd)
    <3>1. /\ orders'[k].filled = orders[k].filled + 1
          /\ orders'[k].quantity = orders[k].quantity
          /\ orders'[k].recorded = orders[k].recorded
          /\ Walk!Live(orders'[k]) => orders[k].filled + 1 # orders[k].quantity
      BY <2>2, <2>4
    <3>2. QED
      BY <1>1, <2>1, <2>4, <3>1, FillIs
  <2>6. QED
    BY <1>1, <2>4, <2>5
<1>5. QED
  BY <1>3, <1>4

\* A walk begins without orders.
LEMMA WalkBegins ==
  ASSUME Walk!WalkAssumption, Walk!Init
  PROVE  WalkInv
<1>1. /\ rung = "top" /\ orders = <<>> /\ ladder.rungs = <<>>
      /\ walk = [index |-> 0, filled |-> 0, remaining |-> 0, credit |-> 0, candidate |-> 0,
                 working |-> 0, credited |-> 0, state |-> None]
  BY DEF Walk!Init
<1>2. orders \in Seq(Offer) /\ Len(orders) = 0 /\ Descends(ladder.rungs)
  BY <1>1 DEF Descends
<1>3. Fills(orders) = 0
  <2> DEFINE f == [i \in 1 .. Len(orders) |-> orders[i].filled]
  <2>1. f \in [1 .. 0 -> Nat] /\ \A i \in 1 .. 0 : f[i] = 0
    BY <1>2
  <2>2. Fills(orders) = Total(f)
    BY DEF Fills
  <2> HIDE DEF f
  <2>3. QED
    BY <2>1, <2>2, TotalOfNone
<1>4. walk \in Locals /\ walk.working = 0 /\ walk.filled = 0
  BY <1>1 DEF Locals
<1>5. WalkTypes
  BY <1>1, <1>2, <1>4 DEF WalkTypes, WalkStage
<1>6. Fillable(orders)
  BY <1>1, <1>2 DEF Fillable
<1>7. Follows(rung, walk, orders)
  BY <1>2, <1>3, <1>4 DEF Follows
<1>8. Sized(rung, walk)
  BY <1>1, <1>4 DEF Sized, Walk!WalkAssumption
<1>9. QED
  BY <1>1, <1>5, <1>6, <1>7, <1>8 DEF WalkInv

\* The invariant says that the walk is true.
LEMMA WalkIsSafe ==
  ASSUME Walk!WalkAssumption, WalkInv
  PROVE  Walk!WalkIsTrue
<1>1. /\ walk \in Locals /\ orders \in Seq(Offer) /\ Fillable(orders) /\ OrderSize \in Nat
      /\ Descends(ladder.rungs)
  BY DEF WalkInv, WalkTypes, Walk!WalkAssumption
<1>2. Walk!NeverOversized
  BY <1>1, FillsAreOrdered, WalkSums DEF Walk!NeverOversized
<1>3. Walk!Filled = Fills(orders) /\ Fills(orders) \in Nat
  BY <1>1, WalkSums, FillsAreNumbers DEF Walk!Filled, Fills
<1>4. walk.filled <= Fills(orders)
  <2>1. CASE rung = "done"
    BY <2>1 DEF WalkInv, Reckoned
  <2>2. CASE rung # "done"
    <3>1. Follows(rung, walk, orders) /\ walk.filled \in Nat /\ walk.credited \in Nat
      BY <1>1, <2>2 DEF WalkInv, Locals
    <3>2. CASE walk.filled = Fills(orders)
      BY <3>1, <3>2
    <3>3. CASE /\ orders # <<>> /\ walk.filled + orders[Len(orders)].filled = Fills(orders)
      <4>1. orders[Len(orders)].filled \in Nat
        BY <1>1, <3>3, FillsAreNumbers
      <4>2. QED
        BY <1>3, <3>1, <3>3, <4>1
    <3>4. CASE /\ walk.working # 0 /\ walk.working = Len(orders)
               /\ walk.filled + orders[Len(orders)].filled = Fills(orders) + walk.credited
               /\ walk.credited <= orders[Len(orders)].filled
      <4>1. Len(orders) \in 1 .. Len(orders)
        BY <1>1, <3>4
      <4>2. orders[Len(orders)].filled \in Nat
        BY <1>1, <4>1, FillsAreNumbers
      <4>3. ASSUME NEW a \in Nat, NEW b \in Nat, NEW c \in Nat, NEW d \in Nat,
                   a + b = c + d, d <= b
            PROVE  a <= c
        BY <4>3
      <4>4. QED
        BY <1>3, <3>1, <3>4, <4>2, <4>3
    <3>5. QED
      BY <3>1, <3>2, <3>3, <3>4 DEF Follows
  <2>3. QED
    BY <2>1, <2>2
<1>5. Walk!OutcomeIsTrue
  BY <1>3, <1>4 DEF WalkInv, Reckoned, Walk!OutcomeIsTrue
<1>6. Walk!RefusedIsFlat
  BY DEF WalkInv, Reckoned, Walk!RefusedIsFlat
<1>7. Walk!LadderIsAWalk
  BY <1>1 DEF Descends, Rung, OnGrid, Walk!LadderIsAWalk
<1>8. QED
  BY <1>2, <1>5, <1>6, <1>7 DEF Walk!WalkIsTrue

\* However the broker fills, rejects and cancels, and whatever observation is late or
\* lost, a walk never has more than the order filled or resting, gives back only what can
\* no longer fill, and leaves nothing behind when it refuses or gives up; every rung is on
\* the grid, within the envelope and lower than the one before: for any order, envelope,
\* grid, books and number of attempts and mishaps (walk.py, pricing.py).
THEOREM WalkStaysTrue == MCSpec => []WalkIsTrue
<1>1. Walk!WalkAssumption
  BY OrdersAssumption
<1>2. MCInit => (part = "walk" => WalkInv)
  BY <1>1, WalkBegins DEF MCInit
<1>3. (part = "walk" => WalkInv) /\ [MCNext]_everything => (part = "walk" => WalkInv)'
  <2>1. SUFFICES ASSUME part = "walk" => WalkInv, [MCNext]_everything, part' = "walk"
                 PROVE  WalkInv'
    OBVIOUS
  <2>2. WalkInv /\ [Walk!Next]_priceWalk
    BY <2>1 DEF MCNext, everything
  <2>3. CASE UNCHANGED priceWalk
    <3>1. UNCHANGED <<rung, walk, orders, ladder, outcome>>
      BY <2>3 DEF priceWalk
    <3>2. QED
      BY <2>2, <3>1 DEF WalkInv, WalkTypes
  <2>4. CASE Walk!Broker
    BY <1>1, <2>2, <2>4, WalkBrokerSteps DEF Walk!Broker
  <2>5. CASE Walk!Replace
    <3>1. rung = "replace" /\ UNCHANGED ladder /\ Walk!RequestCancellation("settle")
      BY <2>5 DEF Walk!Replace
    <3>2. walk.working # 0
      BY <2>2, <3>1 DEF WalkInv, Sized
    <3>3. QED
      BY <1>1, <2>2, <3>1, <3>2, CancelSteps
  <2>6. CASE Walk!Step /\ ~Walk!Replace
    BY <1>1, <2>2, <2>6, LeaveSteps, HarvestSteps, PriceSteps, SettleSteps, SendSteps,
       DwellSteps, OverSteps, PullSteps, Zenon DEF Walk!Step
  <2>7. QED
    BY <2>2, <2>3, <2>4, <2>5, <2>6 DEF Walk!Next
<1>4. (part = "walk" => WalkInv) => WalkIsTrue
  BY <1>1, WalkIsSafe DEF WalkIsTrue
<1>5. QED
  BY <1>2, <1>3, <1>4, PTL DEF MCSpec

=============================================================================
