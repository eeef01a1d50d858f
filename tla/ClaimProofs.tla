---------------------------- MODULE ClaimProofs ----------------------------
(***************************************************************************)
(* Proofs about ScanBook: however many processes scan, nominate, claim and *)
(* die, a symbol is claimed by one entry at a time, and every claim names  *)
(* the complete book that its entry was nominated from.  They hold for     *)
(* every set of symbols and processes, and every number of scans, entries, *)
(* sessions and deaths.                                                    *)
(***************************************************************************)
EXTENDS ScanBook, SequenceTheorems, TLAPS

Scanning == {"scanning", "sharded", "published", "pointed"}
Locked == {"event", "indexing"}
Claiming == {"recorded", "cas"} \cup Locked

Receipts == [owner : Owner, state : {"started", "sharded", "completed", "aborted"}]
Books == [rows : SUBSET Symbols, complete : BOOLEAN]
Event == [state : {"CLAIMED", "SUPERSEDED"}, owner : Owner, entry : 1 .. MaxEntries,
          scan : Scan]
Entry == [symbol : Symbols, state : {"claimed", "live", "ended"}, scan : Scan]
Proc == [pc : {"idle", "admitted", "served"} \cup Scanning \cup Claiming, owner : Owner,
         scan : 0 .. MaxScans, pinned : 0 .. MaxScans, symbol : Symbols \cup {None},
         entry : 0 .. MaxEntries, to : {None, "CLAIMED", "SUPERSEDED"}, version : Nat]

\* The type of the whole state, TypeOK and what it leaves out.
Types ==
  /\ receipts \in Seq(Receipts) /\ Len(receipts) <= MaxScans
  /\ books \in [Scan -> {None} \cup Books]
  /\ latest \in 0 .. MaxScans
  /\ claims \in [Symbols -> Seq(Event)]
  /\ index \in [Symbols -> Nat]
  /\ entries \in Seq(Entry) /\ Len(entries) <= MaxEntries
  /\ proc \in [Processes -> Proc]

\* A scan has one process and one book, which is published once.
ScanOf(p) ==
  /\ At(p, "scanning") \/ At(p, "sharded") => books[proc[p].scan] = None
  /\ At(p, "published") \/ At(p, "pointed") => books[proc[p].scan] # None
  /\ proc[p].pc \in Scanning => proc[p].scan \in 1 .. Len(receipts)

ScansAreApart ==
  \A p, q \in Processes :
    /\ proc[p].pc \in Scanning /\ proc[q].pc \in Scanning
    /\ proc[p].scan = proc[q].scan
    => p = q

BooksAreStarted == \A s \in Scan : books[s] # None => s <= Len(receipts)

\* A book that a pass may nominate from.
Complete(s) == s \in Scan /\ books[s] # None /\ books[s].complete

\* What a pass carries: the book it pinned, then its entry, then the version it read.
Carries(p) ==
  /\ At(p, "admitted") => Complete(proc[p].pinned)
  /\ proc[p].pc \in Claiming =>
       /\ proc[p].symbol \in Symbols
       /\ proc[p].entry \in 1 .. Len(entries)
       /\ entries[proc[p].entry].symbol = proc[p].symbol
       /\ proc[p].to \in {"CLAIMED", "SUPERSEDED"}
  /\ At(p, "recorded") => proc[p].to = "CLAIMED"
  /\ proc[p].pc \in Claiming /\ proc[p].to = "CLAIMED" =>
       /\ Complete(proc[p].pinned)
       /\ proc[p].symbol \in books[proc[p].pinned].rows
       /\ entries[proc[p].entry].scan = proc[p].pinned
       /\ ~At(p, "recorded") => proc[p].scan = proc[p].pinned

\* The version read before the lock is not ahead of the stream; while it is the
\* stream's, the stream ends as it did.
Fresh(p) ==
  At(p, "cas") =>
    LET x == proc[p].symbol
    IN /\ proc[p].version <= Len(claims[x])
       /\ Len(claims[x]) = proc[p].version /\ proc[p].to = "SUPERSEDED" => Claimed(x)

\* The holder of the lock appends the event that is due.
Due(p) == At(p, "event") => (Claimed(proc[p].symbol) <=> proc[p].to = "SUPERSEDED")

LocksExclude ==
  \A p, q \in Processes :
    /\ proc[p].pc \in Locked /\ proc[q].pc \in Locked
    /\ proc[p].symbol = proc[q].symbol
    => p = q

\* ClaimsAreOwned, with the entry of every claim among the entries.
ClaimOK(x, i) ==
  LET claim == claims[x][i]
  IN /\ claim.state = IF i % 2 = 1 THEN "CLAIMED" ELSE "SUPERSEDED"
     /\ claim.entry \in 1 .. Len(entries)
     /\ entries[claim.entry].symbol = x
     /\ claim.scan = entries[claim.entry].scan
     /\ Complete(claim.scan) /\ x \in books[claim.scan].rows

StreamsOK == \A x \in Symbols : \A i \in 1 .. Len(claims[x]) : ClaimOK(x, i)

\* The index never runs ahead of its stream.
IndexOK == \A x \in Symbols : index[x] <= Len(claims[x])

LatestOK == latest # 0 => books[latest] # None

ScanInv ==
  /\ Types
  /\ \A p \in Processes : ScanOf(p) /\ Carries(p) /\ Fresh(p) /\ Due(p)
  /\ ScansAreApart /\ LocksExclude
  /\ BooksAreStarted /\ LatestOK /\ IndexOK /\ StreamsOK

-----------------------------------------------------------------------------
(* What the updates of a process, of the entries and of the receipts leave *)

\* A process is given a new record; the others keep theirs.
LEMMA Becomes ==
  ASSUME Types, NEW p \in Processes, NEW m \in Proc, proc' = [proc EXCEPT ![p] = m]
  PROVE  /\ proc' \in [Processes -> Proc]
         /\ proc'[p] = m
         /\ \A q \in Processes \ {p} : proc'[q] = proc[q]
BY DEF Types

\* A process that only goes on keeps all it remembers.
LEMMA GoesOn ==
  ASSUME Types, NEW p \in Processes, NEW pc, Goes(p, pc),
         pc \in {"idle", "admitted", "served"} \cup Scanning \cup Claiming
  PROVE  /\ proc' \in [Processes -> Proc]
         /\ \A q \in Processes \ {p} : proc'[q] = proc[q]
         /\ proc'[p].pc = pc
         /\ proc'[p].scan = proc[p].scan /\ proc'[p].pinned = proc[p].pinned
         /\ proc'[p].symbol = proc[p].symbol /\ proc'[p].entry = proc[p].entry
         /\ proc'[p].to = proc[p].to /\ proc'[p].version = proc[p].version
<1> PICK m : m = [proc[p] EXCEPT !.pc = pc]
  OBVIOUS
<1>1. proc[p] \in Proc
  BY DEF Types
<1>2. m \in Proc
  BY <1>1 DEF Proc
<1>3. proc' = [proc EXCEPT ![p] = m]
  BY DEF Goes
<1>4. /\ m.pc = pc /\ m.scan = proc[p].scan /\ m.pinned = proc[p].pinned
      /\ m.symbol = proc[p].symbol /\ m.entry = proc[p].entry
      /\ m.to = proc[p].to /\ m.version = proc[p].version
  BY <1>1 DEF Proc
<1>5. QED
  BY <1>2, <1>3, <1>4, Becomes

\* A process at rest remembers its session.
LEMMA IdleType ==
  ASSUME NEW owner \in Owner
  PROVE  Idle(owner) \in Proc /\ Idle(owner).pc = "idle"
BY BookAssumption DEF Idle, Proc

LEMMA RestsType ==
  ASSUME Types, NEW p \in Processes, Rests(p)
  PROVE  /\ proc' \in [Processes -> Proc]
         /\ \A q \in Processes \ {p} : proc'[q] = proc[q]
         /\ proc'[p].pc = "idle"
<1> PICK m : m = Idle(proc[p].owner)
  OBVIOUS
<1>1. proc[p].owner \in Owner
  BY DEF Types, Proc
<1>2. m \in Proc /\ m.pc = "idle"
  BY <1>1, IdleType
<1>3. proc' = [proc EXCEPT ![p] = m]
  BY DEF Rests
<1>4. QED
  BY <1>2, <1>3, Becomes

\* The state of an entry changes, never its symbol or its scan.
LEMMA Restated ==
  ASSUME NEW s \in Seq(Entry), NEW e \in 1 .. Len(s), NEW t,
         NEW state \in {"claimed", "live", "ended"}, t = [s EXCEPT ![e].state = state]
  PROVE  /\ t \in Seq(Entry) /\ Len(t) = Len(s)
         /\ \A i \in 1 .. Len(s) : t[i].symbol = s[i].symbol /\ t[i].scan = s[i].scan
<1> PICK new : new = [s[e] EXCEPT !.state = state]
  OBVIOUS
<1>1. s[e] \in Entry
  BY ElementOfSeq
<1>2. new \in Entry
  BY <1>1 DEF Entry
<1>3. new.symbol = s[e].symbol /\ new.scan = s[e].scan
  BY <1>1 DEF Entry
<1>4. t = [s EXCEPT ![e] = new]
  OBVIOUS
<1>5. QED
  BY <1>2, <1>3, <1>4, ExceptSeq

\* So with the state of a receipt.
LEMMA Filed ==
  ASSUME NEW s \in Seq(Receipts), NEW i \in 1 .. Len(s), NEW t,
         NEW state \in {"started", "sharded", "completed", "aborted"},
         t = [s EXCEPT ![i].state = state]
  PROVE  t \in Seq(Receipts) /\ Len(t) = Len(s)
<1> PICK new : new = [s[i] EXCEPT !.state = state]
  OBVIOUS
<1>1. s[i] \in Receipts
  BY ElementOfSeq
<1>2. new \in Receipts
  BY <1>1 DEF Receipts
<1>3. t = [s EXCEPT ![i] = new]
  OBVIOUS
<1>4. QED
  BY <1>2, <1>3, ExceptSeq
-----------------------------------------------------------------------------
(* What a step leaves to those who do not take it *)

\* Scans, entries, books and streams only grow.
Grows ==
  /\ Len(receipts) <= Len(receipts')
  /\ Len(entries) <= Len(entries')
  /\ \A e \in 1 .. Len(entries) :
       entries'[e].symbol = entries[e].symbol /\ entries'[e].scan = entries[e].scan
  /\ \A s \in Scan : books[s] # None => books'[s] = books[s]
  /\ \A x \in Symbols :
       /\ Len(claims[x]) <= Len(claims'[x])
       /\ Len(claims[x]) = Len(claims'[x]) => claims'[x] = claims[x]

\* What a process may rely on.
Relies(p) == ScanOf(p) /\ Carries(p) /\ Fresh(p) /\ Due(p)

\* Lengths are numbers, before and after.
LEMMA Lengths ==
  ASSUME Types, Types'
  PROVE  /\ Len(receipts) \in Nat /\ Len(receipts') \in Nat
         /\ Len(entries) \in Nat /\ Len(entries') \in Nat
         /\ \A x \in Symbols : Len(claims[x]) \in Nat /\ Len(claims'[x]) \in Nat
BY DEF Types

\* A complete book stays what it is.
LEMMA CompleteStays ==
  ASSUME Grows, NEW s, Complete(s)
  PROVE  Complete(s)' /\ books'[s] = books[s]
BY DEF Grows, Complete

\* A process that does not move relies on what it did, unless its own book is published
\* or the stream it has locked grows.
LEMMA Stands ==
  ASSUME Types, Types', Grows, NEW q \in Processes, Relies(q), proc'[q] = proc[q],
         At(q, "scanning") \/ At(q, "sharded") => books'[proc[q].scan] = books[proc[q].scan],
         At(q, "event") => claims'[proc[q].symbol] = claims[proc[q].symbol]
  PROVE  Relies(q)'
<1>0. ScanOf(q) /\ Carries(q) /\ Fresh(q) /\ Due(q)
  BY DEF Relies
<1>1. ScanOf(q)'
  <2>1. proc[q].pc \in Scanning => proc[q].scan \in 1 .. Len(receipts')
    BY <1>0, Lengths DEF ScanOf, Grows
  <2>2. At(q, "published") \/ At(q, "pointed") => books'[proc[q].scan] # None
    <3>1. ASSUME At(q, "published") \/ At(q, "pointed")
          PROVE  books'[proc[q].scan] = books[proc[q].scan] /\ books[proc[q].scan] # None
      <4>1. proc[q].scan \in 1 .. Len(receipts) /\ books[proc[q].scan] # None
        BY <1>0, <3>1 DEF ScanOf, At, Scanning
      <4>2. proc[q].scan \in Scan
        BY <4>1, BookAssumption DEF Types, Scan
      <4>3. QED
        BY <4>1, <4>2 DEF Grows
    <3>2. QED
      BY <3>1
  <2>3. QED
    BY <1>0, <2>1, <2>2 DEF ScanOf, At
<1>2. Carries(q)'
  <2>1. At(q, "admitted") => Complete(proc[q].pinned)'
    BY <1>0, CompleteStays DEF Carries
  <2>2. ASSUME proc[q].pc \in Claiming
        PROVE  /\ proc[q].entry \in 1 .. Len(entries')
               /\ entries'[proc[q].entry].symbol = entries[proc[q].entry].symbol
               /\ entries'[proc[q].entry].scan = entries[proc[q].entry].scan
    BY <1>0, <2>2, Lengths DEF Carries, Grows
  <2>3. ASSUME proc[q].pc \in Claiming, proc[q].to = "CLAIMED"
        PROVE  Complete(proc[q].pinned)' /\ books'[proc[q].pinned] = books[proc[q].pinned]
    BY <1>0, <2>3, CompleteStays DEF Carries
  <2>4. QED
    BY <1>0, <2>1, <2>2, <2>3 DEF Carries, At, Complete
<1>3. Fresh(q)'
  <2> SUFFICES ASSUME At(q, "cas")
               PROVE  LET x == proc[q].symbol
                      IN /\ proc[q].version <= Len(claims'[x])
                         /\ Len(claims'[x]) = proc[q].version /\ proc[q].to = "SUPERSEDED"
                              => Claimed(x)'
    BY DEF Fresh, At
  <2>1. proc[q].symbol \in Symbols /\ proc[q].version \in Nat
    BY <1>0 DEF Carries, At, Claiming, Types, Proc
  <2>2. PICK x \in Symbols : x = proc[q].symbol
    BY <2>1
  <2>3. /\ proc[q].version <= Len(claims[x])
        /\ Len(claims[x]) = proc[q].version /\ proc[q].to = "SUPERSEDED" => Claimed(x)
    BY <1>0, <2>2 DEF Fresh
  <2>4. /\ Len(claims[x]) <= Len(claims'[x])
        /\ Len(claims[x]) = Len(claims'[x]) => claims'[x] = claims[x]
    BY DEF Grows
  <2>5. Len(claims[x]) \in Nat /\ Len(claims'[x]) \in Nat
    BY Lengths
  <2>6. Len(claims'[x]) = proc[q].version => claims'[x] = claims[x]
    BY <2>1, <2>3, <2>4, <2>5
  <2>7. claims'[x] = claims[x] => (Claimed(x)' <=> Claimed(x))
    BY DEF Claimed, Latest
  <2>8. QED
    BY <2>1, <2>2, <2>3, <2>4, <2>5, <2>6, <2>7
<1>4. Due(q)'
  BY <1>0 DEF Due, At, Claimed, Latest
<1>5. QED
  BY <1>1, <1>2, <1>3, <1>4 DEF Relies

\* A claim that is in order stays in order.
LEMMA ClaimStays ==
  ASSUME Types, Types', Grows, NEW x \in Symbols, NEW i \in 1 .. Len(claims[x]), ClaimOK(x, i),
         claims'[x][i] = claims[x][i]
  PROVE  ClaimOK(x, i)'
<1> PICK claim : claim = claims[x][i]
  OBVIOUS
<1>1. /\ claim.state = IF i % 2 = 1 THEN "CLAIMED" ELSE "SUPERSEDED"
      /\ claim.entry \in 1 .. Len(entries)
      /\ entries[claim.entry].symbol = x
      /\ claim.scan = entries[claim.entry].scan
      /\ Complete(claim.scan) /\ x \in books[claim.scan].rows
  BY DEF ClaimOK
<1>2. /\ claim.entry \in 1 .. Len(entries')
      /\ entries'[claim.entry].symbol = entries[claim.entry].symbol
      /\ entries'[claim.entry].scan = entries[claim.entry].scan
  BY <1>1, Lengths DEF Grows
<1>3. Complete(claim.scan)' /\ books'[claim.scan] = books[claim.scan]
  BY <1>1, CompleteStays
<1>4. claim = claims'[x][i]
  OBVIOUS
<1>5. QED
  BY <1>1, <1>2, <1>3, <1>4 DEF ClaimOK, Complete

LEMMA StreamsStay ==
  ASSUME Types, Types', Grows, StreamsOK, UNCHANGED claims
  PROVE  StreamsOK'
<1> SUFFICES ASSUME NEW x \in Symbols, NEW i \in 1 .. Len(claims[x]) PROVE ClaimOK(x, i)'
  BY DEF StreamsOK
<1>1. QED
  BY ClaimStays DEF StreamsOK

\* What one process may do, for the invariant to hold.
LEMMA Moves ==
  ASSUME ScanInv, Types', Grows, NEW p \in Processes, Relies(p)',
         \A q \in Processes \ {p} : proc'[q] = proc[q],
         \A q \in Processes \ {p} :
           At(q, "scanning") \/ At(q, "sharded") => books'[proc[q].scan] = books[proc[q].scan],
         \A q \in Processes \ {p} : At(q, "event") => claims'[proc[q].symbol] = claims[proc[q].symbol],
         proc'[p].pc \in Scanning =>
           \/ proc[p].pc \in Scanning /\ proc'[p].scan = proc[p].scan
           \/ proc'[p].scan > Len(receipts),
         proc'[p].pc \in Locked =>
           /\ proc'[p].symbol = proc[p].symbol
           /\ proc[p].pc \in Locked \/ Unlocked(proc[p].symbol),
         BooksAreStarted', LatestOK', IndexOK', StreamsOK'
  PROVE  ScanInv'
<1>0. /\ Types /\ ScansAreApart /\ LocksExclude
      /\ \A q \in Processes : Relies(q)
  BY DEF ScanInv, Relies
<1>1. \A q \in Processes : Relies(q)'
  BY <1>0, Stands
<1>2. ASSUME NEW q \in Processes \ {p}
      PROVE  /\ ~(/\ proc'[p].pc \in Scanning /\ proc'[q].pc \in Scanning
                  /\ proc'[p].scan = proc'[q].scan)
             /\ ~(/\ proc'[p].pc \in Locked /\ proc'[q].pc \in Locked
                  /\ proc'[p].symbol = proc'[q].symbol)
  <2>1. proc[q].pc \in Scanning => proc[q].scan \in 1 .. Len(receipts)
    BY <1>0 DEF Relies, ScanOf
  <2>2. ASSUME proc'[p].pc \in Scanning, proc'[q].pc \in Scanning
        PROVE  proc'[p].scan # proc'[q].scan
    BY <1>0, <2>1, <2>2, Lengths DEF ScansAreApart
  <2>3. ASSUME proc'[p].pc \in Locked, proc'[q].pc \in Locked
        PROVE  proc'[p].symbol # proc'[q].symbol
    BY <1>0, <2>3 DEF LocksExclude, Unlocked, Locked
  <2>4. QED
    BY <2>2, <2>3
<1>3. ScansAreApart'
  BY <1>0, <1>2 DEF ScansAreApart
<1>4. LocksExclude'
  BY <1>0, <1>2 DEF LocksExclude
<1>5. QED
  BY <1>1, <1>3, <1>4 DEF ScanInv, Relies

\* A process that comes to rest or services what it has claimed, and leaves books and streams alone.
LEMMA Stops ==
  ASSUME ScanInv, Types', NEW p \in Processes, proc'[p].pc \in {"idle", "served"},
         \A q \in Processes \ {p} : proc'[q] = proc[q],
         Len(receipts') = Len(receipts), Len(entries') = Len(entries),
         \A e \in 1 .. Len(entries) :
           entries'[e].symbol = entries[e].symbol /\ entries'[e].scan = entries[e].scan,
         UNCHANGED <<books, claims, latest>>, IndexOK'
  PROVE  ScanInv'
<1>0. Types /\ StreamsOK /\ BooksAreStarted /\ LatestOK
  BY DEF ScanInv
<1>1. Grows
  BY <1>0, Lengths DEF Grows
<1>2. Relies(p)'
  BY DEF Relies, ScanOf, Carries, Fresh, Due, At, Scanning, Claiming, Locked
<1>3. BooksAreStarted' /\ LatestOK' /\ StreamsOK'
  BY <1>0, <1>1, StreamsStay DEF BooksAreStarted, LatestOK
<1>4. proc'[p].pc \notin Scanning /\ proc'[p].pc \notin Locked
  BY DEF Scanning, Locked
<1>5. QED
  BY <1>1, <1>2, <1>3, <1>4, Moves

-----------------------------------------------------------------------------
(* The invariant *)

\* Nothing has been scanned or claimed at first.
LEMMA ScanInit == Init => ScanInv
<1> SUFFICES ASSUME Init PROVE ScanInv
  OBVIOUS
<1>1. ASSUME NEW p \in Processes PROVE proc[p] \in Proc /\ proc[p].pc = "idle"
  <2>1. proc[p] = Idle(<<p, 1>>)
    BY DEF Init
  <2>2. <<p, 1>> \in Owner
    BY BookAssumption DEF Owner
  <2>3. QED
    BY <2>1, <2>2, IdleType
<1>2. /\ receipts = <<>> /\ entries = <<>> /\ latest = 0
      /\ books = [s \in Scan |-> None]
      /\ claims = [x \in Symbols |-> <<>>] /\ index = [x \in Symbols |-> 0]
  BY DEF Init
<1>3. \A S : <<>> \in Seq(S)
  OBVIOUS
<1>4. DOMAIN proc = Processes /\ proc = [p \in Processes |-> proc[p]]
  BY DEF Init
<1>5. proc \in [Processes -> Proc]
  BY <1>1, <1>4
<1>6. Types
  BY <1>2, <1>3, <1>5, BookAssumption DEF Types
<1>7. \A p \in Processes : Relies(p)
  BY <1>1 DEF Relies, ScanOf, Carries, Fresh, Due, At, Scanning, Claiming, Locked
<1>8. ScansAreApart /\ LocksExclude
  BY <1>1 DEF ScansAreApart, LocksExclude, Scanning, Locked
<1>9. BooksAreStarted /\ LatestOK /\ IndexOK /\ StreamsOK
  BY <1>2 DEF BooksAreStarted, LatestOK, IndexOK, StreamsOK
<1>10. QED
  BY <1>6, <1>7, <1>8, <1>9 DEF ScanInv, Relies

\* The end of a scan, of a pass, of a claim, of a session or of a process.
LEMMA EndStep ==
  ASSUME ScanInv, NEW p \in Processes,
         \/ CompleteScan(p) \/ ScanFails(p) \/ NothingToClaim(p) \/ LosesClaim(p)
         \/ IndexFails(p) \/ WriteIndex(p) \/ LosesSupersession(p) \/ Serviced(p) \/ Die(p)
  PROVE  ScanInv'
<1>0. Types /\ ScanOf(p) /\ Carries(p) /\ IndexOK
  BY DEF ScanInv
<1>1. Rests(p) \/ Goes(p, "served")
  BY DEF CompleteScan, ScanFails, NothingToClaim, LosesClaim, IndexFails, WriteIndex,
         LosesSupersession, Serviced, Die
<1>2. UNCHANGED <<books, claims, latest>>
  BY DEF CompleteScan, ScanFails, NothingToClaim, LosesClaim, IndexFails, WriteIndex,
         LosesSupersession, Serviced, Die, scanning, claiming
<1>3. /\ proc' \in [Processes -> Proc] /\ proc'[p].pc \in {"idle", "served"}
      /\ \A q \in Processes \ {p} : proc'[q] = proc[q]
  BY <1>0, <1>1, RestsType, GoesOn
<1>4. receipts' \in Seq(Receipts) /\ Len(receipts') = Len(receipts)
  <2>1. CASE UNCHANGED receipts
    BY <1>0, <2>1 DEF Types
  <2>2. ASSUME NEW state \in {"completed", "aborted"}, Receipt(p, state), proc[p].pc \in Scanning
        PROVE  receipts' \in Seq(Receipts) /\ Len(receipts') = Len(receipts)
    <3>1. proc[p].scan \in 1 .. Len(receipts) /\ receipts \in Seq(Receipts)
      BY <1>0, <2>2 DEF ScanOf, Types
    <3>2. receipts' = [receipts EXCEPT ![proc[p].scan].state = state]
      BY <2>2 DEF Receipt
    <3>3. state \in {"started", "sharded", "completed", "aborted"}
      OBVIOUS
    <3>4. QED
      BY <3>1, <3>2, <3>3, Filed
  <2>3. QED
    BY <2>1, <2>2 DEF CompleteScan, ScanFails, NothingToClaim, LosesClaim, IndexFails,
       WriteIndex, LosesSupersession, Serviced, Die, scanning, At, Scanning
<1>5. /\ entries' \in Seq(Entry) /\ Len(entries') = Len(entries)
      /\ \A e \in 1 .. Len(entries) :
           entries'[e].symbol = entries[e].symbol /\ entries'[e].scan = entries[e].scan
  <2>1. CASE UNCHANGED entries
    BY <1>0, <2>1 DEF Types
  <2>2. CASE /\ proc[p].pc \in Claiming
             /\ \E state \in {"live", "ended"} :
                  entries' = [entries EXCEPT ![proc[p].entry].state = state]
    <3>1. proc[p].entry \in 1 .. Len(entries) /\ entries \in Seq(Entry)
      BY <1>0, <2>2 DEF Carries, Types
    <3>2. PICK state \in {"claimed", "live", "ended"} :
            entries' = [entries EXCEPT ![proc[p].entry].state = state]
      BY <2>2
    <3>3. QED
      BY <3>1, <3>2, Restated
  <2>3. QED
    BY <2>1, <2>2 DEF CompleteScan, ScanFails, NothingToClaim, LosesClaim, IndexFails,
       WriteIndex, LosesSupersession, Serviced, Die, At, Claiming, Locked
<1>6. index' \in [Symbols -> Nat] /\ IndexOK'
  <2>1. CASE UNCHANGED index
    BY <1>0, <1>2, <2>1 DEF Types, IndexOK
  <2>2. CASE WriteIndex(p)
    <3>1. index' = [index EXCEPT ![proc[p].symbol] = Len(claims[proc[p].symbol])]
      BY <2>2 DEF WriteIndex
    <3>2. proc[p].symbol \in Symbols
      BY <1>0, <2>2 DEF WriteIndex, Carries, At, Claiming, Locked
    <3>3. QED
      BY <1>0, <1>2, <3>1, <3>2 DEF Types, IndexOK
  <2>3. QED
    BY <2>1, <2>2 DEF CompleteScan, ScanFails, NothingToClaim, LosesClaim, IndexFails,
       LosesSupersession, Serviced, Die, claiming
<1>7. Types'
  BY <1>0, <1>2, <1>3, <1>4, <1>5, <1>6 DEF Types
<1>8. QED
  BY <1>2, <1>3, <1>4, <1>5, <1>6, <1>7, Stops

\* A scan gets the next number, which no process and no book has.
LEMMA StartStep ==
  ASSUME ScanInv, NEW p \in Processes, StartScan(p)
  PROVE  ScanInv'
<1>0. Types /\ BooksAreStarted /\ LatestOK /\ IndexOK /\ StreamsOK
  BY DEF ScanInv
<1> PICK m : m = [proc[p] EXCEPT !.pc = "scanning", !.scan = Len(receipts) + 1]
  OBVIOUS
<1>1. proc[p] \in Proc /\ proc[p].owner \in Owner
  BY <1>0 DEF Types, Proc
<1>2. Len(receipts) < MaxScans /\ Len(receipts) \in Nat
  BY <1>0 DEF StartScan, Types
<1>3. /\ m \in Proc /\ m.pc = "scanning" /\ m.scan = Len(receipts) + 1
  <2>1. Len(receipts) + 1 \in 0 .. MaxScans
    BY <1>2, BookAssumption
  <2>2. QED
    BY <1>1, <2>1 DEF Proc, Scanning
<1>4. proc' = [proc EXCEPT ![p] = m]
  BY DEF StartScan
<1>5. /\ proc' \in [Processes -> Proc] /\ proc'[p] = m
      /\ \A q \in Processes \ {p} : proc'[q] = proc[q]
  BY <1>0, <1>3, <1>4, Becomes
<1>6. receipts' \in Seq(Receipts) /\ Len(receipts') = Len(receipts) + 1
  <2> PICK r : r = [owner |-> proc[p].owner, state |-> "started"]
    OBVIOUS
  <2>1. r \in Receipts
    BY <1>1 DEF Receipts
  <2>2. receipts' = Append(receipts, r)
    BY DEF StartScan
  <2>3. receipts \in Seq(Receipts)
    BY <1>0 DEF Types
  <2>4. QED
    BY <2>1, <2>2, <2>3, AppendProperties
<1>7. UNCHANGED <<books, latest, claims, index, entries>>
  BY DEF StartScan, claiming
<1>8. Types'
  BY <1>0, <1>2, <1>5, <1>6, <1>7, BookAssumption DEF Types
<1>9. Grows
  BY <1>0, <1>2, <1>6, <1>7, <1>8, Lengths DEF Grows
<1>10. Relies(p)'
  <2>1. Len(receipts) + 1 \in Scan
    BY <1>2, BookAssumption DEF Scan
  <2>2. books[Len(receipts) + 1] = None
    BY <1>0, <1>2, <2>1 DEF BooksAreStarted
  <2>3. Len(receipts) + 1 \in 1 .. Len(receipts')
    BY <1>2, <1>6
  <2>4. QED
    BY <1>3, <1>5, <1>7, <2>2, <2>3
       DEF Relies, ScanOf, Carries, Fresh, Due, At, Scanning, Claiming, Locked
<1>11. BooksAreStarted'
  BY <1>0, <1>2, <1>6, <1>7, BookAssumption DEF BooksAreStarted, Scan
<1>12. LatestOK' /\ IndexOK' /\ StreamsOK'
  BY <1>0, <1>7, <1>8, <1>9, StreamsStay DEF LatestOK, IndexOK
<1>13. proc'[p].pc \notin Locked /\ proc'[p].scan > Len(receipts)
  BY <1>2, <1>3, <1>5 DEF Locked
<1>14. QED
  BY <1>5, <1>7, <1>8, <1>9, <1>10, <1>11, <1>12, <1>13, Moves

\* A book is published by its scan, complete or not; the pointer names it after.
LEMMA ScanStep ==
  ASSUME ScanInv, NEW p \in Processes,
         ShardCompleted(p) \/ PublishBook(p) \/ PointLatest(p)
  PROVE  ScanInv'
<1>0. Types /\ BooksAreStarted /\ LatestOK /\ IndexOK /\ StreamsOK /\ ScanOf(p) /\ ScansAreApart
      /\ \A q \in Processes : ScanOf(q)
  BY DEF ScanInv
<1>1. /\ UNCHANGED <<claims, index, entries>>
      /\ proc[p].pc \in Scanning
      /\ \/ At(p, "scanning") /\ Goes(p, "sharded")
         \/ At(p, "sharded") /\ Goes(p, "published") /\ PublishBook(p)
         \/ At(p, "published") /\ Goes(p, "pointed")
  BY DEF ShardCompleted, PublishBook, PointLatest, claiming, At, Scanning
<1>2. PICK pc \in {"sharded", "published", "pointed"} :
        /\ Goes(p, pc)
        /\ \/ At(p, "scanning") /\ pc = "sharded"
           \/ At(p, "sharded") /\ pc = "published" /\ PublishBook(p)
           \/ At(p, "published") /\ pc = "pointed"
  BY <1>1
<1>3. /\ proc' \in [Processes -> Proc]
      /\ \A q \in Processes \ {p} : proc'[q] = proc[q]
      /\ proc'[p].pc = pc /\ proc'[p].scan = proc[p].scan
  BY <1>0, <1>2, GoesOn DEF Scanning
<1>4. proc[p].scan \in 1 .. Len(receipts) /\ proc[p].scan \in Scan
  BY <1>0, <1>1, BookAssumption DEF ScanOf, Types, Scan
<1>5. receipts' \in Seq(Receipts) /\ Len(receipts') = Len(receipts)
  <2>1. receipts \in Seq(Receipts)
    BY <1>0 DEF Types
  <2>2. \/ UNCHANGED receipts
        \/ receipts' = [receipts EXCEPT ![proc[p].scan].state = "sharded"]
    BY DEF ShardCompleted, PublishBook, PointLatest, Receipt
  <2>3. QED
    BY <1>4, <2>1, <2>2, Filed
<1>6. /\ books' \in [Scan -> {None} \cup Books]
      /\ \A s \in Scan \ {proc[p].scan} : books'[s] = books[s]
      /\ ~At(p, "sharded") => books' = books
  <2>1. CASE books' = books
    <3>1. books \in [Scan -> {None} \cup Books]
      BY <1>0 DEF Types
    <3>2. \A s \in Scan \ {proc[p].scan} : books'[s] = books[s]
      BY <2>1
    <3>3. QED
      BY <2>1, <3>1, <3>2
  <2>2. CASE PublishBook(p)
    <3>1. PICK b \in Books : books' = [books EXCEPT ![proc[p].scan] = b]
      BY <2>2 DEF PublishBook, Books
    <3>2. b # None
      BY <3>1, BookAssumption DEF Books
    <3>3. QED
      BY <1>0, <1>4, <2>2, <3>1, <3>2 DEF Types, PublishBook
  <2>3. QED
    BY <2>1, <2>2 DEF ShardCompleted, PointLatest
<1>7. latest' = latest \/ (latest' = proc[p].scan /\ At(p, "published") /\ books' = books)
  BY DEF ShardCompleted, PublishBook, PointLatest
<1>8. Types'
  <2>1. latest' \in 0 .. MaxScans
    BY <1>0, <1>4, <1>7, BookAssumption DEF Types, Scan
  <2>2. QED
    BY <1>0, <1>1, <1>3, <1>5, <1>6, <2>1 DEF Types
<1>9. At(p, "scanning") \/ At(p, "sharded") => books[proc[p].scan] = None
  BY <1>0 DEF ScanOf
<1>10. Grows
  BY <1>0, <1>1, <1>5, <1>6, <1>8, <1>9, Lengths DEF Grows
<1>11. Relies(p)'
  <2>1. proc'[p].scan \in 1 .. Len(receipts')
    BY <1>3, <1>4, <1>5
  <2>2. pc = "sharded" => books'[proc[p].scan] = None
    BY <1>2, <1>6, <1>9 DEF At
  <2>3. pc \in {"published", "pointed"} => books'[proc[p].scan] # None
    <3>1. pc = "published" => At(p, "sharded") /\ PublishBook(p)
      BY <1>2
    <3>2. pc = "pointed" => At(p, "published")
      BY <1>2
    <3>3. PublishBook(p) => books'[proc[p].scan] # None
      <4>1. ASSUME PublishBook(p) PROVE books'[proc[p].scan] # None
        <5>1. PICK b \in Books : books' = [books EXCEPT ![proc[p].scan] = b]
          BY <4>1 DEF PublishBook, Books
        <5>2. b # None
          BY <5>1, BookAssumption DEF Books
        <5>3. QED
          BY <1>0, <1>4, <5>1, <5>2 DEF Types
      <4>2. QED
        BY <4>1
    <3>4. QED
      BY <1>0, <1>6, <3>1, <3>2, <3>3 DEF ScanOf, At
  <2>4. QED
    BY <1>2, <1>3, <2>1, <2>2, <2>3
       DEF Relies, ScanOf, Carries, Fresh, Due, At, Scanning, Claiming, Locked
<1>12. BooksAreStarted' /\ LatestOK' /\ IndexOK' /\ StreamsOK'
  <2>1. BooksAreStarted'
    BY <1>0, <1>4, <1>5, <1>6, Lengths DEF BooksAreStarted
  <2>2. LatestOK'
    <3>1. CASE latest' = latest
      BY <1>0, <1>10, <3>1, BookAssumption DEF LatestOK, Types, Scan, Grows
    <3>2. CASE latest' = proc[p].scan /\ At(p, "published") /\ books' = books
      BY <1>0, <3>2 DEF LatestOK, ScanOf
    <3>3. QED
      BY <1>7, <3>1, <3>2
  <2>3. IndexOK' /\ StreamsOK'
    BY <1>0, <1>1, <1>8, <1>10, StreamsStay DEF IndexOK
  <2>4. QED
    BY <2>1, <2>2, <2>3
<1>13. ASSUME NEW q \in Processes \ {p}, At(q, "scanning") \/ At(q, "sharded")
       PROVE  books'[proc[q].scan] = books[proc[q].scan]
  <2>1. proc[q].pc \in Scanning
    BY <1>13 DEF At, Scanning
  <2>2. proc[q].scan \in Scan \ {proc[p].scan}
    BY <1>0, <1>1, <2>1, BookAssumption DEF ScansAreApart, ScanOf, Types, Scan
  <2>3. QED
    BY <1>6, <2>2
<1>14. proc'[p].pc \notin Locked
  BY <1>2, <1>3 DEF Locked
<1>15. QED
  BY <1>1, <1>3, <1>8, <1>10, <1>11, <1>12, <1>13, <1>14, Moves

\* A pass pins the complete book that the pointer names.
LEMMA AdmitStep ==
  ASSUME ScanInv, NEW p \in Processes, Admit(p)
  PROVE  ScanInv'
<1>0. Types /\ BooksAreStarted /\ LatestOK /\ IndexOK /\ StreamsOK
  BY DEF ScanInv
<1> PICK m : m = [proc[p] EXCEPT !.pc = "admitted", !.pinned = latest]
  OBVIOUS
<1>1. m \in Proc /\ m.pc = "admitted" /\ m.pinned = latest
  <2>1. proc[p] \in Proc /\ latest \in 0 .. MaxScans
    BY <1>0 DEF Types
  <2>2. QED
    BY <2>1 DEF Proc
<1>2. proc' = [proc EXCEPT ![p] = m]
  BY DEF Admit
<1>3. /\ proc' \in [Processes -> Proc] /\ proc'[p] = m
      /\ \A q \in Processes \ {p} : proc'[q] = proc[q]
  BY <1>0, <1>1, <1>2, Becomes
<1>4. UNCHANGED <<receipts, books, latest, claims, index, entries>>
  BY DEF Admit, scanning, claiming
<1>5. Types'
  BY <1>0, <1>3, <1>4 DEF Types
<1>6. Grows
  BY <1>0, <1>4, <1>5, Lengths DEF Grows
<1>7. Complete(latest)'
  BY <1>0, <1>4, BookAssumption DEF Complete, Admit, LatestOK, Types, Scan
<1>8. Relies(p)'
  BY <1>1, <1>3, <1>4, <1>7
     DEF Relies, ScanOf, Carries, Fresh, Due, At, Scanning, Claiming, Locked
<1>9. BooksAreStarted' /\ LatestOK' /\ IndexOK' /\ StreamsOK'
  BY <1>0, <1>4, <1>5, <1>6, StreamsStay DEF BooksAreStarted, LatestOK, IndexOK
<1>10. proc'[p].pc \notin Scanning /\ proc'[p].pc \notin Locked
  BY <1>1, <1>3 DEF Scanning, Locked
<1>11. QED
  BY <1>3, <1>4, <1>5, <1>6, <1>8, <1>9, <1>10, Moves

\* A nomination of the pinned book becomes an entry, which remembers the book.
LEMMA RecordStep ==
  ASSUME ScanInv, NEW p \in Processes, RecordEntry(p)
  PROVE  ScanInv'
<1>0. Types /\ BooksAreStarted /\ LatestOK /\ IndexOK /\ StreamsOK /\ Carries(p)
  BY DEF ScanInv
<1>1. PICK x \in books[proc[p].pinned].rows :
        /\ entries' = Append(entries, [symbol |-> x, state |-> "claimed", scan |-> proc[p].pinned])
        /\ proc' = [proc EXCEPT ![p].pc = "recorded", ![p].symbol = x,
                                ![p].entry = Len(entries) + 1, ![p].to = "CLAIMED"]
  BY DEF RecordEntry
<1>2. Complete(proc[p].pinned) /\ x \in Symbols
  <2>1. Complete(proc[p].pinned)
    BY <1>0 DEF RecordEntry, Carries
  <2>2. books[proc[p].pinned] \in Books
    BY <1>0, <2>1 DEF Types, Complete
  <2>3. QED
    BY <1>1, <2>1, <2>2 DEF Books
<1>3. Len(entries) < MaxEntries /\ Len(entries) \in Nat
  BY <1>0 DEF RecordEntry, Types
<1> PICK m : m = [proc[p] EXCEPT !.pc = "recorded", !.symbol = x, !.entry = Len(entries) + 1,
                                 !.to = "CLAIMED"]
  OBVIOUS
<1>4. /\ m \in Proc /\ m.pc = "recorded" /\ m.symbol = x /\ m.entry = Len(entries) + 1
      /\ m.to = "CLAIMED" /\ m.pinned = proc[p].pinned
  <2>1. proc[p] \in Proc /\ Len(entries) + 1 \in 0 .. MaxEntries
    BY <1>0, <1>3, BookAssumption DEF Types
  <2>2. QED
    BY <1>2, <2>1 DEF Proc, Claiming
<1>5. proc' = [proc EXCEPT ![p] = m]
  BY <1>1
<1>6. /\ proc' \in [Processes -> Proc] /\ proc'[p] = m
      /\ \A q \in Processes \ {p} : proc'[q] = proc[q]
  BY <1>0, <1>4, <1>5, Becomes
<1> PICK e : e = [symbol |-> x, state |-> "claimed", scan |-> proc[p].pinned]
  OBVIOUS
<1>7. e \in Entry /\ e.symbol = x /\ e.scan = proc[p].pinned
  BY <1>2 DEF Entry, Complete
<1>8. /\ entries' \in Seq(Entry) /\ Len(entries') = Len(entries) + 1
      /\ \A i \in 1 .. Len(entries) : entries'[i] = entries[i]
      /\ entries'[Len(entries) + 1] = e
  <2>1. entries' = Append(entries, e) /\ entries \in Seq(Entry)
    BY <1>0, <1>1 DEF Types
  <2>2. QED
    BY <1>7, <2>1, AppendProperties
<1>9. UNCHANGED <<receipts, books, latest, claims, index>>
  BY DEF RecordEntry, scanning, claiming
<1>10. Types'
  BY <1>0, <1>3, <1>6, <1>8, <1>9, BookAssumption DEF Types
<1>11. Grows
  <2>1. \A i \in 1 .. Len(entries) :
          entries'[i].symbol = entries[i].symbol /\ entries'[i].scan = entries[i].scan
    BY <1>8
  <2>2. Len(entries) <= Len(entries') /\ Len(receipts) <= Len(receipts')
    BY <1>3, <1>8, <1>9, <1>10, Lengths, <1>0
  <2>3. \A y \in Symbols : Len(claims[y]) <= Len(claims'[y])
    BY <1>0, <1>9, <1>10, Lengths
  <2>4. QED
    BY <1>9, <2>1, <2>2, <2>3 DEF Grows
<1>12. Relies(p)'
  <2>1. Len(entries) + 1 \in 1 .. Len(entries')
    BY <1>3, <1>8
  <2>2. Complete(m.pinned)'
    BY <1>2, <1>4, <1>9 DEF Complete
  <2>3. Carries(p)'
    BY <1>1, <1>2, <1>4, <1>6, <1>7, <1>8, <1>9, <2>1, <2>2 DEF Carries, At, Claiming, Locked
  <2>4. QED
    BY <1>4, <1>6, <2>3 DEF Relies, ScanOf, Fresh, Due, At, Scanning, Claiming, Locked
<1>13. BooksAreStarted' /\ LatestOK' /\ IndexOK' /\ StreamsOK'
  BY <1>0, <1>9, <1>10, <1>11, StreamsStay DEF BooksAreStarted, LatestOK, IndexOK
<1>14. proc'[p].pc \notin Scanning /\ proc'[p].pc \notin Locked
  BY <1>4, <1>6 DEF Scanning, Locked
<1>15. QED
  BY <1>6, <1>9, <1>10, <1>11, <1>12, <1>13, <1>14, Moves

\* The version is read before the lock: of an unclaimed symbol for a claim, of a claimed
\* one for a supersession.
LEMMA ReadStep ==
  ASSUME ScanInv, NEW p \in Processes,
         ReadClaim(p) \/ \E e \in DOMAIN entries : ReadSuperseded(p, e)
  PROVE  ScanInv'
<1>0. Types /\ BooksAreStarted /\ LatestOK /\ IndexOK /\ StreamsOK /\ Carries(p)
  BY DEF ScanInv
<1>1. UNCHANGED <<receipts, books, latest, claims, index, entries>>
  BY DEF ReadClaim, ReadSuperseded, scanning, claiming
<1>2. PICK m \in Proc :
        /\ proc' = [proc EXCEPT ![p] = m] /\ m.pc = "cas"
        /\ m.symbol \in Symbols /\ m.version = Len(claims[m.symbol])
        /\ m.entry \in 1 .. Len(entries) /\ entries[m.entry].symbol = m.symbol
        /\ m.to \in {"CLAIMED", "SUPERSEDED"}
        /\ m.to = "CLAIMED" =>
             /\ Complete(m.pinned) /\ m.symbol \in books[m.pinned].rows
             /\ entries[m.entry].scan = m.pinned /\ m.scan = m.pinned
        /\ m.to = "SUPERSEDED" => Claimed(m.symbol)
  <2>0. proc[p] \in Proc
    BY <1>0 DEF Types
  <2>1. CASE ReadClaim(p)
    <3> PICK m : m = [proc[p] EXCEPT !.pc = "cas", !.scan = latest,
                                     !.version = Len(claims[proc[p].symbol])]
      OBVIOUS
    <3>1. /\ proc[p].symbol \in Symbols /\ proc[p].entry \in 1 .. Len(entries)
          /\ entries[proc[p].entry].symbol = proc[p].symbol
          /\ proc[p].to = "CLAIMED" /\ Complete(proc[p].pinned)
          /\ proc[p].symbol \in books[proc[p].pinned].rows
          /\ entries[proc[p].entry].scan = proc[p].pinned
      BY <1>0, <2>1 DEF ReadClaim, Carries, At, Claiming
    <3>2. latest = proc[p].pinned
      BY <2>1 DEF ReadClaim, Selects
    <3>3. /\ m \in Proc /\ m.pc = "cas" /\ m.symbol = proc[p].symbol
          /\ m.version = Len(claims[proc[p].symbol]) /\ m.entry = proc[p].entry
          /\ m.to = proc[p].to /\ m.pinned = proc[p].pinned /\ m.scan = latest
      <4>1. latest \in 0 .. MaxScans /\ Len(claims[proc[p].symbol]) \in Nat
        BY <1>0, <3>1 DEF Types
      <4>2. QED
        BY <2>0, <4>1 DEF Proc, Claiming
    <3>4. proc' = [proc EXCEPT ![p] = m]
      BY <2>1 DEF ReadClaim
    <3>5. QED
      BY <3>1, <3>2, <3>3, <3>4
  <2>2. ASSUME NEW e \in DOMAIN entries, ReadSuperseded(p, e)
        PROVE  \E m \in Proc :
                 /\ proc' = [proc EXCEPT ![p] = m] /\ m.pc = "cas"
                 /\ m.symbol \in Symbols /\ m.version = Len(claims[m.symbol])
                 /\ m.entry \in 1 .. Len(entries) /\ entries[m.entry].symbol = m.symbol
                 /\ m.to = "SUPERSEDED" /\ Claimed(m.symbol)
    <3> PICK x : x = entries[e].symbol
      OBVIOUS
    <3>1. e \in 1 .. Len(entries) /\ entries[e] \in Entry
      BY <1>0, ElementOfSeq DEF Types
    <3>2. x \in Symbols
      BY <3>1 DEF Entry
    <3> PICK m : m = [proc[p] EXCEPT !.pc = "cas", !.symbol = x, !.entry = e,
                                     !.to = "SUPERSEDED", !.version = Len(claims[x])]
      OBVIOUS
    <3>3. /\ m \in Proc /\ m.pc = "cas" /\ m.symbol = x /\ m.version = Len(claims[x])
          /\ m.entry = e /\ m.to = "SUPERSEDED"
      <4>1. e \in 0 .. MaxEntries /\ Len(claims[x]) \in Nat
        BY <1>0, <3>1, <3>2, BookAssumption DEF Types
      <4>2. QED
        BY <2>0, <3>2, <4>1 DEF Proc, Claiming
    <3>4. proc' = [proc EXCEPT ![p] = m] /\ Claimed(x)
      BY <2>2 DEF ReadSuperseded
    <3>5. QED
      BY <3>1, <3>2, <3>3, <3>4
  <2>3. QED
    BY <2>1, <2>2
<1>3. /\ proc' \in [Processes -> Proc] /\ proc'[p] = m
      /\ \A q \in Processes \ {p} : proc'[q] = proc[q]
  BY <1>0, <1>2, Becomes
<1>4. Types'
  BY <1>0, <1>1, <1>3 DEF Types
<1>5. Grows
  BY <1>0, <1>1, <1>4, Lengths DEF Grows
<1>6. Complete(m.pinned) => Complete(m.pinned)'
  BY <1>1 DEF Complete
<1>7. Claimed(m.symbol) => Claimed(m.symbol)'
  BY <1>1 DEF Claimed, Latest
<1>8. Relies(p)'
  <2>1. Carries(p)'
    BY <1>1, <1>2, <1>3, <1>6 DEF Carries, At, Claiming, Locked
  <2>2. Fresh(p)'
    <3>1. Len(claims[m.symbol]) \in Nat
      BY <1>0, <1>2 DEF Types
    <3>2. QED
      BY <1>1, <1>2, <1>3, <1>7, <3>1 DEF Fresh
  <2>3. QED
    BY <1>2, <1>3, <2>1, <2>2 DEF Relies, ScanOf, Due, At, Scanning
<1>9. BooksAreStarted' /\ LatestOK' /\ IndexOK' /\ StreamsOK'
  BY <1>0, <1>1, <1>4, <1>5, StreamsStay DEF BooksAreStarted, LatestOK, IndexOK
<1>10. proc'[p].pc \notin Scanning /\ proc'[p].pc \notin Locked
  BY <1>2, <1>3 DEF Scanning, Locked
<1>11. QED
  BY <1>1, <1>3, <1>4, <1>5, <1>8, <1>9, <1>10, Moves

\* Inside the lock the version is compared: the event that is due is the one to write.
LEMMA LockStep ==
  ASSUME ScanInv, NEW p \in Processes, LockClaim(p)
  PROVE  ScanInv'
<1>0. Types /\ BooksAreStarted /\ LatestOK /\ IndexOK /\ StreamsOK /\ Carries(p) /\ Fresh(p)
  BY DEF ScanInv
<1>1. UNCHANGED <<receipts, books, latest, claims, index, entries>>
  BY DEF LockClaim, scanning, claiming
<1>2. At(p, "cas") /\ Goes(p, "event") /\ Unlocked(proc[p].symbol) /\ MayCommit(p)
  BY DEF LockClaim
<1>3. /\ proc' \in [Processes -> Proc]
      /\ \A q \in Processes \ {p} : proc'[q] = proc[q]
      /\ proc'[p].pc = "event"
      /\ proc'[p].scan = proc[p].scan /\ proc'[p].pinned = proc[p].pinned
      /\ proc'[p].symbol = proc[p].symbol /\ proc'[p].entry = proc[p].entry
      /\ proc'[p].to = proc[p].to
  BY <1>0, <1>2, GoesOn DEF Claiming, Locked
<1>4. Types'
  BY <1>0, <1>1, <1>3 DEF Types
<1>5. Grows
  BY <1>0, <1>1, <1>4, Lengths DEF Grows
<1>6. Carries(p)'
  BY <1>0, <1>1, <1>2, <1>3 DEF Carries, Complete, At, Claiming, Locked
<1>7. Due(p)'
  <2> PICK x : x = proc[p].symbol
    OBVIOUS
  <2>1. proc[p].to \in {"CLAIMED", "SUPERSEDED"}
    BY <1>0, <1>2 DEF Carries, At, Claiming
  <2>2. Len(claims[x]) = proc[p].version /\ (proc[p].to = "CLAIMED" => ~Claimed(x))
    BY <1>2 DEF MayCommit
  <2>3. Claimed(x) <=> proc[p].to = "SUPERSEDED"
    BY <1>0, <1>2, <2>1, <2>2 DEF Fresh
  <2>4. Claimed(x)' <=> Claimed(x)
    BY <1>1 DEF Claimed, Latest
  <2>5. QED
    BY <1>3, <2>3, <2>4 DEF Due
<1>8. Relies(p)'
  BY <1>3, <1>6, <1>7 DEF Relies, ScanOf, Fresh, At, Scanning
<1>9. BooksAreStarted' /\ LatestOK' /\ IndexOK' /\ StreamsOK'
  BY <1>0, <1>1, <1>4, <1>5, StreamsStay DEF BooksAreStarted, LatestOK, IndexOK
<1>10. proc'[p].pc \notin Scanning
  BY <1>3 DEF Scanning
<1>11. QED
  BY <1>1, <1>2, <1>3, <1>4, <1>5, <1>8, <1>9, <1>10, Moves

\* Claims stand at the odd places.
LEMMA Parity ==
  ASSUME NEW n \in Nat
  PROVE  (n + 1) % 2 = 1 <=> n % 2 # 1
OBVIOUS

\* The event that is due continues the alternation, and names the entry and the book
\* that the holder carries, or those of the claim it ends.
LEMMA EventStep ==
  ASSUME ScanInv, NEW p \in Processes, WriteEvent(p)
  PROVE  ScanInv'
<1>0. /\ Types /\ BooksAreStarted /\ LatestOK /\ IndexOK /\ StreamsOK /\ LocksExclude
      /\ Carries(p) /\ Due(p)
  BY DEF ScanInv
<1>1. UNCHANGED <<receipts, books, latest, index, entries>>
  BY DEF WriteEvent, scanning
<1>2. PICK x \in Symbols : x = proc[p].symbol
  BY <1>0 DEF WriteEvent, Carries, At, Claiming, Locked
<1>3. PICK n \in Nat : n = Len(claims[x])
  BY <1>0 DEF Types
<1>4. claims[x] \in Seq(Event)
  BY <1>0 DEF Types
<1>5. /\ At(p, "event") /\ proc[p].to \in {"CLAIMED", "SUPERSEDED"}
      /\ proc[p].entry \in 1 .. Len(entries) /\ entries[proc[p].entry].symbol = x
      /\ Claimed(x) <=> proc[p].to = "SUPERSEDED"
      /\ proc[p].to = "CLAIMED" =>
           /\ Complete(proc[p].scan) /\ x \in books[proc[p].scan].rows
           /\ entries[proc[p].entry].scan = proc[p].scan
  BY <1>0, <1>2 DEF WriteEvent, Carries, Due, At, Claiming, Locked
<1>6. Claimed(x) <=> n % 2 = 1
  <2>1. CASE n = 0
    <3>1. claims[x] = <<>>
      BY <1>3, <1>4, <2>1, EmptySeq
    <3>2. QED
      BY <2>1, <3>1 DEF Claimed
  <2>2. CASE n # 0
    <3>1. n \in 1 .. Len(claims[x])
      BY <1>3, <2>2
    <3>2. claims[x][n].state = IF n % 2 = 1 THEN "CLAIMED" ELSE "SUPERSEDED"
      BY <1>0, <3>1 DEF StreamsOK, ClaimOK
    <3>3. claims[x] # <<>> /\ Latest(x) = claims[x][n]
      BY <1>3, <1>4, <2>2 DEF Latest
    <3>4. QED
      BY <3>2, <3>3 DEF Claimed
  <2>3. QED
    BY <2>1, <2>2
<1> PICK event :
      event = [state |-> proc[p].to, owner |-> proc[p].owner,
               entry |-> IF proc[p].to = "CLAIMED" THEN proc[p].entry ELSE Latest(x).entry,
               scan |-> IF proc[p].to = "CLAIMED" THEN proc[p].scan ELSE Latest(x).scan]
  OBVIOUS
<1>7. /\ event \in Event
      /\ event.state = proc[p].to
      /\ event.entry \in 1 .. Len(entries) /\ entries[event.entry].symbol = x
      /\ event.scan = entries[event.entry].scan
      /\ Complete(event.scan) /\ x \in books[event.scan].rows
  <2>0. proc[p].owner \in Owner /\ Len(entries) <= MaxEntries /\ Len(entries) \in Nat
    BY <1>0 DEF Types, Proc
  <2>1. CASE proc[p].to = "CLAIMED"
    <3>1. event.entry = proc[p].entry /\ event.scan = proc[p].scan /\ event.state = proc[p].to
      BY <2>1
    <3>2. proc[p].entry \in 1 .. MaxEntries /\ proc[p].scan \in Scan
      BY <1>5, <2>0, <2>1, BookAssumption DEF Complete
    <3>3. event \in Event
      BY <2>0, <2>1, <3>2 DEF Event
    <3>4. QED
      BY <1>5, <2>1, <3>1, <3>3
  <2>2. CASE proc[p].to = "SUPERSEDED"
    <3>1. event.entry = Latest(x).entry /\ event.scan = Latest(x).scan /\ event.state = proc[p].to
      BY <2>2
    <3>2. n \in 1 .. Len(claims[x]) /\ Latest(x) = claims[x][n]
      <4>1. n % 2 = 1
        BY <1>5, <1>6, <2>2
      <4>2. n \in 1 .. n
        BY <4>1
      <4>3. QED
        BY <1>3, <4>2 DEF Latest
    <3>3. ClaimOK(x, n) /\ Latest(x) \in Event
      BY <1>0, <1>4, <3>2, ElementOfSeq DEF StreamsOK
    <3>4. event \in Event
      BY <2>0, <2>2, <3>3 DEF Event
    <3>5. QED
      BY <3>1, <3>2, <3>3, <3>4 DEF ClaimOK
  <2>3. QED
    BY <1>5, <2>1, <2>2
<1>8. claims' = [claims EXCEPT ![x] = Append(@, event)]
  BY <1>2 DEF WriteEvent
<1>9. /\ claims' \in [Symbols -> Seq(Event)]
      /\ \A y \in Symbols \ {x} : claims'[y] = claims[y]
      /\ claims'[x] = Append(claims[x], event)
  <2>1. Append(claims[x], event) \in Seq(Event)
    BY <1>4, <1>7
  <2>2. QED
    BY <1>0, <1>8, <2>1 DEF Types
<1>10. /\ Len(claims'[x]) = n + 1 /\ claims'[x][n + 1] = event
       /\ \A i \in 1 .. n : claims'[x][i] = claims[x][i]
  BY <1>3, <1>4, <1>7, <1>9, AppendProperties
<1>11. /\ proc' \in [Processes -> Proc]
       /\ \A q \in Processes \ {p} : proc'[q] = proc[q]
       /\ proc'[p].pc = "indexing"
       /\ proc'[p].scan = proc[p].scan /\ proc'[p].pinned = proc[p].pinned
       /\ proc'[p].symbol = proc[p].symbol /\ proc'[p].entry = proc[p].entry
       /\ proc'[p].to = proc[p].to
  <2>1. Goes(p, "indexing")
    BY DEF WriteEvent
  <2>2. QED
    BY <1>0, <2>1, GoesOn DEF Claiming, Locked
<1>12. Types'
  BY <1>0, <1>1, <1>9, <1>11 DEF Types
<1>13. Grows
  <2>1. Len(claims[x]) <= Len(claims'[x]) /\ Len(claims[x]) # Len(claims'[x])
    BY <1>3, <1>10
  <2>2. \A y \in Symbols : /\ Len(claims[y]) <= Len(claims'[y])
                           /\ Len(claims[y]) = Len(claims'[y]) => claims'[y] = claims[y]
    BY <1>0, <1>9, <1>12, <2>1, Lengths
  <2>3. QED
    BY <1>0, <1>1, <1>12, <2>2, Lengths DEF Grows
<1>14. Relies(p)'
  <2>1. Carries(p)'
    BY <1>0, <1>1, <1>5, <1>11 DEF Carries, Complete, At, Claiming, Locked
  <2>2. QED
    BY <1>11, <2>1 DEF Relies, ScanOf, Fresh, Due, At, Scanning
<1>15. StreamsOK'
  <2> SUFFICES ASSUME NEW y \in Symbols, NEW i \in 1 .. Len(claims'[y]) PROVE ClaimOK(y, i)'
    BY DEF StreamsOK
  <2>1. CASE y # x
    BY <1>0, <1>9, <1>12, <1>13, <2>1, ClaimStays DEF StreamsOK
  <2>2. CASE y = x /\ i \in 1 .. n
    BY <1>0, <1>3, <1>10, <1>12, <1>13, <2>2, ClaimStays DEF StreamsOK
  <2>3. CASE y = x /\ i = n + 1
    <3>1. event.state = IF (n + 1) % 2 = 1 THEN "CLAIMED" ELSE "SUPERSEDED"
      BY <1>5, <1>6, <1>7, Parity
    <3>2. QED
      BY <1>1, <1>7, <1>10, <2>3, <3>1 DEF ClaimOK, Complete
  <2>4. QED
    BY <1>10, <2>1, <2>2, <2>3
<1>16. IndexOK'
  BY <1>0, <1>1, <1>12, <1>13, Lengths DEF IndexOK, Grows, Types
<1>17. BooksAreStarted' /\ LatestOK'
  BY <1>0, <1>1 DEF BooksAreStarted, LatestOK
<1>18. ASSUME NEW q \in Processes \ {p}, At(q, "event")
       PROVE  claims'[proc[q].symbol] = claims[proc[q].symbol]
  <2>1. proc[q].symbol \in Symbols /\ proc[q].symbol # x
    BY <1>0, <1>2, <1>5, <1>18 DEF ScanInv, Carries, LocksExclude, At, Claiming, Locked
  <2>2. QED
    BY <1>9, <2>1
<1>19. proc'[p].pc \notin Scanning /\ proc[p].pc \in Locked
  BY <1>5, <1>11 DEF Scanning, Locked, At
<1>20. QED
  BY <1>1, <1>11, <1>12, <1>13, <1>14, <1>15, <1>16, <1>17, <1>18, <1>19, Moves

\* An entry is adopted or ends: its symbol and its scan stay.
LEMMA EntryStep ==
  ASSUME ScanInv, \E e \in DOMAIN entries : Adopt(e) \/ EndEntry(e)
  PROVE  ScanInv'
<1>0. /\ Types /\ BooksAreStarted /\ LatestOK /\ IndexOK /\ StreamsOK /\ ScansAreApart /\ LocksExclude
      /\ \A q \in Processes : Relies(q)
  BY DEF ScanInv, Relies
<1>1. UNCHANGED <<receipts, books, latest, claims, index, proc>>
  BY DEF Adopt, EndEntry, scanning, claiming
<1>2. entries \in Seq(Entry)
  BY <1>0 DEF Types
<1>3. PICK i \in 1 .. Len(entries), state \in {"claimed", "live", "ended"} :
        entries' = [entries EXCEPT ![i].state = state]
  <2>1. PICK e \in DOMAIN entries : Adopt(e) \/ EndEntry(e)
    OBVIOUS
  <2>2. e \in 1 .. Len(entries)
    BY <1>2
  <2>3. \/ entries' = [entries EXCEPT ![e].state = "live"]
        \/ entries' = [entries EXCEPT ![e].state = "ended"]
    BY <2>1, Zenon DEF Adopt, EndEntry
  <2>4. QED
    BY <2>2, <2>3
<1> PICK t : t = entries'
  OBVIOUS
<1>4. t = [entries EXCEPT ![i].state = state]
  BY <1>3
<1>5. /\ t \in Seq(Entry) /\ Len(t) = Len(entries)
      /\ \A j \in 1 .. Len(entries) : t[j].symbol = entries[j].symbol /\ t[j].scan = entries[j].scan
  BY <1>2, <1>3, <1>4, Restated
<1>6. Types'
  BY <1>0, <1>1, <1>4, <1>5 DEF Types
<1>7. Grows
  BY <1>0, <1>1, <1>4, <1>5, <1>6, Lengths DEF Grows
<1>8. \A q \in Processes : Relies(q)'
  BY <1>0, <1>1, <1>6, <1>7, Stands
<1>9. ScansAreApart' /\ LocksExclude'
  BY <1>0, <1>1 DEF ScansAreApart, LocksExclude
<1>10. BooksAreStarted' /\ LatestOK' /\ IndexOK' /\ StreamsOK'
  BY <1>0, <1>1, <1>6, <1>7, StreamsStay DEF BooksAreStarted, LatestOK, IndexOK
<1>11. QED
  BY <1>6, <1>8, <1>9, <1>10 DEF ScanInv, Relies

\* A session ends between two passes.
LEMMA SessionStep ==
  ASSUME ScanInv, NEW p \in Processes, NextSession(p)
  PROVE  ScanInv'
<1>0. Types /\ IndexOK
  BY DEF ScanInv
<1>1. UNCHANGED <<receipts, books, latest, claims, index, entries>>
  BY DEF NextSession, scanning, claiming
<1> PICK m : m = Idle(<<p, proc[p].owner[2] + 1>>)
  OBVIOUS
<1>2. m \in Proc /\ m.pc = "idle"
  <2>1. proc[p].owner \in Owner
    BY <1>0 DEF Types, Proc
  <2>2. proc[p].owner[2] \in 1 .. MaxSessions /\ proc[p].owner[2] < MaxSessions
    BY <2>1 DEF Owner, NextSession
  <2>3. proc[p].owner[2] + 1 \in 1 .. MaxSessions
    BY <2>2, BookAssumption
  <2>4. <<p, proc[p].owner[2] + 1>> \in Owner
    BY <2>3 DEF Owner
  <2>5. QED
    BY <2>4, IdleType
<1>3. proc' = [proc EXCEPT ![p] = m]
  BY DEF NextSession
<1>4. /\ proc' \in [Processes -> Proc] /\ proc'[p] = m
      /\ \A q \in Processes \ {p} : proc'[q] = proc[q]
  BY <1>0, <1>2, <1>3, Becomes
<1>5. Types' /\ IndexOK'
  BY <1>0, <1>1, <1>4 DEF Types, IndexOK
<1>6. QED
  BY <1>1, <1>2, <1>4, <1>5, Stops

\* Every step keeps the invariant.
LEMMA ScanNext == ScanInv /\ [Next]_vars => ScanInv'
<1> SUFFICES ASSUME ScanInv, [Next]_vars PROVE ScanInv'
  OBVIOUS
<1>1. CASE UNCHANGED vars
  BY <1>1 DEF vars, ScanInv, Types, ScanOf, Carries, Fresh, Due, ScansAreApart, LocksExclude,
     BooksAreStarted, LatestOK, IndexOK, StreamsOK, ClaimOK, Complete, Claimed, Latest, At
<1>2. ASSUME NEW p \in Processes,
             \/ StartScan(p) \/ ShardCompleted(p) \/ PublishBook(p) \/ PointLatest(p)
             \/ CompleteScan(p) \/ ScanFails(p)
             \/ Admit(p) \/ RecordEntry(p) \/ NothingToClaim(p) \/ ReadClaim(p) \/ LosesClaim(p)
             \/ LockClaim(p) \/ WriteEvent(p) \/ WriteIndex(p) \/ IndexFails(p)
             \/ LosesSupersession(p) \/ Serviced(p) \/ Die(p) \/ NextSession(p)
             \/ \E e \in DOMAIN entries : ReadSuperseded(p, e)
      PROVE  ScanInv'
  BY <1>2, StartStep, ScanStep, EndStep, AdmitStep, RecordStep, ReadStep, LockStep, EventStep,
     SessionStep
<1>3. ASSUME \E e \in DOMAIN entries : Adopt(e) \/ EndEntry(e) PROVE ScanInv'
  BY <1>3, EntryStep
<1>4. QED
  BY <1>1, <1>2, <1>3 DEF Next

-----------------------------------------------------------------------------
(* The theorems *)

\* Whatever order scans, passes, deaths and sessions come in, the invariant holds.
THEOREM ClaimInvariant == Spec => []ScanInv
<1>1. QED
  BY ScanInit, ScanNext, PTL DEF Spec

\* The state keeps its type (TypeOK).
THEOREM TypeCorrect == Spec => []TypeOK
<1>1. ScanInv => TypeOK
  <2> SUFFICES ASSUME ScanInv PROVE TypeOK
    OBVIOUS
  <2>1. Types /\ LatestOK /\ IndexOK
    BY DEF ScanInv
  <2>2. ASSUME NEW x \in Symbols
        PROVE  claims[x] \in Seq(Event) /\ index[x] \in 0 .. Len(claims[x])
    BY <2>1 DEF Types, IndexOK
  <2>3. ASSUME NEW e \in DOMAIN entries PROVE entries[e].state \in {"claimed", "live", "ended"}
    <3>1. entries[e] \in Entry
      BY <2>1, ElementOfSeq DEF Types
    <3>2. QED
      BY <3>1 DEF Entry
  <2>4. QED
    BY <2>1, <2>2, <2>3 DEF TypeOK, Types, Event, Receipts, Books, LatestOK
<1>2. QED
  BY <1>1, ClaimInvariant, PTL

\* A symbol is claimed by one entry at a time, each claim after the end of the last one,
\* and a claim names the complete book that its entry was nominated from, whatever was
\* published, superseded or left by the dead meanwhile (scanbook_store.ClaimLedger).
THEOREM ClaimsStayOwned == Spec => []ClaimsAreOwned
<1>1. ScanInv => ClaimsAreOwned
  <2> SUFFICES ASSUME ScanInv PROVE ClaimsAreOwned
    OBVIOUS
  <2>1. Types /\ StreamsOK
    BY DEF ScanInv
  <2>2. ASSUME NEW x \in Symbols, NEW i \in DOMAIN claims[x] PROVE ClaimOK(x, i)
    BY <2>1 DEF Types, StreamsOK
  <2>3. QED
    BY <2>2 DEF ClaimsAreOwned, ClaimsAlternate, ClaimNamesItsBook, ClaimOK, Complete
<1>2. QED
  BY <1>1, ClaimInvariant, PTL

=============================================================================
