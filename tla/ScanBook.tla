------------------------------ MODULE ScanBook ------------------------------
(***************************************************************************)
(* The immutable books of the universe scans, their receipts, and the      *)
(* claims that logical entries make on their rows (scan_receipts.py,       *)
(* scanbook_store.py, universe.run_catalog_universe_pass, and their users  *)
(* in runner.py and logical.py): a process scans or runs an entry pass; a  *)
(* worker and a command started by hand may do so at the same time.        *)
(***************************************************************************)
EXTENDS Integers, Sequences, FiniteSets

CONSTANTS
  Symbols,
  Processes,
  MaxScans, MaxEntries, MaxSessions, MaxFaults,   \* bounds
  None

ASSUME BookAssumption ==
  /\ {MaxScans, MaxEntries, MaxFaults} \subseteq Nat
  /\ MaxSessions \in Nat \ {0}
  /\ None \notin [rows : SUBSET Symbols, complete : BOOLEAN]

VARIABLES
  receipts,  \* the receipts of the scans, in the order of their starts
  books,     \* scan -> its published book
  latest,    \* the scan that the latest pointer names, 0: none
  claims,    \* symbol -> the stream of claim events
  index,     \* symbol -> the version the current pointer names, 0: no pointer
  entries,   \* the logical entries, in the order of their creation
  proc,      \* what each process is doing
  faults

vars == <<receipts, books, latest, claims, index, entries, proc, faults>>
scanning == <<receipts, books, latest>>
claiming == <<claims, index>>

Scan == 1 .. MaxScans
Owner == Processes \X (1 .. MaxSessions)
Idle(owner) == [pc |-> "idle", owner |-> owner, scan |-> 0, pinned |-> 0, symbol |-> None,
                entry |-> 0, to |-> None, version |-> 0]

At(p, pc) == proc[p].pc = pc
Goes(p, pc) == proc' = [proc EXCEPT ![p].pc = pc]
Rests(p) == proc' = [proc EXCEPT ![p] = Idle(@.owner)]

Init ==
  /\ receipts = <<>> /\ books = [s \in Scan |-> None] /\ latest = 0
  /\ claims = [x \in Symbols |-> <<>>] /\ index = [x \in Symbols |-> 0]
  /\ entries = <<>>
  /\ proc = [p \in Processes |-> Idle(<<p, 1>>)]
  /\ faults = 0

-----------------------------------------------------------------------------
(* A scan (run_catalog_universe_pass) *)

\* unmatched: the scans of a session without a terminal receipt.
Unmatched(owner) ==
  {s \in DOMAIN receipts : receipts[s].owner = owner /\ receipts[s].state \in {"started", "sharded"}}

StartScan(p) ==
  /\ At(p, "idle")
  /\ Len(receipts) < MaxScans
  /\ Unmatched(proc[p].owner) = {}
  /\ receipts' = Append(receipts, [owner |-> proc[p].owner, state |-> "started"])
  /\ proc' = [proc EXCEPT ![p].pc = "scanning", ![p].scan = Len(receipts) + 1]
  /\ UNCHANGED <<books, latest, claiming, entries, faults>>

Receipt(p, state) == receipts' = [receipts EXCEPT ![proc[p].scan].state = state]

\* shard_completed, then publish: the book under its scan id.  A probe, whose
\* refresh is disabled, and a scan that paced out leave incomplete books.
ShardCompleted(p) ==
  /\ At(p, "scanning")
  /\ Receipt(p, "sharded")
  /\ Goes(p, "sharded")
  /\ UNCHANGED <<books, latest, claiming, entries, faults>>

PublishBook(p) ==
  /\ At(p, "sharded")
  /\ \E rows \in SUBSET Symbols, complete \in BOOLEAN :
        books' = [books EXCEPT ![proc[p].scan] = [rows |-> rows, complete |-> complete]]
  /\ Goes(p, "published")
  /\ UNCHANGED <<receipts, latest, claiming, entries, faults>>

PointLatest(p) ==
  /\ At(p, "published")
  /\ latest' = proc[p].scan
  /\ Goes(p, "pointed")
  /\ UNCHANGED <<receipts, books, claiming, entries, faults>>

CompleteScan(p) ==
  /\ At(p, "pointed")
  /\ Receipt(p, "completed")
  /\ Rests(p)
  /\ UNCHANGED <<books, latest, claiming, entries, faults>>

\* An exception anywhere in it: SCAN_ABORTED, if that can be written.
ScanFails(p) ==
  /\ proc[p].pc \in {"scanning", "sharded", "published", "pointed"}
  /\ faults < MaxFaults /\ faults' = faults + 1
  /\ \/ Receipt(p, "aborted")
     \/ UNCHANGED receipts
  /\ Rests(p)
  /\ UNCHANGED <<books, latest, claiming, entries>>

-----------------------------------------------------------------------------
(* The claim ledger (ClaimLedger) *)

Latest(x) == claims[x][Len(claims[x])]
Claimed(x) == claims[x] # <<>> /\ Latest(x).state = "CLAIMED"

\* read: a pointer that is behind the stream is ClaimCorrupt.
Readable(x) == index[x] \in {0, Len(claims[x])}

Unlocked(x) ==
  \A p \in Processes : proc[p].pc \in {"event", "indexing"} => proc[p].symbol # x

\* Mutant of MayCommit: the state that was read before the lock decides.
MayCommitUnlocked(p) == Readable(proc[p].symbol)

\* claim and compare_and_set, inside the lock: the version is the one that was
\* read before it, a claim is for the unclaimed, a supersession for its owner.
MayCommit(p) ==
  LET x == proc[p].symbol
  IN /\ Readable(x)
     /\ Len(claims[x]) = proc[p].version
     /\ IF proc[p].to = "CLAIMED" THEN ~Claimed(x)
        ELSE claims[x] # <<>> /\ Latest(x).owner = proc[p].owner

LockClaim(p) ==
  /\ At(p, "cas")
  /\ Unlocked(proc[p].symbol)
  /\ MayCommit(p)
  /\ Goes(p, "event")
  /\ UNCHANGED <<scanning, claiming, entries, faults>>

\* _commit_unlocked: the immutable event, then the current pointer.
WriteEvent(p) ==
  /\ At(p, "event")
  /\ LET x == proc[p].symbol
         event == [state |-> proc[p].to, owner |-> proc[p].owner,
                   entry |-> IF proc[p].to = "CLAIMED" THEN proc[p].entry ELSE Latest(x).entry,
                   scan |-> IF proc[p].to = "CLAIMED" THEN proc[p].scan ELSE Latest(x).scan]
     IN claims' = [claims EXCEPT ![x] = Append(@, event)]
  /\ Goes(p, "indexing")
  /\ UNCHANGED <<scanning, index, entries, faults>>

WriteIndex(p) ==
  /\ At(p, "indexing")
  /\ index' = [index EXCEPT ![proc[p].symbol] = Len(claims[proc[p].symbol])]
  /\ entries' = [entries EXCEPT ![proc[p].entry].state = "live"]
  /\ IF proc[p].to = "CLAIMED" THEN Goes(p, "served") ELSE Rests(p)
  /\ UNCHANGED <<scanning, claims, faults>>

-----------------------------------------------------------------------------
(* An entry pass (_logical_entry_pass, claim) *)

Active(x) == \E e \in DOMAIN entries : entries[e].symbol = x /\ entries[e].state # "ended"

\* _load_scanbook, admit: complete and of this manifest; the pass pins the scan.
Admit(p) ==
  /\ At(p, "idle")
  /\ latest # 0
  /\ books[latest].complete
  /\ proc' = [proc EXCEPT ![p].pc = "admitted", ![p].pinned = latest]
  /\ UNCHANGED <<scanning, claiming, entries, faults>>

\* claim_one: a nomination of the admitted book becomes a recorded entry, one per
\* underlying; its ScanBook claim comes after.
RecordEntry(p) ==
  /\ At(p, "admitted")
  /\ Len(entries) < MaxEntries
  /\ \E x \in books[proc[p].pinned].rows :
       /\ ~Active(x)
       /\ entries' = Append(entries, [symbol |-> x, state |-> "claimed", scan |-> proc[p].pinned])
       /\ proc' = [proc EXCEPT ![p].pc = "recorded", ![p].symbol = x,
                               ![p].entry = Len(entries) + 1, ![p].to = "CLAIMED"]
  /\ UNCHANGED <<scanning, claiming, faults>>

NothingToClaim(p) ==
  /\ At(p, "admitted")
  /\ Rests(p)
  /\ UNCHANGED <<scanning, claiming, entries, faults>>

\* Mutant of Selects: the writer is not bound to the admitted snapshot.
SelectsLatest(p) == proc[p].symbol \in books[latest].rows

\* _candidate_snapshot: the latest book is still the admitted one and the row a
\* candidate.
Selects(p) == latest = proc[p].pinned /\ proc[p].symbol \in books[latest].rows

\* mark_claimed, before the lock.  A symbol that is claimed, by whatever entry, is
\* lost; so is one whose pointer is behind.
ReadClaim(p) ==
  /\ At(p, "recorded")
  /\ Selects(p)
  /\ Readable(proc[p].symbol) /\ ~Claimed(proc[p].symbol)
  /\ proc' = [proc EXCEPT ![p].pc = "cas", ![p].scan = latest,
                          ![p].version = Len(claims[proc[p].symbol])]
  /\ UNCHANGED <<scanning, claiming, entries, faults>>

\* The claim is lost or raises: the entry is released and abandoned.
LosesClaim(p) ==
  /\ proc[p].to = "CLAIMED"
  /\ \/ At(p, "recorded")
        /\ ~(Selects(p) /\ Readable(proc[p].symbol) /\ ~Claimed(proc[p].symbol))
     \/ At(p, "cas") /\ Unlocked(proc[p].symbol) /\ ~MayCommit(p)
  /\ entries' = [entries EXCEPT ![proc[p].entry].state = "ended"]
  /\ Rests(p)
  /\ UNCHANGED <<scanning, claiming, faults>>

\* The pointer cannot be written: claim() compensates, the event stays.
IndexFails(p) ==
  /\ At(p, "indexing")
  /\ faults < MaxFaults /\ faults' = faults + 1
  /\ entries' = IF proc[p].to = "CLAIMED"
                THEN [entries EXCEPT ![proc[p].entry].state = "ended"] ELSE entries
  /\ Rests(p)
  /\ UNCHANGED <<scanning, claiming>>

\* The entries of earlier passes are serviced before any book is admitted, with a
\* writer bound to no snapshot; then the entry just claimed, with the pass's writer.
Services(p, e) == At(p, "idle") \/ (At(p, "served") /\ e = proc[p].entry)

\* mark_superseded: a new revision of a live entry gives up the claim of its symbol,
\* which must be of the snapshot that the writer is bound to (expected_scan_id).
ReadSuperseded(p, e) ==
  /\ Services(p, e)
  /\ entries[e].state = "live"
  /\ LET x == entries[e].symbol
     IN /\ Readable(x) /\ Claimed(x)
        /\ proc[p].pinned \in {0, Latest(x).scan}
        /\ proc' = [proc EXCEPT ![p] = [@ EXCEPT !.pc = "cas", !.symbol = x, !.entry = e,
                                           !.to = "SUPERSEDED", !.version = Len(claims[x])]]
  /\ UNCHANGED <<scanning, claiming, entries, faults>>

LosesSupersession(p) ==
  /\ At(p, "cas") /\ proc[p].to = "SUPERSEDED"
  /\ Unlocked(proc[p].symbol) /\ ~MayCommit(p)
  /\ Rests(p)
  /\ UNCHANGED <<scanning, claiming, entries, faults>>

\* The pass ends after the entry that it has claimed was serviced.
Serviced(p) ==
  /\ At(p, "served")
  /\ Rests(p)
  /\ UNCHANGED <<scanning, claiming, entries, faults>>

\* A later pass services an entry whose claim() never returned.
Adopt(e) ==
  /\ entries[e].state = "claimed"
  /\ \A p \in Processes : proc[p].entry # e
  /\ entries' = [entries EXCEPT ![e].state = "live"]
  /\ UNCHANGED <<scanning, claiming, proc, faults>>

\* The entry lapses, is abandoned, or has become a position.
EndEntry(e) ==
  /\ entries[e].state = "live"
  /\ \A p \in Processes : proc[p].entry = e => At(p, "served")
  /\ entries' = [entries EXCEPT ![e].state = "ended"]
  /\ UNCHANGED <<scanning, claiming, proc, faults>>

-----------------------------------------------------------------------------
Die(p) ==
  /\ ~At(p, "idle")
  /\ faults < MaxFaults /\ faults' = faults + 1
  /\ Rests(p)
  /\ UNCHANGED <<scanning, claiming, entries>>

NextSession(p) ==
  /\ At(p, "idle") /\ proc[p].owner[2] < MaxSessions
  /\ proc' = [proc EXCEPT ![p] = Idle(<<p, @.owner[2] + 1>>)]
  /\ UNCHANGED <<scanning, claiming, entries, faults>>

Next ==
  \/ \E p \in Processes :
       \/ StartScan(p) \/ ShardCompleted(p) \/ PublishBook(p) \/ PointLatest(p)
       \/ CompleteScan(p) \/ ScanFails(p)
       \/ Admit(p) \/ RecordEntry(p) \/ NothingToClaim(p) \/ ReadClaim(p) \/ LosesClaim(p)
       \/ LockClaim(p) \/ WriteEvent(p) \/ WriteIndex(p) \/ IndexFails(p)
       \/ LosesSupersession(p) \/ Serviced(p) \/ Die(p) \/ NextSession(p)
       \/ \E e \in DOMAIN entries : ReadSuperseded(p, e)
  \/ \E e \in DOMAIN entries : Adopt(e) \/ EndEntry(e)

Spec == Init /\ [][Next]_vars

-----------------------------------------------------------------------------
(* Properties *)

\* The type of the state.
TypeOK ==
  /\ receipts \in Seq([owner : Owner,
                       state : {"started", "sharded", "completed", "aborted"}])
  /\ books \in [Scan -> {None} \cup [rows : SUBSET Symbols, complete : BOOLEAN]]
  /\ latest \in 0 .. MaxScans /\ (latest # 0 => books[latest] # None)
  /\ \A x \in Symbols :
       /\ claims[x] \in Seq([state : {"CLAIMED", "SUPERSEDED"}, owner : Owner,
                             entry : 1 .. MaxEntries, scan : Scan])
       /\ index[x] \in 0 .. Len(claims[x])
  /\ \A e \in DOMAIN entries : entries[e].state \in {"claimed", "live", "ended"}

\* Whoever races and dies, a symbol is claimed by one entry at a time: the next
\* claim follows the end of the last one, which only its owner can declare
\* (ClaimLedger: "a durable per-key CAS ledger").
ClaimsAlternate ==
  \A x \in Symbols : \A i \in DOMAIN claims[x] :
    claims[x][i].state = IF i % 2 = 1 THEN "CLAIMED" ELSE "SUPERSEDED"

\* A claim names the complete book that its entry was nominated from, whatever was
\* published meanwhile (for_snapshot).
ClaimNamesItsBook ==
  \A x \in Symbols : \A i \in DOMAIN claims[x] :
    LET claim == claims[x][i]
    IN /\ entries[claim.entry].symbol = x
       /\ claim.scan = entries[claim.entry].scan
       /\ books[claim.scan].complete /\ x \in books[claim.scan].rows

\* The claim of a row, from its book to the entry (scanbook_store.ClaimLedger).
ClaimsAreOwned == ClaimsAlternate /\ ClaimNamesItsBook

\* A crash between a claim's event and its pointer "cannot erase ownership", the
\* pointer "is only a rebuildable index": nobody reads a corrupt stream outside
\* the lock of its writer.
OwnershipIsReadable == \A x \in Symbols : Unlocked(x) => Readable(x)

\* A claim is refused "when another owner already claimed the row": one whose entry
\* has not ended.
OwnersAreAlive ==
  \A p \in Processes :
    At(p, "recorded") /\ Selects(p) /\ Claimed(proc[p].symbol)
    => entries[Latest(proc[p].symbol).entry].state # "ended"
=============================================================================
