----------------------------- MODULE FairProofs -----------------------------
(***************************************************************************)
(* Proofs about the components that MCFair puts side by side: the file     *)
(* lock, the catalog queue of the scanners and the handoff watcher.  They  *)
(* hold for every set of processes, symbols, scanners and handoffs and for *)
(* every bound.                                                            *)
(***************************************************************************)
EXTENDS MCFair, SequenceTheorems, FiniteSetTheorems, TLAPS

\* A process has restarted at most as often as it has died.
Lives ==
  \A p \in Process : life[p] + (IF pc[p] = "down" THEN 1 ELSE 0) <= crashes

LockTypes == TypeOK /\ Lives

LEMMA LockTypesInit == LockingAssumption /\ Init => LockTypes
  BY DEF LockingAssumption, Init, LockTypes, TypeOK, Lives, PCs

\* A file that this process creates, and one whose fields a process rewrites.
LEMMA NewFile ==
  ASSUME TypeOK, NEW p \in Process
  PROVE  [by |-> p, life |-> life[p], named |-> FALSE, old |-> FALSE] \in LockFile
  BY DEF TypeOK, LockFile

LEMMA Rewritten ==
  ASSUME NEW f \in LockFile
  PROVE  /\ [f EXCEPT !.old = TRUE] \in LockFile
         /\ [f EXCEPT !.named = TRUE] \in LockFile
         /\ [f EXCEPT !.named = FALSE, !.old = FALSE] \in LockFile
  BY Zenon DEF LockFile

LEMMA LockTypesStep ==
  ASSUME LockingAssumption, LockTypes, [Next]_vars
  PROVE  LockTypes'
<1>0. TypeOK /\ Lives /\ MaxCrashes \in Nat /\ MaxStuck \in Nat /\ crashes \in Nat
  BY DEF LockTypes, LockingAssumption, TypeOK
<1>1. CASE UNCHANGED vars
  BY <1>0, <1>1 DEF vars, LockTypes, TypeOK, Lives
<1>2. CASE Age
  <2>1. file' \in LockFile
    BY <1>0, <1>2, Rewritten DEF Age, TypeOK
  <2>2. QED
    BY <1>0, <1>2, <2>1 DEF Age, LockTypes, TypeOK, Lives, history
<1>3. ASSUME NEW p \in Process, Crash(p) PROVE LockTypes'
  <2>1. crashes' = crashes + 1 /\ crashes' \in 0 .. MaxCrashes
    BY <1>0, <1>3 DEF Crash
  <2>2. pc' = [pc EXCEPT ![p] = "down"] /\ pc[p] # "down"
    BY <1>3 DEF Crash, Goto
  <2>3. life' = life /\ file' = file /\ stuck' = stuck
    BY <1>3 DEF Crash
  <2>4. Lives'
    BY <1>0, <2>1, <2>2, <2>3 DEF Lives, TypeOK
  <2>5. overtaken' \in SUBSET Process /\ robbed' \in SUBSET Process
    BY <1>0, <1>3 DEF Crash, TypeOK
  <2>6. QED
    BY <1>0, <2>1, <2>2, <2>3, <2>4, <2>5 DEF LockTypes, TypeOK, PCs
<1>4. ASSUME NEW p \in Process, Restart(p) PROVE LockTypes'
  <2>1. pc' = [pc EXCEPT ![p] = "idle"] /\ pc[p] = "down"
        /\ life' = [life EXCEPT ![p] = @ + 1]
        /\ file' = file /\ stuck' = stuck /\ crashes' = crashes
        /\ overtaken' = overtaken /\ robbed' = robbed
    BY <1>4 DEF Restart, Goto, history
  <2>2. Lives'
    BY <1>0, <2>1 DEF Lives, TypeOK
  <2>3. life[p] + 1 <= MaxCrashes
    BY <1>0, <2>1 DEF Lives, TypeOK
  <2>4. QED
    BY <1>0, <2>1, <2>2, <2>3 DEF LockTypes, TypeOK, PCs
<1>5. ASSUME NEW p \in Process, Run(p) PROVE LockTypes'
  <2>1. life' = life /\ crashes' = crashes
    BY <1>5 DEF Run, Ask, TryAcquire, WritePayload, Stat, ReadOwner, Break, Wait,
       Release, ReleaseStuck, Truncate, Backdate
  <2>2. stuck' \in 0 .. MaxStuck
    BY <1>0, <1>5 DEF Run, Ask, TryAcquire, WritePayload, Stat, ReadOwner, Break, Wait,
       Release, ReleaseStuck, Truncate, Backdate, TypeOK
  <2>3. \E to \in PCs \ {"down"} : pc[p] # "down" /\ pc' = [pc EXCEPT ![p] = to]
    BY <1>5 DEF Run, Ask, TryAcquire, WritePayload, Stat, ReadOwner, Break, Wait,
       Release, ReleaseStuck, Truncate, Backdate, Goto, PCs
  <2>4. file' \in LockFile \cup {NoFile}
    BY <1>0, <1>5, NewFile, Rewritten DEF Run, Ask, TryAcquire, WritePayload, Stat, ReadOwner,
       Break, Wait, Release, ReleaseStuck, Truncate, Backdate, TypeOK, Owns
  <2>5. Lives'
    BY <1>0, <2>1, <2>3 DEF Lives, TypeOK
  <2>6. overtaken' \in SUBSET Process
    BY <1>0, <1>5 DEF Run, Ask, TryAcquire, WritePayload, Stat, ReadOwner, Break, Wait,
       Release, ReleaseStuck, Truncate, Backdate, history, TypeOK
  <2>7. robbed' \in SUBSET Process
    <3>1. Owners \subseteq Process /\ Robbed(p) \subseteq Process
      BY DEF Owners, Robbed
    <3>2. robbed' \subseteq robbed \cup Robbed(p)
      BY <1>5 DEF Run, Ask, TryAcquire, WritePayload, Stat, ReadOwner, Break, Wait,
         Release, ReleaseStuck, Truncate, Backdate, history
    <3>3. QED
      BY <1>0, <3>1, <3>2 DEF TypeOK
  <2>8. QED
    BY <1>0, <2>1, <2>2, <2>3, <2>4, <2>5, <2>6, <2>7 DEF LockTypes, TypeOK
<1>6. QED
  BY <1>1, <1>2, <1>3, <1>4, <1>5 DEF Next

\* Every value the model computes is one of its types, whoever dies and restarts.
THEOREM TypeCorrect == ASSUME LockingAssumption PROVE Spec => []TypeOK
<1>1. LockTypes => TypeOK
  BY DEF LockTypes
<1>2. Init => LockTypes
  BY LockTypesInit
<1>3. LockTypes /\ [Next]_vars => LockTypes'
  BY LockTypesStep
<1>4. QED
  BY <1>1, <1>2, <1>3, PTL DEF Spec

-----------------------------------------------------------------------------
(* Mutual exclusion of FileLock.                                           *)

\* A process in its critical section that nobody robbed has the file at the path, with
\* its payload once it is written, and young before that.  Whoever is about to break
\* what it looked at, and was not overtaken, meets nobody who has yet to write a payload,
\* and nobody on its machine at all.
HoldInv ==
  /\ \A p \in Process \ robbed :
       /\ pc[p] \in {"created", "held"} => Owns(p)
       /\ pc[p] = "held" => file.named
       /\ pc[p] = "created" => ~file.old
  /\ \A p \in Process \ robbed, q \in Process \ overtaken :
       /\ Breaking(q) => pc[p] # "created"
       /\ pc[q] = "break" /\ pc[p] = "held" => Host[p] # Host[q]

\* Nobody is created, held or breaking for the first time by a step that leaves the
\* file and the history alone and moves one process elsewhere.
LEMMA HoldQuietly ==
  ASSUME TypeOK, HoldInv, NEW p \in Process, NEW to,
         to \notin {"created", "held", "read", "break"}, pc' = [pc EXCEPT ![p] = to],
         file' = file, life' = life, robbed' = robbed \/ robbed' = robbed \ {p},
         overtaken' = overtaken \/ overtaken' = overtaken \ {p}
  PROVE  HoldInv'
<1>1. \A q \in Process : q # p => pc'[q] = pc[q]
  BY DEF TypeOK
<1>2. pc'[p] = to
  BY DEF TypeOK
<1>3. \A q \in Process : q # p => (q \in robbed' <=> q \in robbed)
                                   /\ (q \in overtaken' <=> q \in overtaken)
  OBVIOUS
<1>4. \A q \in Process : Owns(q)' <=> Owns(q)
  BY DEF Owns
<1>5. QED
  BY <1>1, <1>2, <1>3, <1>4 DEF HoldInv, Breaking

\* A file that nobody has yet: whoever was breaking is overtaken.
LEMMA HoldFresh ==
  ASSUME LockingAssumption, TypeOK, HoldInv, NEW p \in Process, NEW to \in {"created", "backdate"},
         ~Breaking(p), pc' = [pc EXCEPT ![p] = to], file = NoFile,
         file' = [by |-> p, life |-> life[p], named |-> FALSE, old |-> FALSE],
         life' = life, robbed \subseteq robbed', overtaken' = {q \in Process : Breaking(q)}
  PROVE  HoldInv'
<1>1. \A q \in Process : q # p => pc'[q] = pc[q]
  BY DEF TypeOK
<1>2. pc'[p] = to
  BY DEF TypeOK
<1>3. \A q \in Process \ robbed' : pc[q] \notin {"created", "held"}
  BY DEF HoldInv, Owns
<1>4. file' # NoFile
  BY NewFile DEF LockingAssumption
<1>5. Owns(p)' /\ ~file'.old
  BY <1>4 DEF Owns
<1>6. \A q \in Process \ overtaken' : ~Breaking(q)'
  BY <1>1, <1>2 DEF Breaking
<1>7. QED
  BY <1>1, <1>2, <1>3, <1>5, <1>6 DEF HoldInv, Breaking

\* An unlink, a truncation or a back-dating robs whoever owns the file.
LEMMA HoldRobbing ==
  ASSUME TypeOK, HoldInv, NEW p \in Process, NEW to \in {"idle", "try", "wait", "backdate"},
         pc' = [pc EXCEPT ![p] = to], life' = life,
         \A q \in Owners : q # p => q \in robbed',
         \A q \in robbed : q # p => q \in robbed',
         overtaken' = overtaken \/ overtaken' = overtaken \ {p}
  PROVE  HoldInv'
<1>1. \A q \in Process : q # p => pc'[q] = pc[q]
  BY DEF TypeOK
<1>2. pc'[p] = to
  BY DEF TypeOK
<1>3. \A q \in Process \ robbed' : pc'[q] \notin {"created", "held"}
  BY <1>1, <1>2 DEF HoldInv, Owners
<1>4. QED
  BY <1>3 DEF HoldInv

LEMMA HoldStep ==
  ASSUME LockingAssumption, ~Singleton, TypeOK, HoldInv, [Next]_vars
  PROVE  HoldInv'
<1>1. CASE UNCHANGED vars
  BY <1>1 DEF vars, HoldInv, Owns, Breaking
<1>2. CASE Age
  <2>1. /\ file # NoFile /\ file \in LockFile /\ file' = [file EXCEPT !.old = TRUE]
        /\ pc' = pc /\ life' = life /\ robbed' = robbed /\ overtaken' = overtaken
    BY <1>2 DEF Age, history, TypeOK
  <2>2. file'.by = file.by /\ file'.life = file.life /\ file'.named = file.named
    BY <2>1, Zenon DEF LockFile
  <2>3. file' # NoFile
    BY <2>1, Rewritten DEF LockingAssumption
  <2>4. \A q \in Process : Owns(q)' <=> Owns(q)
    BY <2>1, <2>2, <2>3 DEF Owns
  <2>5. \A q \in Process \ robbed : pc[q] # "created"
    <3> SUFFICES ASSUME NEW q \in Process \ robbed, pc[q] = "created" PROVE FALSE
      OBVIOUS
    <3>1. file.by = q /\ Alive(file)
      BY DEF HoldInv, Owns, Alive
    <3>2. QED
      BY <1>2, <3>1 DEF Age
  <2>6. QED
    BY <2>1, <2>2, <2>4, <2>5 DEF HoldInv, Breaking
<1>3. ASSUME NEW p \in Process, Crash(p) PROVE HoldInv'
  <2>1. /\ pc' = [pc EXCEPT ![p] = "down"] /\ file' = file /\ life' = life
        /\ robbed' = robbed \ {p} /\ overtaken' = overtaken \ {p}
    BY <1>3 DEF Crash, Goto
  <2>2. QED
    BY <2>1, HoldQuietly
<1>4. ASSUME NEW p \in Process, Restart(p) PROVE HoldInv'
  <2>1. /\ pc' = [pc EXCEPT ![p] = "idle"] /\ life' = [life EXCEPT ![p] = @ + 1]
        /\ file' = file /\ robbed' = robbed /\ overtaken' = overtaken
    BY <1>4 DEF Restart, Goto, history
  <2>2. \A q \in Process : q # p => pc'[q] = pc[q] /\ (Owns(q)' <=> Owns(q))
    BY <2>1 DEF TypeOK, Owns
  <2>3. pc'[p] = "idle"
    BY <2>1 DEF TypeOK
  <2>4. QED
    BY <2>1, <2>2, <2>3 DEF HoldInv, Breaking
<1>5. ASSUME NEW p \in Process, Run(p) PROVE HoldInv'
  <2>1. CASE Ask(p) \/ Wait(p)
    <3>1. PICK to \in {"idle", "try"} : pc' = [pc EXCEPT ![p] = to]
      BY <2>1 DEF Ask, Wait, Goto
    <3>2. file' = file /\ life' = life /\ robbed' = robbed /\ overtaken' = overtaken
      BY <2>1 DEF Ask, Wait, history
    <3>3. QED
      BY <3>1, <3>2, HoldQuietly
  <2>2. CASE TryAcquire(p)
    <3>1. CASE file = NoFile
      <4>1. /\ pc' = [pc EXCEPT ![p] = "created"] /\ ~Breaking(p)
            /\ file' = [by |-> p, life |-> life[p], named |-> FALSE, old |-> FALSE]
            /\ life' = life /\ robbed' = robbed /\ overtaken' = {q \in Process : Breaking(q)}
        BY <2>2, <3>1 DEF TryAcquire, Goto, Breaking
      <4>2. QED
        BY <3>1, <4>1, HoldFresh
    <3>2. CASE file # NoFile
      <4>1. PICK to \in {"idle", "stat"} : pc' = [pc EXCEPT ![p] = to]
        BY <2>2, <3>2 DEF TryAcquire, Goto
      <4>2. file' = file /\ life' = life /\ robbed' = robbed /\ overtaken' = overtaken
        BY <2>2, <3>2 DEF TryAcquire
      <4>3. QED
        BY <4>1, <4>2, HoldQuietly
    <3>3. QED
      BY <3>1, <3>2
  <2>3. CASE WritePayload(p)
    <3>1. /\ pc[p] = "created" /\ pc' = [pc EXCEPT ![p] = "held"] /\ life' = life
          /\ robbed' = robbed /\ overtaken' = overtaken
      BY <2>3 DEF WritePayload, Goto, history
    <3>2. pc'[p] = "held" /\ \A q \in Process : q # p => pc'[q] = pc[q]
      BY <3>1 DEF TypeOK
    <3>3. CASE ~Owns(p)
      <4>1. file' = file /\ p \in robbed
        BY <2>3, <3>1, <3>3 DEF WritePayload, HoldInv
      <4>2. \A q \in Process : Owns(q)' <=> Owns(q)
        BY <3>1, <4>1 DEF Owns
      <4>3. QED
        BY <3>1, <3>2, <4>1, <4>2 DEF HoldInv, Breaking
    <3>4. CASE Owns(p)
      <4>1. file \in LockFile /\ file' = [file EXCEPT !.named = TRUE]
        BY <2>3, <3>4 DEF WritePayload, TypeOK, Owns
      <4>2. file'.by = file.by /\ file'.life = file.life /\ file'.old = file.old /\ file'.named
        BY <4>1, Zenon DEF LockFile
      <4>3. file' # NoFile /\ file # NoFile
        BY <3>4, <4>1, Rewritten DEF LockingAssumption, Owns
      <4>4. \A q \in Process : Owns(q)' <=> Owns(q)
        BY <3>1, <4>2, <4>3 DEF Owns
      <4>5. QED
        BY <3>1, <3>2, <4>2, <4>4 DEF HoldInv, Breaking
    <3>5. QED
      BY <3>3, <3>4
  <2>4. CASE Stat(p)
    <3>1. file' = file /\ life' = life /\ robbed' = robbed /\ overtaken' = overtaken
      BY <2>4 DEF Stat, history
    <3>2. CASE file # NoFile /\ file.old
      <4>1. pc' = [pc EXCEPT ![p] = "read"]
        BY <2>4, <3>2 DEF Stat, Goto
      <4>2. pc'[p] = "read" /\ \A q \in Process : q # p => pc'[q] = pc[q]
        BY <4>1 DEF TypeOK
      <4>3. \A q \in Process : Owns(q)' <=> Owns(q)
        BY <3>1 DEF Owns
      <4>4. \A q \in Process \ robbed : pc[q] # "created"
        BY <3>2 DEF HoldInv
      <4>5. QED
        BY <3>1, <4>2, <4>3, <4>4 DEF HoldInv, Breaking
    <3>3. CASE ~(file # NoFile /\ file.old)
      <4>1. PICK to \in {"try", "wait"} : pc' = [pc EXCEPT ![p] = to]
        BY <2>4, <3>3 DEF Stat, Goto
      <4>2. QED
        BY <3>1, <4>1, HoldQuietly
    <3>4. QED
      BY <3>2, <3>3
  <2>5. CASE ReadOwner(p)
    <3>1. pc[p] = "read" /\ file' = file /\ life' = life /\ robbed' = robbed
      BY <2>5 DEF ReadOwner
    <3>2. CASE Stale(p, file)
      <4>1. pc' = [pc EXCEPT ![p] = "break"] /\ overtaken' = overtaken
        BY <2>5, <3>2 DEF ReadOwner, Goto
      <4>2. pc'[p] = "break" /\ \A q \in Process : q # p => pc'[q] = pc[q]
        BY <4>1 DEF TypeOK
      <4>3. \A q \in Process : Owns(q)' <=> Owns(q)
        BY <3>1 DEF Owns
      <4>4. \A q \in Process \ robbed : pc[q] = "held" => Host[q] # Host[p]
        <5> SUFFICES ASSUME NEW q \in Process \ robbed, pc[q] = "held", Host[q] = Host[p]
                     PROVE  FALSE
          OBVIOUS
        <5>1. file # NoFile /\ file.by = q /\ file.life = life[q] /\ file.named
          BY DEF HoldInv, Owns
        <5>2. Alive(file)
          BY <5>1 DEF Alive
        <5>3. QED
          BY <3>2, <5>1, <5>2 DEF Stale
      <4>5. QED
        BY <3>1, <4>1, <4>2, <4>3, <4>4 DEF HoldInv, Breaking
    <3>3. CASE ~Stale(p, file)
      <4>1. pc' = [pc EXCEPT ![p] = "wait"] /\ overtaken' = overtaken \ {p}
        BY <2>5, <3>3 DEF ReadOwner, Goto
      <4>2. QED
        BY <3>1, <4>1, HoldQuietly
    <3>4. QED
      BY <3>2, <3>3
  <2>6. CASE Break(p)
    <3>1. /\ pc[p] = "break" /\ life' = life
          /\ robbed' = robbed \cup Robbed(p) /\ overtaken' = overtaken \ {p}
      BY <2>6 DEF Break
    <3>2. PICK to \in {"try", "wait"} : pc' = [pc EXCEPT ![p] = to]
      BY <2>6 DEF Break, Goto
    <3>3. \A q \in Owners : q # p => q \in robbed'
      <4> SUFFICES ASSUME NEW q \in Owners, q # p, q \notin robbed' PROVE FALSE
        OBVIOUS
      <4>1. q \in Process \ robbed /\ Owns(q) /\ pc[q] \in {"created", "held"}
        BY <3>1 DEF Owners
      <4>2. p \notin overtaken /\ Host[q] = Host[p]
        BY <3>1, <4>1 DEF Robbed, Owns
      <4>3. QED
        BY <3>1, <4>1, <4>2 DEF HoldInv, Breaking
    <3>4. QED
      BY <3>1, <3>2, <3>3, HoldRobbing
  <2>7. CASE Release(p) \/ Backdate(p)
    <3>1. /\ pc[p] \in {"held", "backdate"} /\ pc' = [pc EXCEPT ![p] = "idle"] /\ life' = life
          /\ overtaken' = overtaken
      BY <2>7 DEF Release, Backdate, Goto
    <3>2. robbed' = (robbed \cup Robbed(p)) \ {p} \/ robbed' = robbed \cup Robbed(p)
      BY <2>7 DEF Release, Backdate
    <3>3. Robbed(p) = Owners \ {p}
      BY <3>1 DEF Robbed, Breaking
    <3>4. QED
      BY <3>1, <3>2, <3>3, HoldRobbing
  <2>8. CASE ReleaseStuck(p)
    <3>1. /\ pc' = [pc EXCEPT ![p] = "truncate"] /\ file' = file /\ life' = life
          /\ robbed' = robbed \ {p} /\ overtaken' = overtaken
      BY <2>8 DEF ReleaseStuck, Goto
    <3>2. QED
      BY <3>1, HoldQuietly
  <2>9. CASE Truncate(p)
    <3>1. /\ pc[p] = "truncate" /\ pc' = [pc EXCEPT ![p] = "backdate"] /\ life' = life
          /\ robbed' = robbed \cup Robbed(p)
      BY <2>9 DEF Truncate, Goto
    <3>2. Robbed(p) = Owners \ {p} /\ ~Breaking(p)
      BY <3>1 DEF Robbed, Breaking
    <3>3. CASE file = NoFile
      <4>1. /\ file' = [by |-> p, life |-> life[p], named |-> FALSE, old |-> FALSE]
            /\ overtaken' = {q \in Process : Breaking(q)}
        BY <2>9, <3>3 DEF Truncate
      <4>2. QED
        BY <3>1, <3>2, <3>3, <4>1, HoldFresh
    <3>4. CASE file # NoFile
      <4>1. overtaken' = overtaken
        BY <2>9, <3>4 DEF Truncate
      <4>2. QED
        BY <3>1, <3>2, <4>1, HoldRobbing
    <3>5. QED
      BY <3>3, <3>4
  <2>10. QED
    BY <1>5, <2>1, <2>2, <2>3, <2>4, <2>5, <2>6, <2>7, <2>8, <2>9 DEF Run
<1>6. QED
  BY <1>1, <1>2, <1>3, <1>4, <1>5 DEF Next

\* FileLock admits one holder at a time, but for one whose file another process took by
\* its name: for any number of processes on any machines, however long they hold,
\* however often they die, restart and fail to unlink (locking.FileLock).
THEOREM HoldersExclude ==
  ASSUME LockingAssumption, ~Singleton
  PROVE  Spec => []MutualExclusion
<1>1. Init => HoldInv
  BY DEF Init, HoldInv, Breaking
<1>2. TypeOK /\ HoldInv /\ [Next]_vars => HoldInv'
  BY HoldStep
<1>3. HoldInv => MutualExclusion
  <2> SUFFICES ASSUME HoldInv, NEW p \in Process, NEW q \in Process, Holds(p), Holds(q),
                      p \notin robbed, q \notin robbed
               PROVE  p = q
    BY DEF MutualExclusion
  <2>1. Owns(p) /\ Owns(q)
    BY DEF HoldInv, Holds
  <2>2. QED
    BY <2>1 DEF Owns
<1>4. QED
  BY <1>1, <1>2, <1>3, TypeCorrect, PTL DEF Spec


-----------------------------------------------------------------------------
(* The refresh queue (RefreshQueue).                                       *)

\* What a pass took for fresh still is, and a complete book is current.
QueueInv ==
  /\ facts \in [Symbols -> {"none", "old", "today"}]
  /\ DOMAIN pass = Scanners
  /\ \A w \in Scanners : pass[w] # None =>
       /\ pass[w].selected \subseteq Symbols
       /\ pass[w].fresh \subseteq {s \in Symbols : facts[s] = "today"}
  /\ Queue!CompleteIsCurrent

\* An instance counts as the library does.
LEMMA QueueCounts == \A S : Queue!Cardinality(S) = Cardinality(S)
  BY DEF Cardinality, Queue!Cardinality

LEMMA QueueIsFinite == Queue!QueueAssumption => IsFiniteSet(Symbols)
  BY DEF Queue!QueueAssumption, IsFiniteSet, Queue!IsFiniteSet

\* What a pass selects is in the catalog.
LEMMA SelectionIsListed == Queue!Selection \subseteq Symbols
  BY DEF Queue!Selection, Queue!Exploration, Queue!Exploitation, Queue!First, Queue!Due

\* A count of the book that is complete leaves no symbol out: as many are measured as
\* there are, and none of their rows is of the others.
LEMMA CompleteMeans ==
  ASSUME Queue!QueueAssumption, NEW measured \in SUBSET Symbols, NEW rows,
         Queue!Complete(Queue!Counts(rows, measured))
  PROVE  /\ measured = Symbols
         /\ \A s \in Symbols : rows[s] \notin {"deferred", "unavailable"}
<1> DEFINE Those(state) == {s \in Symbols : rows[s] = state}
<1>1. \A S \in SUBSET Symbols : IsFiniteSet(S) /\ Cardinality(S) \in Nat
  BY QueueIsFinite, FS_Subset, FS_CardinalityType
<1>2. /\ Cardinality(Those("deferred")) = 0 /\ Cardinality(Those("unavailable")) = 0
      /\ Cardinality(Symbols) = IF Cardinality(measured) > 0 THEN Cardinality(measured) ELSE 0
  <2>1. Cardinality(Those("deferred")) = 0 /\ Cardinality(Those("unavailable")) = 0
    BY QueueCounts DEF Queue!Complete, Queue!Counts
  <2>2. LET remaining == Cardinality(measured) - Cardinality(Those("deferred"))
                           - Cardinality(Those("unavailable"))
        IN Cardinality(Symbols) = IF remaining > 0 THEN remaining ELSE 0
    BY QueueCounts DEF Queue!Complete, Queue!Counts
  <2> HIDE DEF Those
  <2>3. QED
    BY <1>1, <2>1, <2>2
<1>3. Cardinality(Symbols) = Cardinality(measured)
  BY <1>1, <1>2
<1>4. measured = Symbols
  BY <1>3, QueueIsFinite, FS_Subset
<1>5. Those("deferred") = {} /\ Those("unavailable") = {}
  BY <1>1, <1>2, FS_EmptySet
<1>6. QED
  BY <1>4, <1>5

\* The end of a pass: its book is complete only if it was measured on facts of today.
LEMMA FinishKeepsCurrent ==
  ASSUME Queue!QueueAssumption, QueueInv, NEW w \in Scanners, Queue!FinishPass(w)
  PROVE  QueueInv'
<1>1. PICK quota \in Quotas, wait \in {1, Interval} :
        \E failing \in SUBSET (Queue!Admitted(w, quota) \ Hopeless) :
          LET admitted == Queue!Admitted(w, quota)
              measured == pass[w].fresh \cup (admitted \ (Hopeless \cup failing))
              considered == Queue!Considered(w, measured)
          IN /\ facts' = [s \in Symbols |-> IF s \in measured \ pass[w].fresh
                                            THEN "today" ELSE facts[s]]
             /\ \E probed \in [considered -> Queue!Outcomes] :
                  LET rows == Queue!Rows(w, admitted, measured, probed) IN
                  universe' = [rows |-> rows,
                               complete |-> Queue!Complete(Queue!Counts(rows, measured))]
  BY DEF Queue!FinishPass
<1> DEFINE admitted == Queue!Admitted(w, quota)
<1>2. PICK failing \in SUBSET (admitted \ Hopeless) :
        LET measured == pass[w].fresh \cup (admitted \ (Hopeless \cup failing))
            considered == Queue!Considered(w, measured)
        IN /\ facts' = [s \in Symbols |-> IF s \in measured \ pass[w].fresh
                                          THEN "today" ELSE facts[s]]
           /\ \E probed \in [considered -> Queue!Outcomes] :
                LET rows == Queue!Rows(w, admitted, measured, probed) IN
                universe' = [rows |-> rows,
                             complete |-> Queue!Complete(Queue!Counts(rows, measured))]
  BY <1>1
<1> DEFINE measured == pass[w].fresh \cup (admitted \ (Hopeless \cup failing))
           considered == Queue!Considered(w, measured)
<1>3. pass[w] # None /\ pass' = [pass EXCEPT ![w] = None]
  BY DEF Queue!FinishPass, Queue!Closes
<1>4. facts' = [s \in Symbols |-> IF s \in measured \ pass[w].fresh THEN "today" ELSE facts[s]]
  BY <1>2
<1>5. measured \in SUBSET Symbols
  <2>1. admitted \subseteq pass[w].selected
    BY DEF Queue!Admitted, Queue!First
  <2>2. QED
    BY <1>3, <2>1 DEF QueueInv
<1>6. PICK probed \in [considered -> Queue!Outcomes] :
        universe' = [rows |-> Queue!Rows(w, admitted, measured, probed),
                     complete |-> Queue!Complete(Queue!Counts(
                                    Queue!Rows(w, admitted, measured, probed), measured))]
  BY <1>2
<1> DEFINE rows == Queue!Rows(w, admitted, measured, probed)
<1>7. \A s \in Symbols :
        (facts[s] = "today" => facts'[s] = "today") /\ (s \in measured => facts'[s] = "today")
  BY <1>3, <1>4 DEF QueueInv
<1>8. facts' \in [Symbols -> {"none", "old", "today"}]
  BY <1>4 DEF QueueInv
<1>9. \A s \in measured : rows[s] \in Queue!Outcomes \cup {"unscanned", "ineligible"}
  BY <1>5 DEF Queue!Rows
<1>10. Queue!CompleteIsCurrent'
  <2> SUFFICES ASSUME universe'.complete
               PROVE  \A s \in Symbols :
                        /\ facts'[s] = "today"
                        /\ universe'.rows[s] \in {"unscanned", "ineligible", "candidate"}
    BY DEF Queue!CompleteIsCurrent
  <2>1. Queue!Complete(Queue!Counts(rows, measured)) /\ universe'.rows = rows
    BY <1>6
  <2>2. /\ measured = Symbols
        /\ \A s \in Symbols : rows[s] \notin {"deferred", "unavailable"}
    <3> HIDE DEF measured, rows
    <3> QED
      BY <1>5, <2>1, CompleteMeans
  <2>3. QED
    BY <1>7, <1>9, <2>1, <2>2 DEF Queue!Outcomes
<1>11. /\ DOMAIN pass' = Scanners
       /\ \A v \in Scanners : pass'[v] # None => v # w /\ pass'[v] = pass[v] /\ pass[v] # None
  BY <1>3 DEF QueueInv
<1>12. QED
  BY <1>7, <1>8, <1>10, <1>11 DEF QueueInv

LEMMA QueueStep ==
  ASSUME Queue!QueueAssumption, QueueInv, [Queue!Next]_Queue!vars
  PROVE  QueueInv'
<1>1. CASE UNCHANGED Queue!vars
  BY <1>1 DEF Queue!vars, QueueInv, Queue!CompleteIsCurrent
<1>2. ASSUME NEW w \in Scanners, Queue!Discover(w) \/ Queue!Probe(w)
      PROVE  QueueInv'
  <2>1. PICK selected \in SUBSET Symbols : Queue!BeginPass(w, selected)
    BY <1>2, SelectionIsListed DEF Queue!Discover, Queue!Probe
  <2>2. /\ pass' = [pass EXCEPT ![w] =
                      [selected |-> selected, deep |-> Queue!Phase2Key,
                       fresh |-> {s \in Symbols : facts[s] = "today"}]]
        /\ facts' = facts /\ universe' = universe
    BY <2>1, Zenon DEF Queue!BeginPass, Queue!Opens
  <2>3. /\ DOMAIN pass' = Scanners
        /\ pass'[w].selected \subseteq Symbols
        /\ pass'[w].fresh = {s \in Symbols : facts[s] = "today"}
        /\ \A v \in Scanners : v # w => pass'[v] = pass[v]
    BY <2>2 DEF QueueInv
  <2>4. QED
    BY <2>2, <2>3 DEF QueueInv, Queue!CompleteIsCurrent
<1>3. ASSUME NEW w \in Scanners, Queue!FinishPass(w) PROVE QueueInv'
  BY <1>3, FinishKeepsCurrent
<1>4. ASSUME NEW w \in Scanners, Queue!Die(w) PROVE QueueInv'
  <2>1. pass' = [pass EXCEPT ![w] = None] /\ facts' = facts /\ universe' = universe
    BY <1>4 DEF Queue!Die, Queue!Closes
  <2>2. QED
    BY <2>1 DEF QueueInv, Queue!CompleteIsCurrent
<1>5. CASE Queue!Tick
  <2>1. facts' = facts /\ pass' = pass /\ universe' = universe
    BY <1>5, Zenon DEF Queue!Tick
  <2>2. QED
    BY <2>1 DEF QueueInv, Queue!CompleteIsCurrent
<1>6. CASE Queue!NewSession
  <2>1. /\ \A w \in Scanners : pass[w] = None
        /\ facts' = [s \in Symbols |-> IF facts[s] = "none" THEN "none" ELSE "old"]
        /\ universe' = None /\ pass' = pass
    BY <1>6 DEF Queue!NewSession
  <2>2. QED
    BY <2>1 DEF QueueInv, Queue!CompleteIsCurrent
<1>7. QED
  BY <1>1, <1>2, <1>3, <1>4, <1>5, <1>6 DEF Queue!Next

\* A book that admits entries was measured in this session for every symbol of the
\* catalog, for every catalog, ranking, number of scanners, limit and quota
\* (universe._snapshot_from_book).
THEOREM CompleteStaysCurrent == MCSpec => []CompleteIsCurrent
<1>1. Queue!QueueAssumption
  BY FairAssumption
<1>2. MCInit => (part = "queue" => QueueInv)
  BY DEF MCInit, Queue!Init, QueueInv, Queue!CompleteIsCurrent
<1>3. (part = "queue" => QueueInv) /\ [MCNext]_everything => (part = "queue" => QueueInv)'
  <2>1. SUFFICES ASSUME part = "queue" => QueueInv, [MCNext]_everything, part' = "queue"
                 PROVE  QueueInv'
    OBVIOUS
  <2>2. part = "queue" /\ [Queue!Next]_Queue!vars
    BY <2>1 DEF MCNext, everything, refreshes, Queue!vars
  <2>3. QED
    BY <1>1, <2>1, <2>2, QueueStep
<1>4. (part = "queue" => QueueInv) => CompleteIsCurrent
  BY DEF CompleteIsCurrent, QueueInv
<1>5. QED
  BY <1>2, <1>3, <1>4, PTL DEF MCSpec

-----------------------------------------------------------------------------
(* The watcher (HandoffWatch).                                             *)

\* An instance counts, and lists, as the library does.
LEMMA WatchCounts ==
  /\ \A S : Watch!Cardinality(S) = Cardinality(S)
  /\ \A S : Watch!IsFiniteSet(S) <=> IsFiniteSet(S)
  BY DEF Cardinality, Watch!Cardinality, IsFiniteSet, Watch!IsFiniteSet

\* How many of the keys are before one.
Before(keys, h) == {k \in keys : k < h}
Place(keys, h) == Cardinality(Before(keys, h))

\* Of a finite set of numbers each has a place of its own, and every place is taken.
LEMMA PlacesAreTaken ==
  ASSUME NEW keys \in SUBSET Nat, IsFiniteSet(keys)
  PROVE  /\ Cardinality(keys) \in Nat
         /\ \A h \in keys : Place(keys, h) \in 0 .. Cardinality(keys) - 1
         /\ \A g, h \in keys : Place(keys, g) = Place(keys, h) => g = h
         /\ \A r \in 0 .. Cardinality(keys) - 1 : \E h \in keys : Place(keys, h) = r
<1> DEFINE n == Cardinality(keys)
<1>1. n \in Nat
  BY FS_CardinalityType
<1>2. \A h \in keys : IsFiniteSet(Before(keys, h)) /\ Place(keys, h) \in 0 .. n - 1
  <2>1. SUFFICES ASSUME NEW h \in keys
                 PROVE  IsFiniteSet(Before(keys, h)) /\ Place(keys, h) \in 0 .. n - 1
    OBVIOUS
  <2>2. h \notin Before(keys, h) /\ Before(keys, h) \in SUBSET keys
    BY DEF Before
  <2>3. /\ IsFiniteSet(Before(keys, h)) /\ Cardinality(Before(keys, h)) <= n
        /\ n = Cardinality(Before(keys, h)) => keys = Before(keys, h)
    BY <2>2, FS_Subset
  <2>4. Cardinality(Before(keys, h)) \in Nat
    BY <2>3, FS_CardinalityType
  <2>5. Cardinality(Before(keys, h)) # n
    BY <2>2, <2>3
  <2> HIDE DEF n
  <2>6. QED
    BY <1>1, <2>3, <2>4, <2>5 DEF Place
<1>3. \A g, h \in keys : g < h => Place(keys, g) < Place(keys, h)
  <2>1. SUFFICES ASSUME NEW g \in keys, NEW h \in keys, g < h
                 PROVE  Place(keys, g) < Place(keys, h)
    OBVIOUS
  <2>2. \A k \in keys : k < g => k < h
    BY <2>1
  <2>3. Before(keys, g) \in SUBSET Before(keys, h)
    BY <2>2 DEF Before
  <2>4. g \in Before(keys, h) /\ g \notin Before(keys, g)
    BY <2>1 DEF Before
  <2>5. /\ Cardinality(Before(keys, g)) <= Cardinality(Before(keys, h))
        /\ Cardinality(Before(keys, h)) # Cardinality(Before(keys, g))
    BY <1>2, <2>3, <2>4, FS_Subset
  <2>6. Place(keys, g) \in Nat /\ Place(keys, h) \in Nat
    BY <1>1, <1>2
  <2>7. QED
    BY <2>5, <2>6 DEF Place
<1> HIDE DEF n
<1>4. \A g, h \in keys : Place(keys, g) = Place(keys, h) => g = h
  <2>1. SUFFICES ASSUME NEW g \in keys, NEW h \in keys,
                        Place(keys, g) = Place(keys, h), g # h
                 PROVE  FALSE
    OBVIOUS
  <2>2. g < h \/ h < g
    BY <2>1
  <2>3. Place(keys, g) \in Int /\ Place(keys, h) \in Int
    BY <1>1, <1>2
  <2>4. QED
    BY <1>3, <2>1, <2>2, <2>3
<1> DEFINE place == [h \in keys |-> Place(keys, h)]
<1>5. place \in Injection(keys, 0 .. n - 1)
  BY <1>2, <1>4 DEF Injection, IsInjective
<1>6. IsFiniteSet(0 .. n - 1) /\ Cardinality(0 .. n - 1) = n
  BY <1>1, FS_Interval
<1>7. place \in Surjection(keys, 0 .. n - 1)
  <2> HIDE DEF place
  <2> QED
    BY <1>5, <1>6, FS_Injection DEF n
<1>8. \A r \in 0 .. n - 1 : \E h \in keys : place[h] = r
  <2> HIDE DEF place
  <2> QED
    BY <1>7 DEF Surjection
<1>9. QED
  BY <1>1, <1>2, <1>4, <1>8 DEF n

\* Sorting loses nothing.
LEMMA SortedIs ==
  ASSUME NEW keys \in SUBSET Nat, IsFiniteSet(keys)
  PROVE  Watch!Sorted(keys) \in Seq(keys) /\ Watch!ToSet(Watch!Sorted(keys)) = keys
<1> DEFINE n == Cardinality(keys)
           s == Watch!Sorted(keys)
<1>1. /\ n \in Nat
      /\ \A h \in keys : Place(keys, h) \in 0 .. n - 1
      /\ \A g, h \in keys : Place(keys, g) = Place(keys, h) => g = h
      /\ \A r \in 0 .. n - 1 : \E h \in keys : Place(keys, h) = r
  BY PlacesAreTaken
<1>2. s = [i \in 1 .. n |-> CHOOSE h \in keys : Place(keys, h) = i - 1]
  BY Zenon DEF Watch!Sorted, Place, Before, Cardinality, Watch!Cardinality
<1> HIDE DEF n, s
<1>3. \A i \in 1 .. n : s[i] \in keys /\ Place(keys, s[i]) = i - 1
  <2>1. SUFFICES ASSUME NEW i \in 1 .. n
                 PROVE  s[i] \in keys /\ Place(keys, s[i]) = i - 1
    OBVIOUS
  <2>2. i - 1 \in 0 .. n - 1
    BY <1>1
  <2>3. \E h \in keys : Place(keys, h) = i - 1
    BY <1>1, <2>2
  <2>4. s[i] = CHOOSE h \in keys : Place(keys, h) = i - 1
    BY <1>2
  <2>5. QED
    BY <2>3, <2>4, Zenon
<1>4. s \in [1 .. n -> keys]
  BY <1>2, <1>3
<1>5. s \in Seq(keys) /\ DOMAIN s = 1 .. n
  BY <1>1, <1>4
<1>6. ASSUME NEW h \in keys PROVE \E i \in 1 .. n : s[i] = h
  <2> DEFINE i == Place(keys, h) + 1
  <2>1. i \in 1 .. n /\ i - 1 = Place(keys, h)
    BY <1>1
  <2> HIDE DEF i
  <2>2. Place(keys, s[i]) = Place(keys, h) /\ s[i] \in keys
    BY <1>3, <2>1
  <2>3. s[i] = h
    BY <1>1, <2>2
  <2>4. QED
    BY <2>1, <2>3
<1>7. QED
  BY <1>3, <1>5, <1>6 DEF Watch!ToSet, s

\* The keys the seen-set file holds.
Kept == IF disk = None THEN {} ELSE Watch!ToSet(disk)

\* Whatever was announced is remembered, unless it was forgotten: in the file, and in
\* the memory of a watcher that runs.
Remembered ==
  \A h \in Handoffs : announced[h] > 0 =>
    /\ h \in forgotten \/ h \in Kept
    /\ step # "down" => h \in forgotten \/ h \in Watch!ToSet(seen)

\* What is about to be announced was not, unless it was forgotten.
News ==
  /\ step \in {"down", "poll", "primed"} => events = {}
  /\ \A h \in events : announced[h] = 0 \/ h \in forgotten
  /\ step = "load" =>
       /\ \A h \in found : announced[h] = 0 \/ h \in forgotten
       /\ events \cap found = {} /\ (events \cup found) \cap Watch!ToSet(seen) = {}

\* Before it is announced it is marked, and what is marked is written.
Marked ==
  /\ step = "flush" => events \subseteq Watch!ToSet(seen) /\ (dirty \/ events = {})
  /\ step = "emit" =>
       \A h \in events : h \in forgotten \/ (h \in Kept /\ h \in Watch!ToSet(seen))

WatchInv ==
  /\ disk = None \/ disk \in Seq(Handoffs)
  /\ seen \in Seq(Handoffs)
  /\ found \subseteq Handoffs /\ events \subseteq Handoffs
  /\ announced \in [Handoffs -> 0 .. 2]
  /\ dirty \in BOOLEAN
  /\ Remembered /\ News /\ Marked
  /\ Watch!RepeatsAreExplained

\* Adding keys to a seen-set adds just these.
LEMMA AddIs ==
  ASSUME Watch!WatchAssumption, NEW entries \in Seq(Handoffs), NEW keys \in SUBSET Handoffs
  PROVE  /\ Watch!Add(entries, keys) \in Seq(Handoffs)
         /\ Watch!ToSet(Watch!Add(entries, keys)) = Watch!ToSet(entries) \cup keys
<1> DEFINE new == keys \ Watch!ToSet(entries)
           s == Watch!Sorted(new)
<1>1. new \in SUBSET Nat /\ IsFiniteSet(new) /\ new \in SUBSET Handoffs
  <2>1. Handoffs \subseteq Nat /\ IsFiniteSet(Handoffs)
    BY WatchCounts DEF Watch!WatchAssumption
  <2>2. new \in SUBSET Handoffs
    OBVIOUS
  <2> HIDE DEF new
  <2>3. QED
    BY <2>1, <2>2, FS_Subset
<1>2. s \in Seq(new) /\ Watch!ToSet(s) = new
  <2> HIDE DEF new
  <2> QED
    BY <1>1, SortedIs
<1>3. new \cup Watch!ToSet(entries) = Watch!ToSet(entries) \cup keys
  OBVIOUS
<1> DEFINE whole == entries \o s
<1>4. Watch!Add(entries, keys) = whole
  BY DEF Watch!Add
<1> HIDE DEF new, s
<1>5. s \in Seq(Handoffs)
  <2>1. Len(s) \in Nat /\ s \in [1 .. Len(s) -> new]
    BY <1>2
  <2>2. s \in [1 .. Len(s) -> Handoffs]
    BY <1>1, <2>1
  <2>3. QED
    BY <2>1, <2>2
<1>6. /\ whole \in Seq(Handoffs) /\ Len(whole) = Len(entries) + Len(s)
      /\ \A i \in 1 .. Len(entries) : whole[i] = entries[i]
      /\ \A i \in 1 .. Len(s) : whole[Len(entries) + i] = s[i]
      /\ \A i \in 1 .. Len(whole) :
           whole[i] = IF i <= Len(entries) THEN entries[i] ELSE s[i - Len(entries)]
  BY <1>5
<1> HIDE DEF whole
<1>7. Watch!ToSet(whole) = Watch!ToSet(entries) \cup Watch!ToSet(s)
  <2>1. ASSUME NEW i \in 1 .. Len(whole)
        PROVE  whole[i] \in Watch!ToSet(entries) \cup Watch!ToSet(s)
    <3>1. CASE i <= Len(entries)
      BY <1>6, <3>1 DEF Watch!ToSet
    <3>2. CASE ~(i <= Len(entries))
      <4>1. i - Len(entries) \in 1 .. Len(s)
        BY <1>5, <1>6, <3>2
      <4>2. QED
        BY <1>5, <1>6, <3>2, <4>1 DEF Watch!ToSet
    <3>3. QED
      BY <3>1, <3>2
  <2>2. ASSUME NEW i \in 1 .. Len(entries) PROVE entries[i] \in Watch!ToSet(whole)
    <3>1. i \in 1 .. Len(whole) /\ whole[i] = entries[i]
      BY <1>5, <1>6
    <3>2. QED
      BY <1>6, <3>1 DEF Watch!ToSet
  <2>3. ASSUME NEW i \in 1 .. Len(s) PROVE s[i] \in Watch!ToSet(whole)
    <3>1. Len(entries) + i \in 1 .. Len(whole) /\ whole[Len(entries) + i] = s[i]
      BY <1>5, <1>6
    <3>2. QED
      BY <1>6, <3>1 DEF Watch!ToSet
  <2>4. DOMAIN whole = 1 .. Len(whole) /\ DOMAIN entries = 1 .. Len(entries)
        /\ DOMAIN s = 1 .. Len(s)
    BY <1>5, <1>6
  <2>5. QED
    BY <2>1, <2>2, <2>3, <2>4 DEF Watch!ToSet
<1>8. QED
  BY <1>2, <1>3, <1>4, <1>6, <1>7

\* A flush forgets what it does not keep, and says so.
LEMMA FlushKeeps ==
  ASSUME Watch!WatchAssumption, WatchInv, Watch!Flush
  PROVE  /\ dirty' = FALSE
         /\ disk' = None \/ disk' \in Seq(Handoffs)
         /\ seen' \in Seq(Handoffs)
         /\ forgotten \subseteq forgotten'
         /\ ~dirty => disk' = disk /\ seen' = seen
         /\ \A h \in Watch!ToSet(seen) : h \in forgotten' \/ h \in Watch!ToSet(seen')
         /\ dirty => \A h \in Watch!ToSet(seen) : h \in forgotten' \/ h \in Kept'
<1>1. CASE ~dirty
  BY <1>1 DEF Watch!Flush, WatchInv
<1>2. CASE dirty
  <2> DEFINE over == IF Len(seen) > Limit THEN Len(seen) - Limit ELSE 0
             dropped == {seen[i] : i \in 1 .. over}
  <2>1. /\ dirty' = FALSE /\ seen' = SubSeq(seen, over + 1, Len(seen))
        /\ \/ disk' = seen' /\ forgotten' = forgotten \cup dropped
           \/ disk' = disk /\ forgotten' = forgotten \cup dropped \cup Watch!ToSet(seen)
    BY <1>2 DEF Watch!Flush
  <2>2. /\ seen \in Seq(Handoffs) /\ Len(seen) \in Nat /\ over \in 0 .. Len(seen)
        /\ DOMAIN seen = 1 .. Len(seen)
    BY DEF WatchInv, Watch!WatchAssumption
  <2> HIDE DEF over
  <2>3. /\ seen' \in Seq(Handoffs) /\ Len(seen') = Len(seen) - over
        /\ DOMAIN seen' = 1 .. Len(seen')
        /\ \A i \in 1 .. Len(seen') : seen'[i] = seen[over + i]
    <3> DEFINE kept == SubSeq(seen, over + 1, Len(seen))
    <3>1. /\ kept \in Seq(Handoffs)
          /\ Len(kept) = IF over + 1 <= Len(seen) THEN Len(seen) - (over + 1) + 1 ELSE 0
          /\ \A i \in 1 .. Len(seen) - (over + 1) + 1 : kept[i] = seen[over + 1 + i - 1]
      <4>1. over + 1 \in Int /\ Len(seen) \in Int
            /\ \A i \in over + 1 .. Len(seen) : seen[i] \in Handoffs
        BY <2>2
      <4>2. QED
        BY <4>1, SubSeqProperties
    <3> HIDE DEF kept
    <3>2. seen' = kept
      BY <2>1 DEF kept
    <3>3. Len(kept) = Len(seen) - over
      <4>1. over \in Int /\ Len(seen) \in Int /\ over <= Len(seen)
        BY <2>2
      <4>2. Len(kept) = IF over + 1 <= Len(seen) THEN Len(seen) - (over + 1) + 1 ELSE 0
        BY <3>1
      <4>3. QED
        BY <4>1, <4>2
    <3>4. ASSUME NEW i \in 1 .. Len(seen) - over PROVE kept[i] = seen[over + i]
      <4>1. i \in 1 .. Len(seen) - (over + 1) + 1 /\ over + 1 + i - 1 = over + i
        BY <2>2
      <4>2. QED
        BY <3>1, <4>1
    <3>5. QED
      BY <3>1, <3>2, <3>3, <3>4
  <2>4. ASSUME NEW h \in Watch!ToSet(seen) PROVE h \in dropped \/ h \in Watch!ToSet(seen')
    <3>1. PICK i \in 1 .. Len(seen) : seen[i] = h
      BY <2>2 DEF Watch!ToSet
    <3>2. CASE i <= over
      BY <2>2, <3>1, <3>2
    <3>3. CASE ~(i <= over)
      <4>1. i - over \in 1 .. Len(seen') /\ over + (i - over) = i
        BY <2>2, <2>3, <3>3
      <4>2. QED
        BY <2>3, <3>1, <4>1 DEF Watch!ToSet
    <3>4. QED
      BY <3>2, <3>3
  <2>5. None \notin Seq(Handoffs)
    BY DEF Watch!WatchAssumption
  <2>6. disk' = None \/ disk' \in Seq(Handoffs)
    BY <2>1, <2>3 DEF WatchInv
  <2>7. ASSUME NEW h \in Watch!ToSet(seen) PROVE h \in forgotten' \/ h \in Kept'
    <3> HIDE DEF dropped
    <3>1. CASE disk' = seen'
      BY <2>1, <2>3, <2>4, <2>5, <3>1 DEF Kept
    <3>2. CASE disk' # seen'
      BY <2>1, <3>2
    <3>3. QED
      BY <3>1, <3>2
  <2> HIDE DEF dropped
  <2>8. QED
    BY <1>2, <2>1, <2>3, <2>4, <2>6, <2>7
<1>3. dirty \in BOOLEAN
  BY DEF WatchInv
<1>4. QED
  BY <1>1, <1>2, <1>3

\* A watcher that goes down keeps nothing in memory.
LEMMA DownKeeps ==
  ASSUME WatchInv, Watch!Down, disk' = disk, announced' = announced,
         forgotten' = forgotten
  PROVE  WatchInv'
<1>1. step' = "down" /\ seen' = <<>> /\ dirty' = FALSE /\ found' = {} /\ events' = {}
  BY DEF Watch!Down
<1>2. seen' \in Seq(Handoffs)
  BY <1>1
<1>3. Remembered'
  BY <1>1 DEF WatchInv, Remembered, Kept
<1>4. News' /\ Marked'
  BY <1>1 DEF News, Marked
<1>5. QED
  BY <1>1, <1>2, <1>3, <1>4 DEF WatchInv, Watch!RepeatsAreExplained

\* Every step of a watcher, and of the seats around it, keeps what it relies on.
LEMMA WatchStep ==
  ASSUME Watch!WatchAssumption, WatchInv, [Watch!Next]_Watch!vars
  PROVE  WatchInv'
<1>1. CASE /\ disk' = disk /\ step' = step /\ seen' = seen /\ dirty' = dirty
           /\ found' = found /\ events' = events /\ announced' = announced
           /\ forgotten' = forgotten
  BY <1>1 DEF WatchInv, Remembered, News, Marked, Kept, Watch!RepeatsAreExplained
<1>2. CASE Watch!Start
  <2>1. /\ step = "down" /\ step' = "poll" /\ seen' = IF disk = None THEN <<>> ELSE disk
        /\ disk' = disk /\ dirty' = dirty /\ found' = found /\ events' = events
        /\ announced' = announced /\ forgotten' = forgotten
    BY <1>2 DEF Watch!Start, Watch!history
  <2>2. seen' \in Seq(Handoffs)
    BY <2>1 DEF WatchInv
  <2>3. Watch!ToSet(seen') = Kept
    BY <2>1 DEF Kept, Watch!ToSet
  <2>4. Remembered'
    BY <2>1, <2>3 DEF WatchInv, Remembered, Kept
  <2>5. QED
    BY <2>1, <2>2, <2>4 DEF WatchInv, News, Marked, Watch!RepeatsAreExplained
<1>3. CASE Watch!Prime
  <2>1. /\ step = "poll" /\ step' = "primed" /\ seen' = Watch!Add(seen, Watch!Listed)
        /\ dirty' = TRUE /\ disk' = disk /\ found' = found /\ events' = events
        /\ announced' = announced /\ forgotten' = forgotten
    BY <1>3 DEF Watch!Prime
  <2>2. seen' \in Seq(Handoffs) /\ Watch!ToSet(seen) \subseteq Watch!ToSet(seen')
    BY <2>1, AddIs DEF WatchInv, Watch!Listed
  <2>3. Remembered'
    BY <2>1, <2>2 DEF WatchInv, Remembered, Kept
  <2>4. QED
    BY <2>1, <2>2, <2>3 DEF WatchInv, News, Marked, Watch!RepeatsAreExplained
<1>4. CASE Watch!PrimeFlush \/ Watch!PollFlush
  <2>1. /\ Watch!Flush /\ found' = found /\ events' = events /\ announced' = announced
        /\ \/ step = "primed" /\ step' = "poll"
           \/ step = "flush" /\ step' = "emit"
    BY <1>4 DEF Watch!PrimeFlush, Watch!PollFlush
  <2>2. /\ dirty' = FALSE
        /\ disk' = None \/ disk' \in Seq(Handoffs)
        /\ seen' \in Seq(Handoffs)
        /\ forgotten \subseteq forgotten'
        /\ ~dirty => disk' = disk /\ seen' = seen
        /\ \A h \in Watch!ToSet(seen) : h \in forgotten' \/ h \in Watch!ToSet(seen')
        /\ dirty => \A h \in Watch!ToSet(seen) : h \in forgotten' \/ h \in Kept'
    BY <2>1, FlushKeeps
  <2>3. Remembered'
    <3>1. SUFFICES ASSUME NEW h \in Handoffs, announced[h] > 0, h \notin forgotten'
                   PROVE  h \in Kept' /\ h \in Watch!ToSet(seen')
      BY <2>1 DEF Remembered
    <3>2. h \in Kept /\ h \in Watch!ToSet(seen)
      BY <2>1, <2>2, <3>1 DEF WatchInv, Remembered
    <3>3. CASE dirty
      BY <2>2, <3>1, <3>2, <3>3
    <3>4. CASE ~dirty
      BY <2>2, <3>2, <3>4 DEF Kept
    <3>5. QED
      BY <3>3, <3>4
  <2>4. News'
    BY <2>1, <2>2 DEF WatchInv, News
  <2>5. Marked'
    <3>1. SUFFICES ASSUME step = "flush", NEW h \in events, h \notin forgotten'
                   PROVE  h \in Kept' /\ h \in Watch!ToSet(seen')
      BY <2>1 DEF Marked
    <3>2. dirty /\ h \in Watch!ToSet(seen)
      BY <3>1 DEF WatchInv, Marked
    <3>3. QED
      BY <2>2, <3>1, <3>2
  <2>6. Watch!RepeatsAreExplained'
    BY <2>1, <2>2 DEF WatchInv, Watch!RepeatsAreExplained
  <2>7. QED
    BY <2>1, <2>2, <2>3, <2>4, <2>5, <2>6 DEF WatchInv
<1>5. CASE Watch!Scan
  <2>1. /\ step = "poll" /\ step' = "load" /\ found' = Watch!Listed \ Watch!ToSet(seen)
        /\ seen' = seen /\ dirty' = dirty /\ disk' = disk /\ events' = events
        /\ announced' = announced /\ forgotten' = forgotten
    BY <1>5 DEF Watch!Scan, Watch!history
  <2>2. found' \subseteq Handoffs
    BY <2>1 DEF Watch!Listed
  <2>3. \A h \in found' : announced[h] = 0 \/ h \in forgotten
    <3>1. SUFFICES ASSUME NEW h \in found', h \notin forgotten PROVE ~(announced[h] > 0)
      BY <2>2 DEF WatchInv
    <3>2. QED
      BY <2>1, <2>2, <3>1 DEF WatchInv, Remembered
  <2>4. News'
    BY <2>1, <2>3 DEF WatchInv, News
  <2>5. QED
    BY <2>1, <2>2, <2>4 DEF WatchInv, Remembered, Marked, Kept, Watch!RepeatsAreExplained
<1>6. ASSUME NEW h \in Handoffs, Watch!Load(h) PROVE WatchInv'
  <2>1. /\ step = "load" /\ step' = step /\ h \in found /\ found' = found \ {h}
        /\ disk' = disk /\ announced' = announced /\ forgotten' = forgotten
        /\ \/ seen' = seen /\ dirty' = dirty /\ events' = events
           \/ seen' = Watch!Add(seen, {h}) /\ dirty' = TRUE /\ events' = events
           \/ events' = events \cup {h} /\ seen' = seen /\ dirty' = dirty
    BY <1>6 DEF Watch!Load, Watch!history
  <2>2. /\ seen' \in Seq(Handoffs)
        /\ \/ Watch!ToSet(seen') = Watch!ToSet(seen)
           \/ Watch!ToSet(seen') = Watch!ToSet(seen) \cup {h} /\ events' = events
    BY <2>1, AddIs DEF WatchInv
  <2>3. Remembered'
    BY <2>1, <2>2 DEF WatchInv, Remembered, Kept
  <2>4. News'
    BY <2>1, <2>2 DEF WatchInv, News
  <2>5. QED
    BY <2>1, <2>2, <2>3, <2>4 DEF WatchInv, Marked, Watch!RepeatsAreExplained
<1>7. CASE Watch!Mark
  <2>1. /\ step = "load" /\ step' = "flush" /\ found = {} /\ found' = found
        /\ seen' = Watch!Add(seen, events)
        /\ dirty' = (dirty \/ events \ Watch!ToSet(seen) # {})
        /\ disk' = disk /\ events' = events /\ announced' = announced
        /\ forgotten' = forgotten
    BY <1>7 DEF Watch!Mark, Watch!history
  <2>2. /\ seen' \in Seq(Handoffs)
        /\ Watch!ToSet(seen') = Watch!ToSet(seen) \cup events
    BY <2>1, AddIs DEF WatchInv
  <2>3. Remembered' /\ News'
    BY <2>1, <2>2 DEF WatchInv, Remembered, News, Kept
  <2>4. Marked' /\ dirty' \in BOOLEAN
    <3>1. events \cap Watch!ToSet(seen) = {}
      BY <2>1 DEF WatchInv, News
    <3>2. dirty' \in BOOLEAN
      BY <2>1
    <3>3. dirty' \/ events = {}
      BY <2>1, <3>1
    <3>4. QED
      BY <2>1, <2>2, <3>2, <3>3 DEF Marked
  <2>5. QED
    BY <2>1, <2>2, <2>3, <2>4 DEF WatchInv, Watch!RepeatsAreExplained
<1>8. ASSUME NEW h \in Handoffs, Watch!Emit(h) PROVE WatchInv'
  <2>1. /\ step = "emit" /\ step' = step /\ h \in events /\ events' = events \ {h}
        /\ announced' = [announced EXCEPT ![h] = IF @ = 0 THEN 1 ELSE 2]
        /\ seen' = seen /\ dirty' = dirty /\ disk' = disk /\ found' = found
        /\ forgotten' = forgotten
    BY <1>8 DEF Watch!Emit
  <2>2. /\ announced' \in [Handoffs -> 0 .. 2]
        /\ announced'[h] = IF announced[h] = 0 THEN 1 ELSE 2
        /\ \A g \in Handoffs \ {h} : announced'[g] = announced[g]
    BY <2>1 DEF WatchInv
  <2>3. announced[h] = 0 \/ h \in forgotten
    BY <2>1 DEF WatchInv, News
  <2>4. h \in forgotten \/ (h \in Kept /\ h \in Watch!ToSet(seen))
    BY <2>1 DEF WatchInv, Marked
  <2>5. Remembered'
    <3>1. SUFFICES ASSUME NEW g \in Handoffs, announced'[g] > 0, g \notin forgotten
                   PROVE  g \in Kept /\ g \in Watch!ToSet(seen)
      BY <2>1 DEF Remembered, Kept
    <3>2. QED
      BY <2>1, <2>2, <2>4, <3>1 DEF WatchInv, Remembered
  <2>6. News'
    BY <2>1, <2>2 DEF WatchInv, News
  <2>7. Watch!RepeatsAreExplained'
    BY <2>1, <2>2, <2>3 DEF WatchInv, Watch!RepeatsAreExplained
  <2>8. Marked'
    BY <2>1 DEF WatchInv, Marked, Kept
  <2>9. QED
    BY <2>1, <2>2, <2>5, <2>6, <2>7, <2>8 DEF WatchInv
<1>9. CASE Watch!Sleep
  <2>1. /\ step = "emit" /\ step' = "poll" /\ events = {} /\ events' = events
        /\ seen' = seen /\ dirty' = dirty /\ disk' = disk /\ found' = found
        /\ announced' = announced /\ forgotten' = forgotten
    BY <1>9 DEF Watch!Sleep, Watch!history
  <2>2. QED
    BY <2>1 DEF WatchInv, Remembered, News, Marked, Kept, Watch!RepeatsAreExplained
<1>10. CASE Watch!Stop \/ Watch!Die
  <2>1. Watch!Down /\ disk' = disk /\ announced' = announced /\ forgotten' = forgotten
    BY <1>10 DEF Watch!Stop, Watch!Die, Watch!history
  <2>2. QED
    BY <2>1, DownKeeps
<1>11. CASE UNCHANGED Watch!vars \/ \E h \in Handoffs : \/ Watch!Arrive(h)
                                                        \/ Watch!Finish(h)
                                                        \/ Watch!Leave(h)
  <2>1. disk' = disk /\ Watch!volatile' = Watch!volatile /\ Watch!history' = Watch!history
    BY <1>11 DEF Watch!vars, Watch!Arrive, Watch!Finish, Watch!Leave
  <2>2. QED
    BY <1>1, <2>1 DEF Watch!volatile, Watch!history
<1>12. QED
  BY <1>2, <1>3, <1>4, <1>5, <1>6, <1>7, <1>8, <1>9, <1>10, <1>11
  DEF Watch!Next, Watch!Poll

\* A handoff is announced a second time only when the seen-set forgot it, for any
\* handoffs and seats, bound of the seen-set, number of deaths, of failed writes and of
\* returns to pending/ (watch.SeenSet, watch.Watcher.poll).
THEOREM RepeatsStayExplained == MCSpec => []RepeatsAreExplained
<1>1. Watch!WatchAssumption
  BY FairAssumption
<1>2. MCInit => (part = "watch" => WatchInv)
  <2>1. SUFFICES ASSUME Watch!Init PROVE WatchInv
    BY DEF MCInit
  <2>2. /\ disk = None /\ step = "down" /\ seen = <<>> /\ dirty = FALSE
        /\ found = {} /\ events = {} /\ announced = [h \in Handoffs |-> 0]
    BY <2>1 DEF Watch!Init
  <2>3. seen \in Seq(Handoffs)
    BY <2>2
  <2>4. QED
    <3>1. announced \in [Handoffs -> 0 .. 2] /\ \A h \in Handoffs : announced[h] = 0
      BY <2>2
    <3>2. Remembered /\ News /\ Marked /\ Watch!RepeatsAreExplained
      BY <2>2, <3>1 DEF Remembered, News, Marked, Watch!RepeatsAreExplained
    <3>3. QED
      BY <2>2, <2>3, <3>1, <3>2 DEF WatchInv
<1>3. (part = "watch" => WatchInv) /\ [MCNext]_everything => (part = "watch" => WatchInv)'
  <2>1. SUFFICES ASSUME part = "watch" => WatchInv, [MCNext]_everything, part' = "watch"
                 PROVE  WatchInv'
    OBVIOUS
  <2>2. part = "watch" /\ [Watch!Next]_Watch!vars
    BY <2>1 DEF MCNext, everything, watcher, Watch!vars, Watch!volatile, Watch!history
  <2>3. QED
    BY <1>1, <2>1, <2>2, WatchStep
<1>4. (part = "watch" => WatchInv) => RepeatsAreExplained
  BY DEF RepeatsAreExplained, WatchInv
<1>5. QED
  BY <1>2, <1>3, <1>4, PTL DEF MCSpec
=============================================================================
