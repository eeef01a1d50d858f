---------------------------- MODULE BudgetProofs ----------------------------
(***************************************************************************)
(* Proofs about TransmissionBudget for every set of workers, every set of  *)
(* attempts, every cap and every number of days.                           *)
(***************************************************************************)
EXTENDS MCBudget, FiniteSetTheorems, TLAPS

\* _sync_journal only moves sends from "committed" to the journal count: the sum
\* never shrinks, and the date, the limit and the reservations stay.
LEMMA SyncKeeps ==
  ASSUME NEW f \in State, NEW n \in Nat, ~SyncRefused(f, n)
  PROVE  /\ Sync(f, n) \in State
         /\ Sync(f, n).date = f.date
         /\ Sync(f, n).limit = f.limit
         /\ Sync(f, n).reservations = f.reservations
         /\ Sync(f, n).journal_count = n
         /\ Sync(f, n).journal_count + Sync(f, n).committed
              >= f.journal_count + f.committed
<1> DEFINE delta == n - f.journal_count
           kept  == IF f.committed > delta THEN f.committed - delta ELSE 0
<1>1. f.journal_count \in Nat /\ f.committed \in Nat
  BY DEF State
<1>2. delta \in Nat
  BY <1>1 DEF SyncRefused
<1>3. kept \in Nat /\ n + kept >= f.journal_count + f.committed
  BY <1>1, <1>2
<1>4. Sync(f, n) = [f EXCEPT !.journal_count = n, !.committed = kept]
  BY DEF Sync
<1> HIDE DEF kept
<1>5. QED
  BY <1>3, <1>4 DEF State

\* _load yields a well-typed state of the caller's session.
LEMMA LoadType ==
  ASSUME NEW f \in State, NEW d \in Day, NEW l \in 0 .. Cap, NEW n \in Nat
  PROVE  /\ Load(f, d, l, n) \in State
         /\ Load(f, d, l, n).date = d
  BY BudgetAssumption DEF Load, State, Day

\* The state a read computes, typed.
LEMMA SyncedType ==
  ASSUME TypeOK, NEW w \in Worker
  PROVE  /\ Loaded(w) \in State
         /\ Loaded(w).date = now[w]
         /\ ~SyncRefused(Loaded(w), journal[now[w]]) => Synced(w) \in State
<1>1. file \in State /\ now[w] \in Day /\ limit[w] \in 0 .. Cap
      /\ journal[now[w]] \in Nat
  BY DEF TypeOK
<1>2. Loaded(w) \in State /\ Loaded(w).date = now[w]
  BY <1>1, LoadType DEF Loaded
<1>3. QED
  BY <1>1, <1>2, SyncKeeps DEF Synced

\* Moving a set of reservations to "committed" keeps the state well typed.
LEMMA CommitType ==
  ASSUME NEW f \in State, NEW t
  PROVE  [f EXCEPT !.reservations = @ \ t, !.committed = @ + 1] \in State
<1> DEFINE r == f.reservations \ t
           c == f.committed + 1
<1>1. r \in SUBSET Attempt /\ c \in Nat
  BY DEF State
<1> HIDE DEF r, c
<1>2. [f EXCEPT !.reservations = r, !.committed = c] \in State
  BY <1>1 DEF State
<1>3. QED
  BY <1>2 DEF r, c

-----------------------------------------------------------------------------
(* Type correctness *)

\* The initial state is well typed.
LEMMA TypeInit == Init => TypeOK
<1> SUFFICES ASSUME Init PROVE TypeOK
  OBVIOUS
<1>1. NoFile \in State
  BY BudgetAssumption DEF NoFile, State
<1> QED
  BY <1>1, BudgetAssumption DEF Init, TypeOK, Day, Inside, Outside, Ops

\* Every step keeps the state well typed: one case per action.
LEMMA TypeStep == TypeOK /\ [Next]_vars => TypeOK'
<1> SUFFICES ASSUME TypeOK, [Next]_vars PROVE TypeOK'
  OBVIOUS
<1> USE DEF clock, identity, history
<1>0. NoFile \in State
  BY BudgetAssumption DEF NoFile, State
<1>1. CASE Tick
  BY <1>1, BudgetAssumption DEF Tick, TypeOK, Day
<1>2. ASSUME NEW w \in Worker, Step(w) PROVE TypeOK'
  <2>1. CASE Start(w)
    BY <2>1, BudgetAssumption DEF Start, TypeOK, Inside, Outside
  <2>2. CASE Crash(w)
    BY <2>2, <1>0, BudgetAssumption DEF Crash, TypeOK, Inside, Outside, Ops, Day
  <2>3. CASE ExitOrder(w)
    BY <2>3 DEF ExitOrder, TypeOK
  <2>4. ASSUME NEW a \in Attempt, ReserveCall(w, a) PROVE TypeOK'
    BY <2>4 DEF ReserveCall, Enter, TypeOK, Inside, Outside, Ops
  <2>5. CASE CommitCall(w)
    BY <2>5 DEF CommitCall, Enter, TypeOK, Inside, Outside, Ops
  <2>6. ASSUME NEW a \in Attempt, ReleaseCall(w, a) PROVE TypeOK'
    BY <2>6 DEF ReleaseCall, Enter, TypeOK, Inside, Outside, Ops
  <2>7. CASE SnapshotCall(w)
    BY <2>7 DEF SnapshotCall, Enter, TypeOK, Inside, Outside, Ops
  <2>8. ASSUME NEW f \in State, Compute(w, f) PROVE TypeOK'
    BY <2>8 DEF Compute, TypeOK, Inside, Outside
  <2>9. token[w] \subseteq Attempt
    BY DEF TypeOK
  <2>10. CASE ReadReserve(w)
    <3>1. [Synced(w) EXCEPT !.reservations = @ \cup token[w]] \in State
      BY <2>10, <2>9, SyncedType DEF ReadReserve, State
    <3> QED BY <3>1, <2>8, <2>10 DEF ReadReserve
  <2>11. CASE ReadCommit(w)
    <3>1. [Loaded(w) EXCEPT !.reservations = @ \ token[w],
                            !.committed = @ + 1] \in State
      BY SyncedType, CommitType
    <3> QED BY <3>1, <2>8, <2>11 DEF ReadCommit
  <2>12. CASE ReadRelease(w)
    <3>1. [Loaded(w) EXCEPT !.reservations = @ \ token[w]] \in State
      BY SyncedType DEF State
    <3> QED BY <3>1, <2>8, <2>12 DEF ReadRelease
  <2>13. CASE ReadSnapshot(w)
    BY <2>13, <2>8, SyncedType DEF ReadSnapshot
  <2>14. CASE Refuse(w)
    BY <2>14 DEF Refuse, TypeOK, Inside, Outside
  <2>15. CASE Write(w)
    BY <2>15, <2>9 DEF Write, TypeOK, Inside, Outside
  <2>16. CASE Unlock(w)
    <3>1. After(w) \in Outside
      BY DEF After, Outside
    <3> QED BY <3>1, <2>16, <1>0 DEF Unlock, TypeOK, Ops
  <2>17. CASE Send(w)
    BY <2>17, <2>9 DEF Send, TypeOK, Inside, Outside
  <2>20. CASE SendRaises(w)
    BY <2>20, <2>9 DEF SendRaises, TypeOK, Inside, Outside
  <2>18. CASE Abandon(w)
    BY <2>18 DEF Abandon, TypeOK, Inside, Outside
  <2>19. CASE Record(w)
    BY <2>19 DEF Record, TypeOK, Inside, Outside
  <2> QED
    BY <1>2, <2>1, <2>2, <2>3, <2>4, <2>5, <2>6, <2>7, <2>10, <2>11, <2>12,
       <2>13, <2>14, <2>15, <2>16, <2>17, <2>18, <2>19, <2>20 DEF Step
<1>3. CASE UNCHANGED vars
  BY <1>3 DEF vars, TypeOK
<1> QED
  BY <1>1, <1>2, <1>3 DEF Next

\* TypeOK holds in every reachable state.
THEOREM TypeCorrect == Spec => []TypeOK
<1>1. QED
  BY TypeInit, TypeStep, PTL DEF Spec

-----------------------------------------------------------------------------
(* Frame: what a step that leaves the file alone keeps *)

\* No day's count of order_placed records goes down.
JournalGrows == \A d \in Day : journal'[d] >= journal[d]

\* The counting facts survive any step that leaves the file and the grants alone
\* and only appends to the journal.
LEMMA FrameCounts ==
  ASSUME SlotInv, TypeOK', file' = file, granted' = granted, JournalGrows,
         minted \subseteq minted'
  PROVE  FiniteSlots' /\ Counted' /\ SessionCap'
<1>1. FiniteSlots' /\ SessionCap'
  BY DEF SlotInv, FiniteSlots, SessionCap
<1>2. \A d \in Day : Cardinality(granted[d]) \in Nat
  BY FS_CardinalityType DEF SlotInv, FiniteSlots
<1>3. \A d \in Day : journal[d] \in Nat /\ journal'[d] \in Nat
  BY DEF SlotInv, TypeOK
<1>4. file.journal_count \in Nat /\ file.date \in 0 .. MaxDay
  BY DEF SlotInv, TypeOK, State
<1>5. file.date # 0 => file.date \in Day
  BY <1>4, BudgetAssumption DEF Day
<1>6. Counted'
  BY <1>2, <1>3, <1>4, <1>5
     DEF SlotInv, Counted, JournalGrows, Drained, UsedSlots
<1>7. QED
  BY <1>1, <1>6

\* So does what another worker is about to write.
LEMMA FramePending ==
  ASSUME SlotInv, TypeOK', file' = file, granted' = granted, JournalGrows,
         NEW w \in Worker, PendingWrite(w),
         mem'[w] = mem[w], now'[w] = now[w], op'[w] = op[w],
         token'[w] = token[w]
  PROVE  PendingWrite(w)'
<1>1. mem[w].journal_count \in Nat /\ mem[w].date = now[w] /\ now[w] \in Day
  BY DEF SlotInv, TypeOK, State, PendingWrite
<1>2. journal[now[w]] \in Nat /\ journal'[now[w]] \in Nat
  BY <1>1 DEF SlotInv, TypeOK
<1>3. mem'[w].journal_count <= journal'[mem'[w].date]
  BY <1>1, <1>2 DEF PendingWrite, JournalGrows
<1>4. QED
  BY <1>3 DEF PendingWrite, Drained, UsedSlots

\* A step of w that leaves the file alone and does not bring w to its write:
\* only the lock, the tokens and the held grants remain to be checked.
LEMMA Quiet ==
  ASSUME SlotInv, TypeOK', file' = file, granted' = granted, JournalGrows,
         minted \subseteq minted', NEW w \in Worker, pc'[w] # "write",
         \A v \in Worker \ {w} :
           /\ pc'[v] = pc[v] /\ mem'[v] = mem[v] /\ now'[v] = now[v]
           /\ op'[v] = op[v] /\ token'[v] = token[v],
         LockOwned', TokensApart', GrantedIsHeld'
  PROVE  SlotInv'
<1>1. ASSUME NEW v \in Worker, pc'[v] = "write" PROVE PendingWrite(v)'
  <2>1. v \in Worker \ {w}
    BY <1>1
  <2>2. /\ mem'[v] = mem[v] /\ now'[v] = now[v] /\ op'[v] = op[v]
        /\ token'[v] = token[v] /\ PendingWrite(v)
    BY <1>1, <2>1 DEF SlotInv
  <2>3. QED
    BY <2>2, FramePending
<1>2. QED
  BY <1>1, FrameCounts DEF SlotInv

\* A step that leaves the journal alone does not shrink it.
LEMMA JournalSame == ASSUME SlotInv, journal' = journal PROVE JournalGrows
  BY DEF JournalGrows, SlotInv, TypeOK

\* One more order_placed record grows the journal of its day only.
LEMMA JournalAppend ==
  ASSUME SlotInv, journal' = [journal EXCEPT ![today] = @ + 1]
  PROVE  JournalGrows
<1>1. \A d \in Day : journal[d] \in Nat
  BY DEF SlotInv, TypeOK
<1>2. QED
  BY <1>1 DEF JournalGrows, SlotInv, TypeOK

-----------------------------------------------------------------------------
(* Steps outside the read-modify-write *)

\* The steps outside the lock (the calendar, starts, deaths, exits, sends, records)
\* keep SlotInv.
LEMMA OutsideStep ==
  ASSUME SlotInv, TypeOK', NEW w \in Worker,
         \/ Start(w) \/ Crash(w) \/ ExitOrder(w) \/ Send(w)
         \/ SendRaises(w) \/ Abandon(w) \/ Record(w)
  PROVE  SlotInv'
<1> USE DEF SlotInv, clock, identity, history
<1>0. /\ TypeOK /\ LockOwned /\ TokensApart /\ GrantedIsHeld
      /\ (pc[w] = "granted" => token[w] \subseteq file.reservations
                                /\ file.date = now[w])
  BY DEF GrantedIsHeld, Holds
<1>1. CASE Start(w)
  <2>1. LockOwned' /\ TokensApart' /\ GrantedIsHeld'
    BY <1>1, <1>0 DEF Start, TypeOK, LockOwned, TokensApart, GrantedIsHeld, Holds, Inside
  <2>2. /\ pc'[w] # "write" /\ file' = file /\ granted' = granted
        /\ minted \subseteq minted'
    BY <1>1 DEF Start, TypeOK
  <2>3. QED BY <1>1, <2>1, <2>2, JournalSame, Quiet DEF Start, TypeOK
<1>2. CASE Crash(w)
  <2>1. LockOwned' /\ TokensApart' /\ GrantedIsHeld'
    BY <1>2, <1>0 DEF Crash, TypeOK, LockOwned, TokensApart, GrantedIsHeld, Holds, Inside
  <2>2. /\ pc'[w] # "write" /\ file' = file /\ granted' = granted
        /\ minted \subseteq minted'
    BY <1>2 DEF Crash, TypeOK
  <2>3. QED BY <1>2, <2>1, <2>2, JournalSame, Quiet DEF Crash, TypeOK
<1>3. CASE ExitOrder(w)
  <2>1. LockOwned' /\ TokensApart' /\ GrantedIsHeld'
    BY <1>3, <1>0 DEF ExitOrder, TypeOK, LockOwned, TokensApart, GrantedIsHeld, Holds
  <2>2. /\ pc'[w] # "write" /\ file' = file /\ granted' = granted
        /\ minted \subseteq minted'
    BY <1>3 DEF ExitOrder, TypeOK
  <2>3. QED BY <1>3, <2>1, <2>2, JournalAppend, Quiet DEF ExitOrder, TypeOK
<1>4. CASE Send(w)
  <2>1. LockOwned' /\ TokensApart' /\ GrantedIsHeld'
    BY <1>4, <1>0 DEF Send, TypeOK, LockOwned, TokensApart, GrantedIsHeld, Holds, Inside
  <2>2. /\ pc'[w] # "write" /\ file' = file /\ granted' = granted
        /\ minted \subseteq minted'
    BY <1>4 DEF Send, TypeOK
  <2>3. QED BY <1>4, <2>1, <2>2, JournalSame, Quiet DEF Send, TypeOK
<1>8. CASE SendRaises(w)
  <2>1. LockOwned' /\ TokensApart' /\ GrantedIsHeld'
    BY <1>8, <1>0 DEF SendRaises, TypeOK, LockOwned, TokensApart, GrantedIsHeld, Holds, Inside
  <2>2. /\ pc'[w] # "write" /\ file' = file /\ granted' = granted
        /\ minted \subseteq minted'
    BY <1>8 DEF SendRaises, TypeOK
  <2>3. QED BY <1>8, <2>1, <2>2, JournalSame, Quiet DEF SendRaises, TypeOK
<1>5. CASE Abandon(w)
  <2>1. LockOwned' /\ TokensApart' /\ GrantedIsHeld'
    BY <1>5, <1>0 DEF Abandon, TypeOK, LockOwned, TokensApart, GrantedIsHeld, Holds,
                      Inside
  <2>2. /\ pc'[w] # "write" /\ file' = file /\ granted' = granted
        /\ minted \subseteq minted'
    BY <1>5 DEF Abandon, TypeOK
  <2>3. QED BY <1>5, <2>1, <2>2, JournalSame, Quiet DEF Abandon, TypeOK
<1>6. CASE Record(w)
  <2>1. LockOwned' /\ TokensApart' /\ GrantedIsHeld'
    BY <1>6, <1>0 DEF Record, TypeOK, LockOwned, TokensApart, GrantedIsHeld, Holds,
                      Inside
  <2>2. /\ pc'[w] # "write" /\ file' = file /\ granted' = granted
        /\ minted \subseteq minted'
    BY <1>6 DEF Record, TypeOK
  <2>3. QED BY <1>6, <2>1, <2>2, JournalAppend, Quiet DEF Record, TypeOK
<1>7. QED
  BY <1>1, <1>2, <1>3, <1>4, <1>5, <1>6, <1>8

\* Entering a call, being refused, and leaving one.
LEMMA LockStep ==
  ASSUME SlotInv, TypeOK', NEW w \in Worker,
         \/ \E a \in Attempt : ReserveCall(w, a) \/ ReleaseCall(w, a)
         \/ CommitCall(w) \/ SnapshotCall(w) \/ Refuse(w)
  PROVE  SlotInv'
<1> USE DEF SlotInv, clock, identity, history
<1>0. TypeOK /\ LockOwned /\ TokensApart /\ GrantedIsHeld
  OBVIOUS
<1>1. ASSUME NEW a \in Attempt, ReserveCall(w, a) PROVE SlotInv'
  <2>1. CASE lock # {} /\ UNCHANGED <<pc, token, op, lock, file, mem, journal,
                                     now, granted, ok>>
    <3>1. LockOwned' /\ TokensApart' /\ GrantedIsHeld'
      BY <1>1, <2>1, <1>0 DEF ReserveCall, LockOwned, TokensApart, GrantedIsHeld, Holds
    <3>2. \A v \in Worker : pc'[v] = "write" => PendingWrite(v)'
      BY <2>1, FramePending, JournalSame
    <3>3. minted \subseteq minted'
      BY <1>1 DEF ReserveCall
    <3>4. QED BY <2>1, <3>1, <3>2, <3>3, JournalSame, FrameCounts
  <2>2. CASE Enter(w, "reserve", {a})
    <3>1. LockOwned' /\ GrantedIsHeld'
      BY <1>1, <2>2, <1>0 DEF ReserveCall, Enter, TypeOK, LockOwned,
                              GrantedIsHeld, Holds, Inside
    <3>2. minted' = minted \cup {a} /\ a \notin minted
      BY <1>1 DEF ReserveCall
    <3>3. \A v \in Worker : token'[v] = IF v = w THEN {a} ELSE token[v]
      BY <2>2 DEF Enter, TypeOK
    <3>4. \A u, v \in Worker : u # v => token'[u] \cap token'[v] = {}
      BY <3>2, <3>3, <1>0 DEF TokensApart
    <3>5. \A v \in Worker :
            v # w => pc'[v] = pc[v] /\ op'[v] = op[v]
      BY <2>2 DEF Enter, TypeOK
    <3>6. TokensApart'
      BY <3>2, <3>3, <3>4, <3>5, <1>0 DEF TokensApart
    <3>7. /\ pc'[w] # "write" /\ file' = file /\ granted' = granted
          /\ minted \subseteq minted'
      BY <3>2, <2>2 DEF Enter, TypeOK
    <3>8. QED
      BY <2>2, <3>1, <3>6, <3>7, JournalSame, Quiet DEF Enter, TypeOK
  <2>3. QED
    BY <1>1, <2>1, <2>2 DEF ReserveCall
<1>2. ASSUME NEW a \in Attempt, ReleaseCall(w, a) PROVE SlotInv'
  <2>0. a \in minted
    <3>1. a \in file.reservations
      BY <1>2 DEF ReleaseCall
    <3>2. file.date # 0 /\ file.reservations \subseteq granted[file.date]
      BY <3>1 DEF Counted, Drained
    <3>3. file.date \in Day
      <4>1. file.date \in 0 .. MaxDay
        BY DEF TypeOK, State
      <4>2. QED BY <3>2, <4>1, BudgetAssumption DEF Day
    <3>4. QED
      BY <3>1, <3>2, <3>3 DEF FiniteSlots
  <2>1. LockOwned' /\ TokensApart' /\ GrantedIsHeld'
    BY <1>2, <1>0, <2>0 DEF ReleaseCall, Enter, TypeOK, LockOwned, TokensApart,
                      GrantedIsHeld, Holds, Inside
  <2>2. /\ pc'[w] # "write" /\ file' = file /\ granted' = granted
        /\ minted \subseteq minted'
    BY <1>2 DEF ReleaseCall, Enter, TypeOK
  <2>3. QED BY <1>2, <2>1, <2>2, JournalSame, Quiet DEF ReleaseCall, Enter, TypeOK
<1>3. CASE CommitCall(w)
  <2>1. LockOwned'
    <3>1. CASE Enter(w, "commit", token[w])
      <4>1. \A v \in Worker : pc[v] \notin Inside
        BY <3>1, <1>0 DEF Enter, LockOwned
      <4>2. QED
        BY <3>1, <4>1 DEF Enter, TypeOK, LockOwned
    <3>2. CASE pc' = [pc EXCEPT ![w] = "record"] /\ lock' = lock
      BY <3>2, <1>0 DEF TypeOK, LockOwned, Inside
    <3>3. QED
      BY <1>3, <3>1, <3>2 DEF CommitCall
  <2>2. token' = token /\ minted' = minted
    BY <1>3, <1>0 DEF CommitCall, Enter, TypeOK
  <2>3. \A v \in Worker : v # w => pc'[v] = pc[v] /\ op'[v] = op[v]
    BY <1>3, <1>0 DEF CommitCall, Enter, TypeOK
  <2>4. TokensApart'
    BY <1>3, <2>2, <2>3, <1>0 DEF CommitCall, TokensApart, Inside
  <2>5. GrantedIsHeld'
    BY <1>3, <1>0 DEF CommitCall, Enter, TypeOK, GrantedIsHeld, Holds
  <2>6. /\ pc'[w] # "write" /\ file' = file /\ granted' = granted
        /\ minted \subseteq minted'
    BY <1>3 DEF CommitCall, Enter, TypeOK
  <2>7. QED
    BY <1>3, <2>1, <2>4, <2>5, <2>6, JournalSame, Quiet DEF CommitCall, Enter,
       TypeOK
<1>4. CASE SnapshotCall(w)
  <2>1. LockOwned' /\ TokensApart' /\ GrantedIsHeld'
    BY <1>4, <1>0 DEF SnapshotCall, Enter, TypeOK, LockOwned, TokensApart,
                      GrantedIsHeld, Holds, Inside
  <2>2. /\ pc'[w] # "write" /\ file' = file /\ granted' = granted
        /\ minted \subseteq minted'
    BY <1>4 DEF SnapshotCall, Enter, TypeOK
  <2>3. QED BY <1>4, <2>1, <2>2, JournalSame, Quiet DEF SnapshotCall, Enter, TypeOK
<1>5. CASE Refuse(w)
  <2>1. LockOwned' /\ TokensApart' /\ GrantedIsHeld'
    BY <1>5, <1>0 DEF Refuse, TypeOK, LockOwned, TokensApart, GrantedIsHeld, Holds,
                      Inside
  <2>2. /\ pc'[w] # "write" /\ file' = file /\ granted' = granted
        /\ minted \subseteq minted'
    BY <1>5 DEF Refuse, TypeOK
  <2>3. QED BY <1>5, <2>1, <2>2, JournalSame, Quiet DEF Refuse, TypeOK
<1>6. QED
  BY <1>1, <1>2, <1>3, <1>4, <1>5

\* Leaving the lock keeps SlotInv: a successful reserve() hands its token on, every
\* other call drops or keeps it as before.
LEMMA UnlockStep ==
  ASSUME SlotInv, TypeOK', NEW w \in Worker, Unlock(w)
  PROVE  SlotInv'
<1> USE DEF clock, identity, history
<1>0. TypeOK /\ LockOwned /\ TokensApart /\ GrantedIsHeld
  BY DEF SlotInv
<1>1. /\ pc'[w] = After(w) /\ After(w) \in {"granted", "record", "idle"}
      /\ token'[w] = IF After(w) = "idle" THEN {} ELSE token[w]
      /\ op'[w] = "none"
  BY <1>0 DEF Unlock, TypeOK, After
<1>2. /\ \A v \in Worker \ {w} :
           /\ pc'[v] = pc[v] /\ mem'[v] = mem[v] /\ now'[v] = now[v]
           /\ op'[v] = op[v] /\ token'[v] = token[v] /\ ok'[v] = ok[v]
      /\ file' = file /\ granted' = granted /\ minted' = minted
      /\ journal' = journal /\ now' = now /\ lock' = {}
  BY <1>0 DEF Unlock, TypeOK
<1>3. pc[w] = "unlock"
  BY DEF Unlock
<1>4. LockOwned'
  <2>1. lock = {w}
    BY <1>0, <1>3 DEF LockOwned, Inside
  <2>2. \A v \in Worker \ {w} : pc[v] \notin Inside
    BY <1>0, <2>1 DEF LockOwned
  <2>3. QED
    BY <1>1, <1>2, <2>2 DEF LockOwned, Inside
<1>5. TokensApart'
  <2>1. \A v \in Worker : token'[v] \subseteq token[v]
    BY <1>1, <1>2
  <2>2. pc'[w] \in {"granted", "sent"} => \E a \in Attempt : token'[w] = {a}
    <3>1. After(w) = "granted" => op[w] = "reserve"
      BY DEF After
    <3>2. QED
      BY <1>0, <1>1, <1>3, <3>1 DEF TokensApart, Inside
  <2>3. QED
    BY <1>0, <1>1, <1>2, <2>1, <2>2 DEF TokensApart, Inside
<1>6. GrantedIsHeld'
  <2>1. After(w) = "granted" => Holds(w)
    BY <1>3 DEF After, Holds
  <2>2. Holds(w)' => Holds(w) /\ token'[w] = token[w]
    BY <1>1, <2>1 DEF Holds
  <2>3. \A v \in Worker \ {w} : Holds(v)' => Holds(v)
    BY <1>2 DEF Holds
  <2>4. QED
    BY <1>0, <1>2, <2>2, <2>3 DEF GrantedIsHeld
<1>7. JournalGrows
  BY <1>2, JournalSame
<1>8. QED
  BY <1>1, <1>2, <1>4, <1>5, <1>6, <1>7, Quiet

-----------------------------------------------------------------------------
(* Inside the lock: what a read computes *)

\* A state that is drained counts nothing but the journal.
LEMMA UsedDrained ==
  ASSUME NEW f \in State, Drained(f)
  PROVE  UsedSlots(f) = f.journal_count
<1>1. Cardinality(f.reservations) = 0
  BY FS_EmptySet DEF Drained
<1>2. QED
  BY <1>1 DEF UsedSlots, Drained, State

\* What _load returns counts every attempt granted in the caller's session: the
\* file itself when it is of this session, the journal when it starts afresh.
LEMMA LoadedCounts ==
  ASSUME SlotInv, NEW w \in Worker, ~LoadRefused(file, now[w], limit[w])
  PROVE  /\ file.date = now[w] => Loaded(w) = file
         /\ UsedSlots(Loaded(w)) \in Nat
         /\ Loaded(w) \in State /\ Loaded(w).date = now[w]
         /\ file.date = now[w] \/ Drained(file)
         /\ Loaded(w).reservations = IF file.date = now[w]
                                     THEN file.reservations ELSE {}
         /\ IsFiniteSet(Loaded(w).reservations)
         /\ Loaded(w).journal_count <= journal[now[w]]
         /\ Cardinality(granted[now[w]]) <= UsedSlots(Loaded(w))
<1>1. /\ TypeOK /\ FiniteSlots /\ Counted
      /\ now[w] \in Day /\ limit[w] \in 0 .. Cap /\ journal[now[w]] \in Nat
  BY DEF SlotInv, TypeOK
<1>2. Loaded(w) \in State /\ Loaded(w).date = now[w]
  BY <1>1, SyncedType
<1>3. file.date = now[w] \/ Drained(file)
  BY DEF LoadRefused
<1>4. CASE file.date = now[w]
  <2>1. Loaded(w) = file
    BY <1>4 DEF Loaded, Load
  <2>2. now[w] # 0
    BY <1>1 DEF Day
  <2>3. UsedSlots(file) \in Nat
    BY <1>1, <1>2, <2>1, FS_CardinalityType DEF FiniteSlots, UsedSlots, State
  <2>4. QED
    BY <1>1, <1>2, <1>4, <2>1, <2>2, <2>3 DEF Counted, FiniteSlots
<1>5. CASE file.date # now[w]
  <2>1. /\ Loaded(w).reservations = {} /\ Loaded(w).committed = 0
        /\ Loaded(w).journal_count = journal[now[w]]
    BY <1>5 DEF Loaded, Load
  <2>2. UsedSlots(Loaded(w)) = journal[now[w]]
    BY <1>2, <2>1, UsedDrained DEF Drained
  <2>3. QED
    BY <1>1, <1>2, <1>3, <1>5, <2>1, <2>2, FS_EmptySet DEF Counted
<1>6. QED
  BY <1>4, <1>5

\* So does what _sync_journal makes of it.
LEMMA SyncedCounts ==
  ASSUME SlotInv, NEW w \in Worker, ~LoadRefused(file, now[w], limit[w]),
         ~SyncRefused(Loaded(w), journal[now[w]])
  PROVE  /\ Synced(w) \in State /\ Synced(w).date = now[w]
         /\ Synced(w).reservations = Loaded(w).reservations
         /\ Synced(w).journal_count = journal[now[w]]
         /\ Cardinality(granted[now[w]]) <= UsedSlots(Synced(w))
         /\ UsedSlots(Synced(w)) >= UsedSlots(Loaded(w))
<1>1. journal[now[w]] \in Nat /\ now[w] \in Day /\ granted[now[w]] \subseteq Attempt
  BY DEF SlotInv, TypeOK
<1>2. /\ Synced(w) \in State /\ Synced(w).date = now[w]
      /\ Synced(w).reservations = Loaded(w).reservations
      /\ Synced(w).journal_count = journal[now[w]]
      /\ Synced(w).journal_count + Synced(w).committed
           >= Loaded(w).journal_count + Loaded(w).committed
  BY <1>1, LoadedCounts, SyncKeeps DEF Synced
<1>3. /\ Cardinality(Loaded(w).reservations) \in Nat
      /\ Cardinality(granted[now[w]]) \in Nat
  BY <1>1, LoadedCounts, FS_CardinalityType DEF SlotInv, FiniteSlots
<1>4. /\ Loaded(w).journal_count \in Nat /\ Loaded(w).committed \in Nat
      /\ Synced(w).journal_count \in Nat /\ Synced(w).committed \in Nat
  BY <1>2, LoadedCounts DEF State
<1>5. UsedSlots(Synced(w)) >= UsedSlots(Loaded(w))
  BY <1>2, <1>3, <1>4 DEF UsedSlots
<1>6. UsedSlots(Synced(w)) \in Nat /\ UsedSlots(Loaded(w)) \in Nat
  BY <1>2, <1>3, <1>4 DEF UsedSlots
<1>7. QED
  BY <1>2, <1>3, <1>5, <1>6, LoadedCounts

\* Each read leaves a state that satisfies PendingWrite.
LEMMA ReadPending ==
  ASSUME SlotInv, NEW w \in Worker, pc[w] = "read",
         \/ ReadReserve(w) \/ ReadCommit(w) \/ ReadRelease(w) \/ ReadSnapshot(w)
  PROVE  PendingWrite(w)'
<1>1. /\ file' = file /\ granted' = granted /\ journal' = journal /\ now' = now
      /\ op' = op /\ token' = token
  BY DEF ReadReserve, ReadCommit, ReadRelease, ReadSnapshot, Compute, clock,
         identity, history
<1>2. /\ TypeOK /\ now[w] \in Day /\ limit[w] \in 0 .. Cap
      /\ token[w] \subseteq Attempt /\ w \in DOMAIN mem
      /\ Cap \in Nat /\ journal[now[w]] \in Nat
  BY BudgetAssumption DEF SlotInv, TypeOK
<1>3. ~LoadRefused(file, now[w], limit[w])
  BY DEF ReadReserve, ReadCommit, ReadRelease, ReadSnapshot
<1>4. op[w] \in {"reserve", "commit", "release"} =>
        \E a \in Attempt : token[w] = {a}
  BY DEF SlotInv, TokensApart, Inside
<1>5. Cardinality(granted[now[w]]) \in Nat
  BY <1>2, FS_CardinalityType DEF SlotInv, FiniteSlots
<1>6. CASE ReadReserve(w)
  <2> DEFINE s == Synced(w)
             f == [s EXCEPT !.reservations = @ \cup token[w]]
  <2>1. /\ s \in State /\ s.date = now[w]
        /\ s.reservations = Loaded(w).reservations
        /\ s.journal_count = journal[now[w]]
        /\ Cardinality(granted[now[w]]) <= UsedSlots(s)
        /\ IsFiniteSet(s.reservations)
        /\ file.date = now[w] => UsedSlots(s) >= UsedSlots(file)
        /\ file.date = now[w] => UsedSlots(file) \in Nat
    BY <1>3, <1>6, LoadedCounts, SyncedCounts DEF ReadReserve
  <2>2. PICK a \in Attempt : token[w] = {a}
    BY <1>4, <1>6 DEF ReadReserve
  <2>3. /\ op[w] = "reserve" /\ a \notin s.reservations
        /\ UsedSlots(s) < limit[w]
    BY <1>6, <2>2 DEF ReadReserve
  <2>4. mem'[w] = f
    BY <1>2, <1>6 DEF ReadReserve, Compute
  <2>5. /\ f.date = now[w] /\ f.reservations = s.reservations \cup {a}
        /\ f.journal_count = s.journal_count /\ f.committed = s.committed
    BY <2>1, <2>2 DEF State
  <2>6. /\ Cardinality(f.reservations) = Cardinality(s.reservations) + 1
        /\ Cardinality(s.reservations) \in Nat
    BY <2>1, <2>3, <2>5, FS_AddElement, FS_CardinalityType
  <2>7. s.journal_count \in Nat /\ s.committed \in Nat
    BY <2>1 DEF State
  <2>8. UsedSlots(f) = UsedSlots(s) + 1 /\ UsedSlots(s) \in Nat
    BY <2>5, <2>6, <2>7 DEF UsedSlots
  <2>9. /\ Cardinality(granted[now[w]]) + 1 <= UsedSlots(f)
        /\ UsedSlots(f) <= Cap
        /\ file.date = now[w] => UsedSlots(f) >= UsedSlots(file)
    BY <2>1, <2>3, <2>8, <1>2, <1>5
  <2> HIDE DEF f
  <2>10. f.journal_count <= journal[f.date]
    BY <1>2, <2>1, <2>5, <2>7
  <2>11. f.reservations = (IF file.date = f.date THEN file.reservations
                           ELSE {}) \cup token[w]
    BY <1>3, <2>1, <2>2, <2>5, LoadedCounts
  <2>12. file.date = f.date \/ Drained(file)
    BY <1>3, <2>5, LoadedCounts
  <2>13. QED
    BY <1>1, <2>3, <2>4, <2>5, <2>9, <2>10, <2>11, <2>12 DEF PendingWrite,
       UsedSlots, Drained
<1>7. CASE ReadCommit(w) \/ ReadRelease(w)
  <2> DEFINE s == Loaded(w)
             r == s.reservations \ token[w]
             c == IF op[w] = "commit" THEN s.committed + 1 ELSE s.committed
             f == mem'[w]
  <2>1. /\ s \in State /\ s.date = now[w] /\ IsFiniteSet(s.reservations)
        /\ s.journal_count <= journal[now[w]]
        /\ Cardinality(granted[now[w]]) <= UsedSlots(s)
    BY <1>3, LoadedCounts
  <2>2. op[w] \in {"commit", "release"} /\ token[w] \subseteq s.reservations
    BY <1>7 DEF ReadCommit, ReadRelease
  <2>3. PICK a \in Attempt : token[w] = {a}
    BY <1>4, <2>2
  <2>4. file.date = now[w] /\ s.reservations = file.reservations
    BY <1>3, <2>2, <2>3, LoadedCounts
  <2>5. /\ f.date = now[w] /\ f.reservations = r
        /\ f.journal_count = s.journal_count /\ f.committed = c
    <3>1. CASE ReadCommit(w)
      BY <1>2, <2>1, <3>1 DEF ReadCommit, Compute, State
    <3>2. CASE ReadRelease(w)
      BY <1>2, <2>1, <3>2 DEF ReadRelease, Compute, State
    <3>3. QED BY <1>7, <3>1, <3>2
  <2>6. /\ Cardinality(r) = Cardinality(s.reservations) - 1
        /\ Cardinality(s.reservations) \in Nat
    BY <2>1, <2>2, <2>3, FS_RemoveElement, FS_CardinalityType
  <2>7. s.journal_count \in Nat /\ s.committed \in Nat
    BY <2>1 DEF State
  <2>8. /\ UsedSlots(s) \in Nat
        /\ op[w] = "commit" => UsedSlots(f) = UsedSlots(s)
        /\ op[w] = "release" => UsedSlots(f) + 1 = UsedSlots(s)
    BY <2>5, <2>6, <2>7 DEF UsedSlots
  <2>9. /\ op[w] = "commit" => Cardinality(granted[now[w]]) <= UsedSlots(f)
        /\ op[w] = "release" => Cardinality(granted[now[w]]) <= UsedSlots(f) + 1
        /\ op[w] = "commit" => UsedSlots(f) >= UsedSlots(s)
    BY <2>1, <2>8, <1>5
  <2>10. s = file
    BY <1>3, <2>4, LoadedCounts
  <2>11. QED
    BY <1>1, <2>1, <2>2, <2>4, <2>5, <2>9, <2>10 DEF PendingWrite, UsedSlots, Drained
<1>8. CASE ReadSnapshot(w)
  <2>1. mem'[w] = Synced(w) /\ op[w] = "snapshot"
    BY <1>2, <1>8 DEF ReadSnapshot, Compute
  <2>2. ~SyncRefused(Loaded(w), journal[now[w]])
    BY <1>8 DEF ReadSnapshot
  <2>3. QED
    BY <1>1, <1>2, <1>3, <2>1, <2>2, LoadedCounts, SyncedCounts
       DEF PendingWrite, UsedSlots, Drained
<1>9. QED
  BY <1>6, <1>7, <1>8

\* The four reads of the file and the journal keep SlotInv.
LEMMA ReadStep ==
  ASSUME SlotInv, TypeOK', NEW w \in Worker,
         \/ ReadReserve(w) \/ ReadCommit(w) \/ ReadRelease(w) \/ ReadSnapshot(w)
  PROVE  SlotInv'
<1>1. /\ file' = file /\ granted' = granted /\ journal' = journal /\ now' = now
      /\ op' = op /\ token' = token /\ minted' = minted /\ lock' = lock
      /\ ok' = ok /\ pc[w] = "read"
      /\ pc' = [pc EXCEPT ![w] = "write"]
      /\ \E f : mem' = [mem EXCEPT ![w] = f]
  BY DEF ReadReserve, ReadCommit, ReadRelease, ReadSnapshot, Compute, clock,
         identity, history
<1>2. TypeOK /\ LockOwned /\ TokensApart /\ GrantedIsHeld
  BY DEF SlotInv
<1>3. LockOwned' /\ TokensApart' /\ GrantedIsHeld'
  BY <1>1, <1>2 DEF LockOwned, TokensApart, GrantedIsHeld, Holds, TypeOK, Inside
<1>4. FiniteSlots' /\ Counted' /\ SessionCap'
  BY <1>1, FrameCounts, JournalSame
<1>5. ASSUME NEW v \in Worker, pc'[v] = "write" PROVE PendingWrite(v)'
  <2>1. CASE v = w
    BY <1>1, <2>1, ReadPending
  <2>2. CASE v # w
    <3>1. pc[v] = "write" /\ mem'[v] = mem[v]
      BY <1>1, <1>2, <1>5, <2>2 DEF TypeOK
    <3>2. PendingWrite(v)
      BY <3>1 DEF SlotInv
    <3>3. QED
      BY <1>1, <3>1, <3>2, FramePending, JournalSame
  <2>3. QED
    BY <2>1, <2>2
<1>6. QED
  BY <1>3, <1>4, <1>5 DEF SlotInv

-----------------------------------------------------------------------------
(* The write *)

\* What the write does to the grants of its session, and to their number.
LEMMA WriteGrants ==
  ASSUME SlotInv, TypeOK', NEW w \in Worker, Write(w)
  PROVE  /\ PendingWrite(w) /\ mem[w].date = now[w] /\ now[w] \in Day
         /\ \A d \in Day \ {now[w]} : granted'[d] = granted[d]
         /\ IsFiniteSet(granted'[now[w]])
         /\ granted'[now[w]] \subseteq minted
         /\ Cardinality(granted'[now[w]]) <= UsedSlots(mem[w])
         /\ Cardinality(granted'[now[w]]) <= Cap
         /\ IsFiniteSet(mem[w].reservations)
         /\ mem[w].reservations \subseteq granted'[now[w]]
<1> DEFINE f == mem[w]
           g == granted[now[w]]
           h == granted'[now[w]]
<1>1. PendingWrite(w) /\ pc[w] = "write"
  BY DEF Write, SlotInv
<1>2. f.date = now[w] /\ now[w] \in Day /\ f \in State /\ Cap \in Nat
  BY <1>1, BudgetAssumption DEF PendingWrite, SlotInv, TypeOK
<1>3. /\ \A d \in Day \ {now[w]} : granted'[d] = granted[d]
      /\ op[w] = "reserve" => h = g \cup token[w]
      /\ op[w] = "release" => h = g \ token[w]
      /\ op[w] \in {"commit", "snapshot"} => h = g
  BY <1>2 DEF Write, SlotInv, TypeOK
<1>4. /\ IsFiniteSet(g) /\ g \subseteq minted /\ token[w] \subseteq minted
      /\ IsFiniteSet(file.reservations) /\ Cardinality(g) <= Cap
      /\ Cardinality(g) \in Nat
  BY <1>2, FS_CardinalityType
     DEF SlotInv, FiniteSlots, TokensApart, SessionCap
<1>5. file.date = now[w] => file.reservations \subseteq g
  BY <1>2 DEF SlotInv, Counted, Day
<1>6. op[w] \in {"reserve", "release"} => \E a \in Attempt : token[w] = {a}
  BY <1>1 DEF SlotInv, TokensApart, Inside
<1>7. /\ f.journal_count \in Nat /\ f.committed \in Nat
      /\ f.reservations \in SUBSET Attempt
  BY <1>2 DEF State
<1>8. CASE op[w] = "reserve"
  <2>1. PICK a \in Attempt : token[w] = {a}
    BY <1>6, <1>8
  <2>2. /\ f.reservations = (IF file.date = now[w] THEN file.reservations
                             ELSE {}) \cup {a}
        /\ Cardinality(g) + 1 <= UsedSlots(f) /\ UsedSlots(f) <= Cap
    BY <1>1, <1>2, <1>8, <2>1 DEF PendingWrite
  <2>3. /\ IsFiniteSet(h) /\ Cardinality(h) \in Nat
        /\ Cardinality(h) <= Cardinality(g) + 1
    <3>1. CASE a \in g
      <4>1. h = g
        BY <1>3, <1>8, <2>1, <3>1
      <4>2. Cardinality(g) <= Cardinality(g) + 1
        BY <1>4
      <4>3. QED
        BY <1>4, <4>1, <4>2
    <3>2. CASE a \notin g
      BY <1>3, <1>4, <1>8, <2>1, <3>2, FS_AddElement
    <3>3. QED
      BY <3>1, <3>2
  <2>4. IsFiniteSet(f.reservations)
    BY <1>4, <2>2, FS_AddElement, FS_EmptySet
  <2>5. UsedSlots(f) \in Nat
    BY <1>7, <2>4, FS_CardinalityType DEF UsedSlots
  <2>6. QED
    BY <1>1, <1>2, <1>3, <1>4, <1>5, <1>8, <2>1, <2>2, <2>3, <2>4, <2>5
<1>9. CASE op[w] = "release"
  <2>1. PICK a \in Attempt : token[w] = {a}
    BY <1>6, <1>9
  <2>2. /\ file.date = now[w] /\ a \in file.reservations
        /\ f.reservations = file.reservations \ {a}
        /\ Cardinality(g) <= UsedSlots(f) + 1
    BY <1>1, <1>2, <1>9, <2>1 DEF PendingWrite
  <2>3. a \in g /\ h = g \ {a}
    BY <1>3, <1>5, <1>9, <2>1, <2>2
  <2>4. IsFiniteSet(h) /\ Cardinality(h) = Cardinality(g) - 1
        /\ Cardinality(h) \in Nat
    BY <1>4, <2>3, FS_RemoveElement, FS_CardinalityType
  <2>5. IsFiniteSet(f.reservations)
    BY <1>4, <2>2, FS_RemoveElement
  <2>6. UsedSlots(f) \in Nat
    BY <1>7, <2>5, FS_CardinalityType DEF UsedSlots
  <2>7. QED
    BY <1>1, <1>2, <1>3, <1>4, <1>5, <2>2, <2>3, <2>4, <2>5, <2>6
<1>10. CASE op[w] \in {"commit", "snapshot"}
  <2>1. /\ f.reservations \subseteq file.reservations
        /\ f.reservations # {} => file.date = now[w]
        /\ Cardinality(g) <= UsedSlots(f)
    BY <1>1, <1>2, <1>10 DEF PendingWrite
  <2>2. IsFiniteSet(f.reservations)
    BY <1>4, <2>1, FS_Subset
  <2>3. QED
    BY <1>1, <1>2, <1>3, <1>4, <1>5, <1>10, <2>1, <2>2
<1>11. op[w] \in {"reserve", "commit", "release", "snapshot"}
  BY <1>1 DEF PendingWrite
<1>12. QED
  BY <1>8, <1>9, <1>10, <1>11

\* The replacement of the file keeps SlotInv: the step where the cap could break.
LEMMA WriteStep ==
  ASSUME SlotInv, TypeOK', NEW w \in Worker, Write(w)
  PROVE  SlotInv'
<1>1. /\ pc[w] = "write" /\ pc' = [pc EXCEPT ![w] = "unlock"]
      /\ file' = mem[w] /\ journal' = journal /\ lock' = lock /\ now' = now
      /\ op' = op /\ token' = token /\ mem' = mem /\ minted' = minted
      /\ ok' = [ok EXCEPT ![w] = TRUE]
  BY DEF Write, clock, identity
<1>2. TypeOK /\ LockOwned /\ TokensApart /\ FiniteSlots /\ Counted /\ GrantedIsHeld
      /\ SessionCap /\ file \in State /\ PendingWrite(w)
  BY <1>1 DEF SlotInv, TypeOK
<1>3. LockOwned' /\ TokensApart'
  BY <1>1, <1>2 DEF LockOwned, TokensApart, TypeOK, Inside
<1>4. FiniteSlots' /\ SessionCap'
  BY <1>1, <1>2, WriteGrants DEF FiniteSlots, SessionCap
<1>5. Counted'
  <2>1. file'.date = now[w] /\ now[w] \in Day /\ now[w] # 0
    BY <1>1, WriteGrants DEF Day
  <2>2. ASSUME NEW d \in Day, d # now[w]
        PROVE  Cardinality(granted'[d]) <= journal'[d]
    <3>1. granted'[d] = granted[d] /\ journal'[d] = journal[d]
      BY <1>1, <2>2, WriteGrants
    <3>2. CASE d # file.date
      BY <1>2, <3>1, <3>2 DEF Counted
    <3>3. CASE d = file.date
      <4>1. Drained(file)
        BY <1>2, <2>2, <3>3 DEF PendingWrite
      <4>2. UsedSlots(file) = file.journal_count
        BY <1>2, <4>1, UsedDrained
      <4>3. /\ Cardinality(granted[d]) <= file.journal_count
            /\ file.journal_count <= journal[d]
        BY <1>2, <3>3, <4>2 DEF Counted, Day
      <4>4. /\ Cardinality(granted[d]) \in Nat /\ journal[d] \in Nat
            /\ file.journal_count \in Nat
        BY <1>2, FS_CardinalityType DEF FiniteSlots, TypeOK, State
      <4>5. QED
        BY <3>1, <4>3, <4>4
    <3>4. QED
      BY <3>2, <3>3
  <2>3. file'.journal_count <= journal'[file'.date]
    BY <1>1, <1>2 DEF PendingWrite
  <2>4. QED
    BY <1>1, <2>1, <2>2, <2>3, WriteGrants DEF Counted, UsedSlots
<1>6. ASSUME NEW v \in Worker, pc'[v] = "write" PROVE PendingWrite(v)'
  <2>1. v # w /\ pc[v] = "write"
    BY <1>1, <1>2, <1>6 DEF TypeOK
  <2>2. lock = {v} /\ lock = {w}
    BY <1>1, <1>2, <2>1 DEF LockOwned, Inside
  <2>3. QED
    BY <2>1, <2>2
<1>7. GrantedIsHeld'
  <2>1. ASSUME NEW v \in Worker, Holds(v)'
        PROVE  token[v] \subseteq mem[w].reservations /\ mem[w].date = now[v]
    <3>1. CASE v = w
      <4>1. op[w] = "reserve"
        BY <1>1, <1>2, <2>1, <3>1 DEF Holds, TypeOK
      <4>2. QED
        BY <1>2, <3>1, <4>1 DEF PendingWrite
    <3>2. CASE v # w
      <4>1. Holds(v)
        BY <1>1, <1>2, <2>1, <3>2 DEF Holds, TypeOK
      <4>2. token[v] \subseteq file.reservations /\ file.date = now[v]
        BY <1>2, <4>1 DEF GrantedIsHeld
      <4>3. \E a \in Attempt : token[v] = {a}
        BY <1>2, <4>1 DEF Holds, TokensApart, Inside
      <4>4. token[v] \cap token[w] = {}
        BY <1>2, <3>2 DEF TokensApart
      <4>5. file.date = mem[w].date
        BY <1>2, <4>2, <4>3 DEF PendingWrite, Drained
      <4>6. file.reservations \ token[w] \subseteq mem[w].reservations
        BY <1>2, <4>5 DEF PendingWrite
      <4>7. QED
        BY <4>2, <4>4, <4>5, <4>6
    <3>3. QED
      BY <3>1, <3>2
  <2>2. QED
    BY <1>1, <2>1 DEF GrantedIsHeld
<1>8. QED
  BY <1>3, <1>4, <1>5, <1>6, <1>7 DEF SlotInv

-----------------------------------------------------------------------------
(* Theorems *)

\* An empty budget satisfies SlotInv.
LEMMA SlotInit == Init => SlotInv
<1> SUFFICES ASSUME Init PROVE SlotInv
  OBVIOUS
<1>1. TypeOK
  BY TypeInit
<1>2. Cardinality({}) = 0 /\ IsFiniteSet({}) /\ Cap \in Nat
  BY FS_EmptySet, BudgetAssumption
<1>3. /\ \A w \in Worker : pc[w] = "down" /\ token[w] = {}
      /\ \A d \in Day : granted[d] = {} /\ journal[d] = 0
      /\ file.date = 0 /\ file.reservations = {} /\ file.committed = 0
  BY DEF Init, NoFile
<1>4. LockOwned /\ TokensApart /\ GrantedIsHeld
  BY <1>3 DEF LockOwned, TokensApart, GrantedIsHeld, Holds, Inside
<1>5. FiniteSlots /\ SessionCap
  <2>1. \A d \in Day : Cardinality(granted[d]) = 0 /\ IsFiniteSet(granted[d])
    BY <1>2, <1>3
  <2>2. \A d \in Day : Cardinality(granted[d]) <= Cap
    BY <1>2, <2>1
  <2>3. QED
    BY <1>2, <1>3, <2>1, <2>2 DEF FiniteSlots, SessionCap
<1>6. Counted
  BY <1>2, <1>3 DEF Counted, Drained
<1>7. QED
  BY <1>1, <1>3, <1>4, <1>5, <1>6 DEF SlotInv

\* SlotInv is inductive.
LEMMA SlotStep == SlotInv /\ [Next]_vars => SlotInv'
<1> SUFFICES ASSUME SlotInv, [Next]_vars PROVE SlotInv'
  OBVIOUS
<1>0. TypeOK'
  BY TypeStep DEF SlotInv
<1>1. CASE Tick \/ UNCHANGED vars
  <2>1. /\ file' = file /\ granted' = granted /\ minted' = minted
        /\ journal' = journal /\ lock' = lock /\ pc' = pc /\ now' = now
        /\ op' = op /\ token' = token /\ mem' = mem /\ ok' = ok
    BY <1>1 DEF Tick, vars, identity, history
  <2>2. LockOwned' /\ TokensApart' /\ GrantedIsHeld'
    BY <2>1 DEF SlotInv, LockOwned, TokensApart, GrantedIsHeld, Holds
  <2>3. FiniteSlots' /\ Counted' /\ SessionCap'
    BY <1>0, <2>1, FrameCounts, JournalSame
  <2>4. \A w \in Worker : pc'[w] = "write" => PendingWrite(w)'
    BY <1>0, <2>1, FramePending, JournalSame DEF SlotInv
  <2>5. QED
    BY <1>0, <2>2, <2>3, <2>4 DEF SlotInv
<1>2. ASSUME NEW w \in Worker, Step(w) PROVE SlotInv'
  BY <1>0, <1>2, OutsideStep, LockStep, UnlockStep, ReadStep, WriteStep DEF Step
<1>3. QED
  BY <1>1, <1>2 DEF Next

\* The strengthened invariant, from which the properties follow.
THEOREM SlotInvariant == Spec => []SlotInv
<1>1. QED
  BY SlotInit, SlotStep, PTL DEF Spec

\* However many processes share the budget, wherever they die and whatever the
\* journal misses, no session grants more opening sends than its cap.
THEOREM SessionCapHolds == Spec => []SessionCap
<1>1. SlotInv => SessionCap
  BY DEF SlotInv
<1>2. QED
  BY <1>1, SlotInvariant, PTL

\* A reservation made is never lost to another process's write or to a new day.
THEOREM GrantsAreHeld == Spec => []GrantedIsHeld
<1>1. SlotInv => GrantedIsHeld
  BY DEF SlotInv
<1>2. QED
  BY <1>1, SlotInvariant, PTL

\* Within a session the count compared with the cap only shrinks by a release.
THEOREM UsedSlotsMonotone == Spec => SlotsNeverForgotten
<1> DEFINE Keeps == file'.date = file.date /\ file.date # 0 =>
             \/ UsedSlots(file') >= UsedSlots(file)
             \/ \E w \in Worker : pc[w] = "write" /\ op[w] = "release"
<1>1. SlotInv /\ [Next]_vars => [Keeps]_vars
  <2> SUFFICES ASSUME SlotInv, [Next]_vars PROVE Keeps
    OBVIOUS
  <2>0. UsedSlots(file) \in Nat
    BY FS_CardinalityType DEF SlotInv, FiniteSlots, UsedSlots, TypeOK, State
  <2>1. ASSUME NEW w \in Worker, Write(w) PROVE Keeps
    <3>1. file' = mem[w] /\ pc[w] = "write" /\ PendingWrite(w)
      BY <2>1 DEF Write, SlotInv
    <3>2. QED
      BY <3>1 DEF PendingWrite
  <2>2. CASE file' = file
    BY <2>0, <2>2
  <2>3. file' = file \/ \E w \in Worker : Write(w)
    BY DEF Next, Step, vars, Tick, Start, Crash, ExitOrder, ReserveCall,
       CommitCall, ReleaseCall, SnapshotCall, Enter, ReadReserve, ReadCommit,
       ReadRelease, ReadSnapshot, Compute, Refuse, Unlock, Send, SendRaises,
       Abandon, Record
  <2>4. QED
    BY <2>1, <2>2, <2>3
<1>2. QED
  BY <1>1, SlotInvariant, PTL DEF Spec, SlotsNeverForgotten

-----------------------------------------------------------------------------
(* As production code uses the budget: nothing calls release() or snapshot() *)

\* A send that was committed as such leaves the count only when a later reserve
\* sees it journalled, and that reserve adds a reservation: a file that counted
\* anything never drains again.  So only one session ever grants, and whatever day
\* its sends fall on, they are the attempts it granted.
OneSession ==
  /\ \A w \in Worker :
       /\ op[w] \notin {"release", "snapshot"}
       /\ pc[w] = "write" =>
            op[w] \in {"reserve", "commit"} /\ ~Drained(mem[w])
  /\ file.date # 0 => ~Drained(file)
  /\ \A d \in Day : d # file.date => granted[d] = {}
  /\ \A d \in Day : file.date = 0 => sends[d] = {}
  /\ \A d \in Day : file.date # 0 => sends[d] \subseteq granted[file.date]

\* What is handed to the broker was granted in the one session of the file.
LEMMA SentWasGranted ==
  ASSUME SlotInv, NEW w \in Worker, pc[w] = "granted"
  PROVE  file.date \in Day /\ file.date # 0 /\ token[w] \subseteq granted[file.date]
<1>1. token[w] \subseteq file.reservations /\ file.date = now[w]
  BY DEF SlotInv, GrantedIsHeld, Holds
<1>2. now[w] \in Day /\ now[w] # 0
  BY DEF SlotInv, TypeOK, Day
<1>3. QED
  BY <1>1, <1>2 DEF SlotInv, Counted

\* A state about to be written that reserves or commits counts something.
LEMMA ReadLeavesSomething ==
  ASSUME SlotInv, NEW w \in Worker, ReadReserve(w) \/ ReadCommit(w)
  PROVE  ~Drained(mem'[w])
<1>1. PICK a \in Attempt : token[w] = {a}
  BY DEF SlotInv, TokensApart, ReadReserve, ReadCommit, Inside
<1>2. Loaded(w) \in State
  BY SyncedType DEF SlotInv
<1>3. CASE ReadReserve(w)
  <2>1. mem' = [mem EXCEPT ![w] = [Synced(w) EXCEPT !.reservations = @ \cup token[w]]]
    BY <1>3 DEF ReadReserve, Compute
  <2>2. Synced(w) \in State
    BY <1>3, SyncedType DEF SlotInv, ReadReserve
  <2>3. mem'[w].reservations = Synced(w).reservations \cup token[w]
    BY <2>1, <2>2 DEF SlotInv, TypeOK, State
  <2>4. QED
    BY <1>1, <2>3 DEF Drained
<1>4. CASE ReadCommit(w)
  <2>1. mem' = [mem EXCEPT ![w] =
                  [Loaded(w) EXCEPT !.reservations = @ \ token[w], !.committed = @ + 1]]
    BY <1>4 DEF ReadCommit, Compute
  <2>2. mem'[w].committed = Loaded(w).committed + 1 /\ Loaded(w).committed \in Nat
    BY <2>1, <1>2 DEF SlotInv, TypeOK, State
  <2>3. QED
    BY <2>2 DEF Drained
<1>5. QED
  BY <1>3, <1>4

LEMMA OneSessionInit == Init => OneSession
  BY DEF Init, OneSession, NoFile

LEMMA OneSessionStep ==
  ASSUME SlotInv, OneSession, [Next]_vars,
         \A w \in Worker : op'[w] \notin {"release", "snapshot"}
  PROVE  OneSession'
<1> USE DEF clock, identity, history
<1>0. TypeOK /\ TypeOK'
  BY TypeStep DEF SlotInv
<1>1. CASE Tick \/ UNCHANGED vars
  <2>1. UNCHANGED <<file, granted, sends, op, pc, mem>>
    BY <1>1 DEF Tick, vars
  <2>2. QED
    BY <2>1 DEF OneSession, Drained
<1>2. ASSUME NEW w \in Worker, Send(w) \/ SendRaises(w)
      PROVE  OneSession'
  <2>1. /\ UNCHANGED <<file, granted, op, mem>> /\ pc[w] = "granted"
        /\ pc' = [pc EXCEPT ![w] = "sent"] \/ pc' = [pc EXCEPT ![w] = "record"]
        /\ sends' = sends \/ sends' = [sends EXCEPT ![today] = @ \cup token[w]]
    BY <1>2 DEF Send, SendRaises
  <2>2. file.date \in Day /\ file.date # 0 /\ token[w] \subseteq granted[file.date]
    BY <2>1, SentWasGranted
  <2>3. \A d \in Day : sends'[d] \subseteq sends[d] \cup token[w]
    BY <2>1, <1>0 DEF TypeOK
  <2>4. \A v \in Worker : pc'[v] = "write" => pc[v] = "write"
    BY <2>1, <1>0 DEF TypeOK
  <2>5. QED
    BY <2>1, <2>2, <2>3, <2>4 DEF OneSession, Drained
<1>3. ASSUME NEW w \in Worker, Write(w)
      PROVE  OneSession'
  <2>1. /\ file' = mem[w] /\ sends' = sends /\ op' = op /\ mem' = mem
        /\ pc[w] = "write" /\ pc' = [pc EXCEPT ![w] = "unlock"]
    BY <1>3 DEF Write
  <2>2. /\ mem[w].date = now[w] /\ now[w] \in Day
        /\ \A d \in Day \ {now[w]} : granted'[d] = granted[d]
    BY <1>3, WriteGrants, <1>0
  <2>3. op[w] \in {"reserve", "commit"} /\ ~Drained(mem[w])
    BY <2>1 DEF OneSession
  <2>4. granted[now[w]] \subseteq granted'[now[w]]
    BY <1>3, <2>2, <2>3, <1>0 DEF Write, TypeOK
  <2>5. file.date = now[w] \/ Drained(file)
    BY <2>1, <2>2 DEF SlotInv, PendingWrite
  <2>6. file.date = now[w] \/ file.date = 0
    BY <2>5 DEF OneSession
  <2>7. \A v \in Worker : pc'[v] = "write" => pc[v] = "write"
    BY <2>1, <1>0 DEF TypeOK
  <2>8. \A d \in Day : sends'[d] \subseteq granted'[now[w]]
    BY <2>1, <2>4, <2>6 DEF OneSession
  <2>9. \A d \in Day : d # now[w] => granted'[d] = {}
    BY <2>2, <2>6 DEF OneSession, Day
  <2>10. now[w] # 0
    BY <2>2 DEF Day
  <2>11. QED
    BY <2>1, <2>2, <2>3, <2>7, <2>8, <2>9, <2>10 DEF OneSession, Drained
<1>4. ASSUME NEW w \in Worker, ReadReserve(w) \/ ReadCommit(w)
      PROVE  OneSession'
  <2>1. /\ UNCHANGED <<file, granted, sends, op>>
        /\ op[w] \in {"reserve", "commit"}
        /\ pc' = [pc EXCEPT ![w] = "write"]
        /\ \A v \in Worker : v # w => mem'[v] = mem[v]
    BY <1>4, <1>0 DEF ReadReserve, ReadCommit, Compute, TypeOK
  <2>2. ~Drained(mem'[w])
    BY <1>4, ReadLeavesSomething
  <2>3. QED
    BY <2>1, <2>2, <1>0 DEF OneSession, Drained, TypeOK
<1>5. ASSUME NEW w \in Worker,
             \/ Start(w) \/ Crash(w) \/ ExitOrder(w)
             \/ \E a \in Attempt : ReserveCall(w, a) \/ ReleaseCall(w, a)
             \/ CommitCall(w) \/ SnapshotCall(w) \/ Refuse(w) \/ Unlock(w)
             \/ Abandon(w) \/ Record(w)
      PROVE  OneSession'
  <2>1. UNCHANGED <<file, granted, sends>>
    BY <1>5 DEF Start, Crash, ExitOrder, ReserveCall, ReleaseCall, CommitCall,
       SnapshotCall, Enter, Refuse, Unlock, Abandon, Record
  <2>2. pc'[w] # "write" /\ \A v \in Worker : v # w => pc'[v] = pc[v]
    BY <1>5, <1>0 DEF Start, Crash, ExitOrder, ReserveCall, ReleaseCall, CommitCall,
       SnapshotCall, Enter, Refuse, Unlock, After, Abandon, Record, TypeOK
  <2>3. \A v \in Worker : v # w => mem'[v] = mem[v] /\ op'[v] = op[v]
    BY <1>5, <1>0 DEF Start, Crash, ExitOrder, ReserveCall, ReleaseCall, CommitCall,
       SnapshotCall, Enter, Refuse, Unlock, Abandon, Record, TypeOK
  <2>4. QED
    BY <2>1, <2>2, <2>3 DEF OneSession, Drained
<1>6. ASSUME NEW w \in Worker, ReadRelease(w) \/ ReadSnapshot(w)
      PROVE  OneSession'
  BY <1>6 DEF ReadRelease, ReadSnapshot, OneSession
<1>7. QED
  BY <1>1, <1>2, <1>3, <1>4, <1>5, <1>6 DEF Next, Step

\* As long as nothing calls release() or snapshot(), no UTC day sees more opening
\* sends than the cap, although a worker keeps the date it pinned at its start and
\* sends on whatever day it has become.
THEOREM DayCapHolds == MCSpec => []DayCap
<1> DEFINE Untouched == ~tools => OneSession
<1>1. MCInit => Init /\ SlotInv /\ Untouched
  BY SlotInit, OneSessionInit DEF MCInit
<1>2. SlotInv /\ Untouched /\ [MCNext]_<<vars, tools>> => SlotInv' /\ Untouched'
  <2> SUFFICES ASSUME SlotInv, Untouched, [MCNext]_<<vars, tools>>
               PROVE  SlotInv' /\ Untouched'
    OBVIOUS
  <2>1. [Next]_vars /\ tools' = tools
    BY DEF MCNext
  <2>2. SlotInv'
    BY <2>1, SlotStep
  <2>3. ASSUME ~tools PROVE OneSession'
    <3>1. OneSession
      BY <2>3
    <3>2. \A w \in Worker : op'[w] \notin {"release", "snapshot"}
      BY <2>3, <3>1 DEF MCNext, OneSession, vars
    <3>3. QED
      BY <2>1, <3>1, <3>2, OneSessionStep
  <2>4. QED
    BY <2>1, <2>2, <2>3
<1>3. SlotInv /\ Untouched => DayCap
  <2> SUFFICES ASSUME SlotInv, OneSession, NEW d \in Day
               PROVE  Cardinality(sends[d]) <= Cap
    BY DEF DayCap, WallClockCap
  <2>1. CASE file.date = 0
    BY <2>1, FS_EmptySet, BudgetAssumption DEF OneSession
  <2>2. CASE file.date # 0
    <3>1. file.date \in Day
      BY <2>2 DEF SlotInv, TypeOK, State, Day
    <3>2. IsFiniteSet(granted[file.date]) /\ Cardinality(granted[file.date]) <= Cap
      BY <3>1 DEF SlotInv, FiniteSlots, SessionCap
    <3>3. sends[d] \subseteq granted[file.date]
      BY <2>2 DEF OneSession
    <3>4. Cardinality(sends[d]) <= Cardinality(granted[file.date])
      BY <3>2, <3>3, FS_Subset
    <3>5. QED
      BY <3>2, <3>3, <3>4, FS_Subset, FS_CardinalityType, BudgetAssumption
  <2>3. QED
    BY <2>1, <2>2
<1>4. QED
  BY <1>1, <1>2, <1>3, PTL DEF MCSpec

=============================================================================
