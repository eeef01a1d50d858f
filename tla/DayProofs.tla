------------------------------ MODULE DayProofs ------------------------------
(***************************************************************************)
(* Proofs about the components that MCSession puts side by side: PaperDay, *)
(* for any number of controllers, starts, stops, scheduler processes,      *)
(* timeouts and deaths; PacingLedger, for any quota, window and number of  *)
(* clients; AutoCycle, for any cadences and number of slots and runs.      *)
(***************************************************************************)
EXTENDS MCSession, TotalsProofs, FiniteSetTheorems, SequenceTheorems, TLAPS

-----------------------------------------------------------------------------
(* Types *)

Early == {"start", "stale", "absent", "unlink", "link", "broker", "decide", "adopt"}
Spawning == {"claim", "spawn", "handshake"}
Closing == {"shut", "shutting", "quiesce", "drain", "left", "cancel", "settle", "audit",
              "reviewer", "watcher", "mark", "release", "releasing", "publish", "published"}
Pc == Early \cup Spawning \cup {"idle", "license"} \cup Closing

Record == [session : Start, nonce : Start, pid : 1 .. MaxChildren]
Watcher == [session : 0 .. MaxStarts, alive : BOOLEAN]
Terminal == [id : Identity, clean : BOOLEAN]
Gate == [position : {"OPEN", "PROOF_ONLY", "CLOSED"}, session : 0 .. MaxStarts,
         token : 0 .. MaxStarts, recovery : BOOLEAN, scheduler : Record \cup {None}]
Controller ==
  [pc : Pc, me : 0 .. MaxStarts, session : 0 .. MaxStarts,
   state : {"READY", "DEGRADED", "BLOCKED"}, prior : Gate \cup {None},
   seen : Watcher \cup {None}, id : Identity \cup {None}, pid : 0 .. MaxChildren,
   clean : BOOLEAN, proven : BOOLEAN]

\* What a controller m relies on, where ch are the processes.
Sound(m, ch) ==
  /\ m.pc \in Early \cup Spawning => m.me \in Start
  /\ m.pc \in Early => m.session \in Start
  /\ m.pc \in Spawning \cup {"drain"} => m.id \in Identity
  /\ m.pc \in {"handshake", "drain"} => m.pid \in DOMAIN ch /\ ch[m.pid].id = m.id

Files ==
  /\ full \in BOOLEAN
  /\ lock \in 0 .. MaxStarts
  /\ gate \in Gate \cup {None}
  /\ watcher \in Watcher \cup {None}
  /\ record \in Record \cup {None} /\ (record # None => record.pid \in DOMAIN child)
  /\ claim \in Identity \cup {None}
  /\ beat \in Identity \cup {None}
  /\ quiesce \in Identity \cup {None}
  /\ terminal \in Terminal \cup {None}

Processes ==
  /\ child \in Seq(Process) /\ Len(child) <= MaxChildren
  /\ pending \subseteq DOMAIN child

Counted ==
  /\ starts \in 0 .. MaxStarts /\ stops \in 0 .. MaxStops
  /\ timeouts \in 0 .. MaxTimeouts /\ crashes \in 0 .. MaxCrashes

Staff ==
  /\ control \in [Controllers -> Controller]
  /\ \A c \in Controllers : Sound(control[c], child)

TypeInv == Files /\ Processes /\ Counted /\ Staff

-----------------------------------------------------------------------------
(* The inductive invariant *)

\* The identities of the processes come from starts that are known.
Nonces ==
  /\ \A k \in DOMAIN child : child[k].id.nonce <= starts
  /\ \A c \in Controllers : My(c).me <= starts
  /\ \A c, d \in Controllers : My(c).me = My(d).me /\ My(c).me # 0 => c = d

\* A start that has no identity yet will mint one that no process has.
Novel(c) == My(c).pc \in Early => \A k \in DOMAIN child : child[k].id.nonce # My(c).me

\* An identity is a process's or the start's own; whoever had it before is dead.
Given(c) ==
  My(c).pc \in {"claim", "spawn"} =>
    /\ \/ \E k \in DOMAIN child : child[k].id = My(c).id
       \/ My(c).id.nonce = My(c).me
    /\ Unshared => \A k \in DOMAIN child : child[k].id = My(c).id => child[k].pc = "dead"

\* A start that spawns under a new identity holds the claim.
Holds(c) ==
  My(c).pc = "spawn" /\ (\A k \in DOMAIN child : child[k].id # My(c).id) =>
    claim = My(c).id

\* So does one whose process lives; that process is nobody else's and not recorded.
Awaits(c) ==
  My(c).pc = "handshake" =>
    /\ Unshared /\ child[My(c).pid].pc # "dead" => claim = My(c).id
    /\ record # None => record.pid # My(c).pid
    /\ gate # None /\ gate.position = "OPEN" /\ gate.scheduler # None =>
         gate.scheduler.pid # My(c).pid
    /\ \A d \in Controllers : My(d).pc = "handshake" /\ My(d).pid = My(c).pid => c = d

\* An open gate names a process that was spawned.
Named ==
  gate # None /\ gate.position = "OPEN" /\ gate.scheduler # None =>
    gate.scheduler.pid \in DOMAIN child

\* The claim is the recorded process's as long as it lives.
Recorded ==
  record # None =>
    /\ child[record.pid].id = IdentityOf(record)
    /\ Unshared /\ child[record.pid].pc # "dead" => claim = IdentityOf(record)

\* The receipts and the processes agree.
Ticked ==
  /\ \A k \in pending : child[k].pc \in {"pass", "dead"}
  /\ full => \A k \in DOMAIN child : child[k].pc = "pass" => k \in pending
  /\ terminal # None =>
       /\ \E k \in DOMAIN child : child[k].id = terminal.id
       /\ Unshared => \A k \in DOMAIN child : child[k].id = terminal.id =>
            child[k].pc \in {"ended", "dead"} /\ k \notin pending

\* While one process is in a pass, nobody who waits holds the claim.
Waits ==
  \A j, k \in DOMAIN child :
    j # k /\ child[j].pc = "pass" /\ child[k].pc = "waiting" => claim # child[k].id

Alone ==
  \A j, k \in DOMAIN child : child[j].pc = "pass" /\ child[k].pc = "pass" => j = k

\* A gate that is open names the only process in a pass.
Opened ==
  /\ gate # None /\ gate.position = "OPEN" /\ ~gate.recovery
  /\ gate.scheduler # None /\ record = gate.scheduler /\ child[record.pid].pc # "dead"
  => \A k \in DOMAIN child : child[k].pc = "pass" => k = record.pid

DayInv ==
  /\ TypeInv
  /\ Nonces
  /\ \A c \in Controllers : Novel(c) /\ Given(c) /\ Holds(c) /\ Awaits(c)
  /\ Named
  /\ Recorded
  /\ Ticked
  /\ Unshared /\ full => Waits /\ Alone /\ Opened
-----------------------------------------------------------------------------
(* Helpers *)

\* The constants.
LEMMA Bounds ==
  /\ MaxStarts \in Nat /\ MaxStops \in Nat /\ MaxChildren \in Nat
  /\ MaxTimeouts \in Nat /\ MaxCrashes \in Nat /\ None \notin Identity
BY DayAssumption

\* The controllers but c stay as they are.
Others(c) == \A d \in Controllers : d # c => control'[d] = control[d]

\* A controller that becomes m.
LEMMA Becomes ==
  ASSUME TypeInv, NEW c \in Controllers, NEW m \in Controller,
         control' = [control EXCEPT ![c] = m]
  PROVE  /\ control' \in [Controllers -> Controller]
         /\ control'[c] = m /\ Others(c)
BY DEF TypeInv, Staff, Others

\* A controller that is Idle again.
LEMMA Leaves ==
  ASSUME TypeInv, NEW c \in Controllers, Quit(c)
  PROVE  /\ control' \in [Controllers -> Controller]
         /\ control'[c] = Idle /\ Others(c) /\ Idle \in Controller
<1>1. Idle \in Controller
  BY Bounds DEF Idle, Controller, Pc
<1>2. QED
  BY <1>1, Becomes DEF Quit

\* A controller that goes on.
LEMMA GoesOn ==
  ASSUME TypeInv, NEW c \in Controllers, NEW pc \in Pc, Goto(c, pc)
  PROVE  /\ control' \in [Controllers -> Controller]
         /\ control'[c] = [control[c] EXCEPT !.pc = pc] /\ Others(c)
<1>1. control[c] \in Controller
  BY DEF TypeInv, Staff
<1>2. [control[c] EXCEPT !.pc = pc] \in Controller
  BY <1>1, Zenon DEF Controller
<1>3. control' = [control EXCEPT ![c] = [control[c] EXCEPT !.pc = pc]]
  BY DEF Goto, TypeInv, Staff
<1>4. QED
  BY <1>2, <1>3, Becomes

\* A controller that goes on with something not proven.
LEMMA GoesOnDirty ==
  ASSUME TypeInv, NEW c \in Controllers, NEW pc \in Pc, Dirty(c, pc)
  PROVE  /\ control' \in [Controllers -> Controller]
         /\ control'[c] = [control[c] EXCEPT !.pc = pc, !.clean = FALSE] /\ Others(c)
<1>1. control[c] \in Controller
  BY DEF TypeInv, Staff
<1>2. [control[c] EXCEPT !.pc = pc, !.clean = FALSE] \in Controller
  BY <1>1, Zenon DEF Controller
<1>3. control' = [control EXCEPT ![c] = [control[c] EXCEPT !.pc = pc, !.clean = FALSE]]
  BY DEF Dirty, TypeInv, Staff
<1>4. QED
  BY <1>2, <1>3, Becomes

\* A stop that goes on without a proof that its scheduler ended.
LEMMA GoesOnUnproven ==
  ASSUME TypeInv, NEW c \in Controllers, NEW pc \in Pc, Unproven(c, pc)
  PROVE  /\ control' \in [Controllers -> Controller]
         /\ control'[c] = [control[c] EXCEPT !.pc = pc, !.clean = FALSE, !.proven = FALSE]
         /\ Others(c)
<1>1. control[c] \in Controller
  BY DEF TypeInv, Staff
<1>2. [control[c] EXCEPT !.pc = pc, !.clean = FALSE, !.proven = FALSE] \in Controller
  BY <1>1, Zenon DEF Controller
<1>3. control' = [control EXCEPT ![c] =
                    [control[c] EXCEPT !.pc = pc, !.clean = FALSE, !.proven = FALSE]]
  BY DEF Unproven, TypeInv, Staff
<1>4. QED
  BY <1>2, <1>3, Becomes

\* A start that is done with its scheduler.
LEMMA Settles ==
  ASSUME TypeInv, NEW c \in Controllers, NEW ok, Settled(c, ok)
  PROVE  /\ control' \in [Controllers -> Controller] /\ Others(c)
         /\ control'[c].pc = "license" /\ control'[c].me = control[c].me
<1>1. control[c] \in Controller
  BY DEF TypeInv, Staff
<1>2. Worse(control[c].state, ok) \in {"READY", "DEGRADED", "BLOCKED"}
  BY <1>1 DEF Worse, Controller
<1>3. PICK m : m = [control[c] EXCEPT !.pc = "license", !.id = None, !.pid = 0,
                                      !.state = Worse(control[c].state, ok)]
  OBVIOUS
<1>4. m \in Controller /\ m.pc = "license" /\ m.me = control[c].me
  <2>1. 0 \in 0 .. MaxChildren /\ "license" \in Pc
    BY Bounds DEF Pc
  <2>2. m \in Controller
    BY <1>1, <1>2, <1>3, <2>1, Zenon DEF Controller
  <2>3. m.pc = "license" /\ m.me = control[c].me
    BY <1>1, <1>3 DEF Controller
  <2>4. QED
    BY <2>2, <2>3
<1>5. control' = [control EXCEPT ![c] = m]
  BY <1>3 DEF Settled, TypeInv, Staff
<1>6. QED
  BY <1>4, <1>5, Becomes

\* A process that becomes p.
LEMMA Turns ==
  ASSUME TypeInv, NEW k \in DOMAIN child, NEW p \in Process,
         child' = [child EXCEPT ![k] = p]
  PROVE  /\ child' \in Seq(Process) /\ Len(child') = Len(child)
         /\ DOMAIN child' = DOMAIN child
         /\ child'[k] = p
         /\ \A j \in DOMAIN child : j # k => child'[j] = child[j]
BY DEF TypeInv, Processes

\* A process that goes on, with what is known of its last pass.
LEMMA Goes ==
  ASSUME TypeInv, NEW k \in DOMAIN child,
         \/ \E pc \in {"new", "waiting", "pass", "ending", "ended", "dead"} : Become(k, pc)
         \/ \E clean \in BOOLEAN : Finish(k, clean)
  PROVE  /\ child' \in Seq(Process) /\ Len(child') = Len(child)
         /\ DOMAIN child' = DOMAIN child
         /\ \A j \in DOMAIN child : child'[j].id = child[j].id
         /\ \A j \in DOMAIN child : j # k => child'[j] = child[j]
<1>1. child[k] \in Process
  BY DEF TypeInv, Processes
<1>2. CASE \E pc \in {"new", "waiting", "pass", "ending", "ended", "dead"} : Become(k, pc)
  <2>1. PICK pc \in {"new", "waiting", "pass", "ending", "ended", "dead"} : Become(k, pc)
    BY <1>2
  <2>2. [child[k] EXCEPT !.pc = pc] \in Process
    BY <1>1, <2>1, Zenon DEF Process
  <2>3. child' = [child EXCEPT ![k] = [child[k] EXCEPT !.pc = pc]]
    BY <2>1 DEF Become, TypeInv, Processes
  <2>4. child'[k].id = child[k].id
    BY <1>1, <2>2, <2>3, Turns DEF Process
  <2>5. QED
    BY <2>2, <2>3, <2>4, Turns
<1>3. CASE \E clean \in BOOLEAN : Finish(k, clean)
  <2>1. PICK clean \in BOOLEAN : Finish(k, clean)
    BY <1>3
  <2>2. [child[k] EXCEPT !.pc = "ending", !.clean = clean] \in Process
    BY <1>1, <2>1, Zenon DEF Process
  <2>3. child' = [child EXCEPT ![k] = [child[k] EXCEPT !.pc = "ending", !.clean = clean]]
    BY <2>1 DEF Finish, TypeInv, Processes
  <2>4. child'[k].id = child[k].id
    BY <1>1, <2>2, <2>3, Turns DEF Process
  <2>5. QED
    BY <2>2, <2>3, <2>4, Turns
<1>4. QED
  BY <1>2, <1>3

-----------------------------------------------------------------------------
(* The steps of a controller that touch neither a process nor its record *)

\* A gate that a step leaves open was open, or is written from the record.
GateStep ==
  gate' # None /\ gate'.position = "OPEN" =>
    /\ \/ gate'.scheduler \in {record, None}
       \/ gate # None /\ gate.position = "OPEN" /\ gate'.scheduler = gate.scheduler
    /\ \/ gate'.recovery \/ pending = {}
       \/ /\ gate # None /\ gate.position = "OPEN" /\ ~gate.recovery
          /\ gate'.scheduler = gate.scheduler

\* What such a step does to the files.
Plain ==
  /\ UNCHANGED <<full, child, record, claim, beat, terminal, pending, starts>>
  /\ lock' \in 0 .. MaxStarts
  /\ gate' \in Gate \cup {None}
  /\ watcher' \in Watcher \cup {None}
  /\ quiesce' \in Identity \cup {None}
  /\ stops' \in 0 .. MaxStops /\ timeouts' \in 0 .. MaxTimeouts
  /\ crashes' \in 0 .. MaxCrashes
  /\ GateStep

Quiet(c) ==
  /\ UNCHANGED <<full, child, record, claim, terminal, pending, starts>>
  /\ GateStep
  /\ Others(c)
  /\ control'[c].pc \notin Spawning
  /\ control'[c].me \in {0, control[c].me}
  /\ control'[c].pc \in Early =>
       control[c].pc \in Early /\ control'[c].me = control[c].me

\* What the controllers rely on survives as long as no process is forgotten.
LEMMA Staffed ==
  ASSUME TypeInv, NEW c \in Controllers, control' \in [Controllers -> Controller],
         Others(c), Sound(control'[c], child'),
         \A k \in DOMAIN child : k \in DOMAIN child' /\ child'[k].id = child[k].id
  PROVE  Staff'
<1>1. ASSUME NEW d \in Controllers PROVE Sound(control'[d], child')
  <2>1. CASE d = c
    BY <2>1
  <2>2. CASE d # c
    <3>1. control'[d] = control[d] /\ Sound(control[d], child)
      BY <2>2 DEF Others, TypeInv, Staff
    <3>2. QED
      BY <3>1 DEF Sound
  <2>3. QED
    BY <2>1, <2>2
<1>2. QED
  BY <1>1 DEF Staff

LEMMA Quietly ==
  ASSUME TypeInv, NEW c \in Controllers, control' \in [Controllers -> Controller],
         Others(c), Sound(control'[c], child), Plain,
         control'[c].pc \notin Spawning,
         control'[c].me \in {0, control[c].me},
         control'[c].pc \in Early =>
           control[c].pc \in Early /\ control'[c].me = control[c].me
  PROVE  TypeInv' /\ Quiet(c)
<1>1. child' = child
  BY DEF Plain
<1>2. Staff'
  BY <1>1, Staffed
<1>3. Files' /\ Processes' /\ Counted'
  BY DEF Plain, TypeInv, Files, Processes, Counted
<1>4. QED
  BY <1>2, <1>3 DEF TypeInv, Plain, Quiet

\* Nothing is expected of a controller at these.
Calm == (Closing \ {"drain"}) \cup {"idle", "license"}

LEMMA Calmly ==
  ASSUME TypeInv, NEW c \in Controllers, Plain,
         \/ Quit(c)
         \/ \E pc \in Calm : Goto(c, pc) \/ Dirty(c, pc) \/ Unproven(c, pc)
  PROVE  TypeInv' /\ Quiet(c)
<1>0. Calm \subseteq Pc /\ Calm \cap (Early \cup Spawning \cup {"drain"}) = {}
  BY DEF Calm, Pc, Closing, Early, Spawning
<1>1. CASE Quit(c)
  <2>1. control' \in [Controllers -> Controller] /\ Others(c) /\ control'[c] = Idle
    BY <1>1, Leaves
  <2>2. Idle.pc = "idle" /\ Idle.me = 0
    BY DEF Idle
  <2>3. Sound(control'[c], child)
    BY <2>1, <2>2 DEF Sound, Early, Spawning
  <2>4. control'[c].pc \notin Early \cup Spawning
    BY <2>1, <2>2 DEF Early, Spawning
  <2>5. QED
    BY <2>1, <2>2, <2>3, <2>4, Quietly
<1>2. ASSUME NEW pc \in Calm, Goto(c, pc) \/ Dirty(c, pc) \/ Unproven(c, pc)
      PROVE  TypeInv' /\ Quiet(c)
  <2>0. control[c] \in Controller
    BY DEF TypeInv, Staff
  <2>1. pc \in Pc
    BY <1>0
  <2>2. /\ control' \in [Controllers -> Controller] /\ Others(c)
        /\ control'[c].pc = pc /\ control'[c].me = control[c].me
    <3>1. CASE Goto(c, pc)
      <4>1. /\ control' \in [Controllers -> Controller] /\ Others(c)
            /\ control'[c] = [control[c] EXCEPT !.pc = pc]
        BY <2>1, <3>1, GoesOn
      <4>2. control'[c].pc = pc /\ control'[c].me = control[c].me
        BY <2>0, <4>1 DEF Controller
      <4>3. QED
        BY <4>1, <4>2
    <3>2. CASE Dirty(c, pc)
      <4>1. /\ control' \in [Controllers -> Controller] /\ Others(c)
            /\ control'[c] = [control[c] EXCEPT !.pc = pc, !.clean = FALSE]
        BY <2>1, <3>2, GoesOnDirty, Zenon
      <4>2. control'[c].pc = pc /\ control'[c].me = control[c].me
        BY <2>0, <4>1 DEF Controller
      <4>3. QED
        BY <4>1, <4>2
    <3>3. CASE Unproven(c, pc)
      <4>1. /\ control' \in [Controllers -> Controller] /\ Others(c)
            /\ control'[c] = [control[c] EXCEPT !.pc = pc, !.clean = FALSE, !.proven = FALSE]
        BY <2>1, <3>3, GoesOnUnproven, Zenon
      <4>2. control'[c].pc = pc /\ control'[c].me = control[c].me
        BY <2>0, <4>1 DEF Controller
      <4>3. QED
        BY <4>1, <4>2
    <3>4. QED
      BY <1>2, <3>1, <3>2, <3>3
  <2>3. Sound(control'[c], child)
    BY <1>0, <2>2 DEF Sound, Early, Spawning
  <2>4. control'[c].pc \notin Early \cup Spawning
    BY <1>0, <2>2
  <2>5. QED
    BY <2>2, <2>3, <2>4, Quietly
<1>3. QED
  BY <1>1, <1>2

\* The gate that GateOf writes.
LEMMA GateMade ==
  ASSUME TypeInv, NEW position \in {"OPEN", "PROOF_ONLY", "CLOSED"},
         NEW s \in 0 .. MaxStarts, gate' = GateOf(position, s)
  PROVE  gate' \in Gate /\ GateStep
<1>1. lock \in 0 .. MaxStarts /\ Licensed(s) \in {record, None}
      /\ record \in Record \cup {None}
  BY DEF TypeInv, Files, Licensed
<1>2. PICK b \in BOOLEAN : b = MustRecover
  BY Zenon DEF MustRecover
<1>3. PICK r \in Record \cup {None} : r = Licensed(s)
  BY <1>1
<1>4. gate' = [position |-> position, session |-> s, token |-> lock, recovery |-> b,
               scheduler |-> r]
  BY <1>2, <1>3 DEF GateOf
<1>5. gate' \in Gate
  BY <1>1, <1>4 DEF Gate
<1>6. ASSUME pending # {} PROVE b
  <2>1. MustRecover
    BY <1>6 DEF MustRecover
  <2>2. QED
    BY <1>2, <2>1, Zenon
<1>7. gate'.scheduler \in {record, None} /\ gate'.recovery = b
  BY <1>1, <1>3, <1>4
<1>8. QED
  BY <1>5, <1>6, <1>7 DEF GateStep

\* A gate that stays, and one that is closed or withdrawn.
LEMMA GateKept ==
  ASSUME TypeInv, gate' = gate
  PROVE  gate' \in Gate \cup {None} /\ GateStep
BY DEF TypeInv, Files, GateStep

LEMMA GateShut ==
  ASSUME gate' = None \/ gate'.position # "OPEN"
  PROVE  GateStep
BY DEF GateStep

\* The files as a step leaves them that writes none but these.
LEMMA Leaving ==
  ASSUME TypeInv, UNCHANGED <<full, child, record, claim, beat, terminal, pending, starts>>,
         lock' \in {lock, 0}, gate' \in Gate \cup {None}, GateStep,
         watcher' \in {watcher, None},
         quiesce' = quiesce, stops' = stops, timeouts' = timeouts,
         crashes' \in 0 .. MaxCrashes
  PROVE  Plain
BY Bounds DEF TypeInv, Files, Counted, Plain

\* A controller is a record of its type, and the files have theirs.
LEMMA Typed ==
  ASSUME TypeInv, NEW c \in Controllers
  PROVE  /\ control[c] \in Controller /\ Sound(control[c], child)
         /\ control[c].session \in 0 .. MaxStarts
         /\ control[c].prior \in Gate \cup {None}
         /\ gate \in Gate \cup {None} /\ lock \in 0 .. MaxStarts
         /\ watcher \in Watcher \cup {None}
         /\ crashes \in 0 .. MaxCrashes
BY DEF TypeInv, Staff, Files, Counted, Controller

\* The ends of a start.
LEMMA StartEnds ==
  ASSUME TypeInv, NEW c \in Controllers,
         StartMisconfigured(c) \/ BrokerFails(c) \/ Relicense(c)
  PROVE  TypeInv' /\ Quiet(c)
<1>1. PICK position \in {"OPEN", "PROOF_ONLY", "CLOSED"} :
        gate' = GateOf(position, control[c].session)
  <2>1. control[c].state \in {"READY", "DEGRADED", "BLOCKED"}
    BY Typed DEF Controller
  <2>2. Position(control[c].state) \in {"OPEN", "PROOF_ONLY", "CLOSED"}
    BY <2>1 DEF Position
  <2>3. QED
    BY <2>2 DEF StartMisconfigured, BrokerFails, Relicense, My
<1>2. gate' \in Gate /\ GateStep
  BY <1>1, Typed, GateMade
<1>3. Quit(c) /\ UNCHANGED <<full, lock, watcher, shutdown, sched, pending, child, bounds>>
  BY DEF StartMisconfigured, BrokerFails, Relicense
<1>4. Plain
  BY <1>2, <1>3, Typed, Leaving DEF sched, bounds
<1>5. QED
  BY <1>3, <1>4, Calmly

\* The steps of a stop that write no file.
LEMMA StopGoesOn ==
  ASSUME TypeInv, NEW c \in Controllers,
         \/ TakenOver(c) \/ NoRecord(c) \/ LeaveAlone(c) \/ Abandon(c)
         \/ CancelEntries(c) \/ SettleHandoffs(c) \/ FinalAudit(c) \/ AskReviewer(c)
         \/ CompareLock(c)
  PROVE  TypeInv' /\ Quiet(c)
<1>1. UNCHANGED <<full, day, sched, pending, child, bounds>>
  BY DEF TakenOver, NoRecord, LeaveAlone, Abandon, CancelEntries, SettleHandoffs,
         FinalAudit, AskReviewer, Phase, CompareLock
<1>2. Plain
  BY <1>1, GateKept, Typed, Leaving DEF day, sched, bounds
<1>3. {"settle", "audit", "reviewer", "watcher", "releasing"} \subseteq Calm /\ Torn(c) \in Calm
  BY DEF Calm, Closing, Torn
<1>4. Quit(c) \/ \E pc \in Calm : Goto(c, pc) \/ Dirty(c, pc) \/ Unproven(c, pc)
  BY <1>3 DEF TakenOver, NoRecord, LeaveAlone, Abandon, CancelEntries, SettleHandoffs,
              FinalAudit, AskReviewer, Phase, CompareLock
<1>5. QED
  BY <1>2, <1>4, Calmly

\* A gate that is not written but amended.
LEMMA Amended ==
  ASSUME TypeInv, gate # None
  PROVE  /\ [gate EXCEPT !.recovery = TRUE] \in Gate
         /\ [gate EXCEPT !.recovery = FALSE] \in Gate
<1>1. gate \in Gate
  BY DEF TypeInv, Files
<1>2. QED
  BY <1>1, Zenon DEF Gate

\* The steps of a stop that write the gate.
LEMMA StopWritesGate ==
  ASSUME TypeInv, NEW c \in Controllers, ShutGate(c) \/ CheckOwner(c) \/ MarkRecovery(c)
  PROVE  TypeInv' /\ Quiet(c)
<1>1. UNCHANGED <<full, lock, watcher, shutdown, sched, pending, child, bounds>>
  BY DEF ShutGate, CheckOwner, MarkRecovery
<1>2. gate' \in Gate \cup {None} /\ GateStep
  <2>1. CASE ShutGate(c)
    <3>0. PICK prior \in Gate \cup {None} : prior = control[c].prior
      BY Typed
    <3>1. PICK b \in BOOLEAN : b = (prior # None /\ prior.recovery)
      BY Zenon
    <3>2. PICK r \in Record \cup {None} : r = IF prior = None THEN None ELSE prior.scheduler
      BY DEF Gate
    <3>3. gate' = [position |-> "CLOSED", session |-> control[c].session,
                   token |-> control[c].session, recovery |-> b, scheduler |-> r]
      BY <2>1, <3>0, <3>1, <3>2 DEF ShutGate, My
    <3>4. gate' \in Gate
      BY <3>3, Typed DEF Gate
    <3>5. gate'.position # "OPEN"
      BY <3>3
    <3>6. QED
      BY <3>4, <3>5, GateShut
  <2>2. CASE CheckOwner(c)
    <3>1. gate' \in {gate, None}
      BY <2>2 DEF CheckOwner
    <3>2. QED
      BY <3>1, GateKept, GateShut
  <2>3. CASE MarkRecovery(c)
    <3>1. CASE gate' = gate
      BY <3>1, GateKept
    <3>2. CASE gate # None /\ gate' = [gate EXCEPT !.recovery = TRUE]
      <4>1. gate \in Gate
        BY <3>2, Typed
      <4>2. gate' \in Gate
        BY <3>2, Amended
      <4>3. gate'.position = gate.position /\ gate'.scheduler = gate.scheduler
        BY <3>2, <4>1 DEF Gate
      <4>4. gate'.recovery
        BY <3>2, <4>1 DEF Gate
      <4>5. QED
        BY <3>2, <4>2, <4>3, <4>4 DEF GateStep
    <3>3. QED
      BY <2>3, <3>1, <3>2 DEF MarkRecovery
  <2>4. QED
    BY <2>1, <2>2, <2>3
<1>3. Plain
  BY <1>1, <1>2, Typed, Leaving DEF sched, bounds
<1>4. {"quiesce", "release"} \subseteq Calm
  BY DEF Calm, Closing
<1>5. CASE ShutGate(c)
  <2>1. control[c] \in Controller
    BY Typed
  <2>2. PICK m : m = [control[c] EXCEPT !.pc = "shutting", !.prior = None]
    OBVIOUS
  <2>3. "shutting" \in Pc /\ None \in Gate \cup {None}
    BY DEF Pc, Closing
  <2>4. m \in Controller
    BY <2>1, <2>2, <2>3, Zenon DEF Controller
  <2>5. m.pc = "shutting" /\ m.me = control[c].me
    BY <2>1, <2>2 DEF Controller
  <2>6. control' = [control EXCEPT ![c] = m]
    BY <1>5, <2>2 DEF ShutGate, TypeInv, Staff
  <2>7. control' \in [Controllers -> Controller] /\ Others(c) /\ control'[c] = m
    BY <2>4, <2>6, Becomes
  <2>8. m.pc \notin Early \cup Spawning \cup {"drain"}
    BY <2>5 DEF Early, Spawning
  <2>9. Sound(m, child)
    BY <2>5, <2>8 DEF Sound
  <2>10. QED
    BY <1>3, <2>5, <2>7, <2>8, <2>9, Quietly
<1>6. CASE CheckOwner(c) \/ MarkRecovery(c)
  <2>1. Quit(c) \/ \E pc \in Calm : Goto(c, pc)
    BY <1>4, <1>6 DEF CheckOwner, MarkRecovery
  <2>2. QED
    BY <1>3, <2>1, Calmly
<1>7. QED
  BY <1>5, <1>6

\* The end of a stop, and the death of a controller.
LEMMA StopEnds ==
  ASSUME TypeInv, NEW c \in Controllers,
         StopWatcher(c) \/ UnlinkLock(c) \/ Publish(c) \/ Withdraw(c) \/ ControllerDies(c)
  PROVE  TypeInv' /\ Quiet(c)
<1>1. /\ UNCHANGED <<full, gate, sched, pending, child, starts, stops, timeouts>>
      /\ lock' \in {lock, 0} /\ watcher' \in {watcher, None}
      /\ crashes' \in 0 .. MaxCrashes
  BY Typed, Bounds DEF StopWatcher, UnlinkLock, Publish, Withdraw, ControllerDies, Crash,
                       day, bounds
<1>2. Plain
  BY <1>1, GateKept, Leaving DEF sched
<1>3. {"mark", "publish", "published"} \subseteq Calm
  BY DEF Calm, Closing
<1>4. Quit(c) \/ \E pc \in Calm : Goto(c, pc) \/ Dirty(c, pc)
  BY <1>3 DEF StopWatcher, UnlinkLock, Publish, Withdraw, ControllerDies
<1>5. QED
  BY <1>2, <1>4, Calmly

\* A start that goes on to its next look at the files.
LEMMA Earlier ==
  ASSUME TypeInv, NEW c \in Controllers, Plain, control[c].pc \in Early,
         NEW m \in Controller, control' = [control EXCEPT ![c] = m],
         m.pc \in Early, m.me = control[c].me, m.session \in Start
  PROVE  TypeInv' /\ Quiet(c)
<1>1. control' \in [Controllers -> Controller] /\ Others(c) /\ control'[c] = m
  BY Becomes
<1>2. m.me \in Start
  BY Typed DEF Sound
<1>3. m.pc \notin Spawning \cup {"drain"}
  BY DEF Early, Spawning
<1>4. Sound(m, child)
  BY <1>2, <1>3 DEF Sound, Early, Spawning
<1>5. QED
  BY <1>1, <1>3, <1>4, Quietly

\* A start that is done with its scheduler, or has none.
LEMMA SettlesCalmly ==
  ASSUME TypeInv, NEW c \in Controllers, Plain, NEW ok, Settled(c, ok)
  PROVE  TypeInv' /\ Quiet(c)
<1>1. /\ control' \in [Controllers -> Controller] /\ Others(c)
      /\ control'[c].pc = "license" /\ control'[c].me = control[c].me
  BY Settles
<1>2. control'[c].pc \notin Early \cup Spawning \cup {"drain"}
  BY <1>1 DEF Early, Spawning
<1>3. Sound(control'[c], child)
  BY <1>2 DEF Sound, Early, Spawning
<1>4. QED
  BY <1>1, <1>2, <1>3, Quietly

\* The acquisition of the lock.
LEMMA StartLocks ==
  ASSUME TypeInv, NEW c \in Controllers,
         ReadLock(c) \/ FenceGate(c) \/ UnlinkStale(c) \/ LinkLock(c)
  PROVE  TypeInv' /\ Quiet(c)
<1>0. /\ control[c] \in Controller /\ control[c].pc \in Early
      /\ control[c].session \in Start /\ control[c].me \in Start
  <2>1. control[c].pc \in Early
    BY DEF ReadLock, FenceGate, UnlinkStale, LinkLock, At, Early
  <2>2. QED
    BY <2>1, Typed DEF Sound
<1>1. CASE ReadLock(c)
  <2>1. Plain
    BY <1>1, GateKept, Typed, Leaving DEF ReadLock, day, sched, bounds
  <2>2. CASE lock # 0 /\ WatcherHolds(lock)
    <3>1. lock \in Start
      BY <2>2, Typed, Bounds DEF Start
    <3>2. PICK m : m = [control[c] EXCEPT !.pc = "broker", !.session = lock]
      OBVIOUS
    <3>3. "broker" \in Pc \cap Early /\ lock \in 0 .. MaxStarts
      BY Typed DEF Pc, Early
    <3>4. m \in Controller
      BY <1>0, <3>2, <3>3, Zenon DEF Controller
    <3>5. m.pc = "broker" /\ m.session = lock /\ m.me = control[c].me
      BY <1>0, <3>2 DEF Controller
    <3>6. control' = [control EXCEPT ![c] = m]
      BY <1>1, <2>2, <3>2 DEF ReadLock, TypeInv, Staff
    <3>7. QED
      BY <1>0, <2>1, <3>1, <3>3, <3>4, <3>5, <3>6, Earlier
  <2>3. CASE ~(lock # 0 /\ WatcherHolds(lock))
    <3>1. PICK pc \in {"stale", "absent"} : pc = IF lock # 0 THEN "stale" ELSE "absent"
      OBVIOUS
    <3>2. PICK m : m = [control[c] EXCEPT !.pc = pc, !.prior = gate]
      OBVIOUS
    <3>3. pc \in Pc \cap Early /\ gate \in Gate \cup {None}
      BY Typed DEF Pc, Early
    <3>4. m \in Controller
      BY <1>0, <3>2, <3>3, Zenon DEF Controller
    <3>5. m.pc = pc /\ m.session = control[c].session /\ m.me = control[c].me
      BY <1>0, <3>2 DEF Controller
    <3>6. control' = [control EXCEPT ![c] = m]
      BY <1>1, <2>3, <3>1, <3>2 DEF ReadLock, TypeInv, Staff
    <3>7. QED
      BY <1>0, <2>1, <3>3, <3>4, <3>5, <3>6, Earlier
  <2>4. QED
    BY <2>2, <2>3
<1>2. CASE FenceGate(c)
  <2>1. control[c].prior \in Gate \cup {None}
    BY Typed
  <2>2. gate' \in Gate \cup {None} /\ GateStep
    <3>1. CASE gate' = gate
      BY <3>1, GateKept
    <3>2. CASE /\ control[c].prior # None
               /\ gate' = [control[c].prior EXCEPT !.position = "CLOSED", !.recovery = TRUE]
      <4>1. control[c].prior \in Gate
        BY <2>1, <3>2
      <4>2. gate' \in Gate
        BY <3>2, <4>1, Zenon DEF Gate
      <4>3. gate'.position = "CLOSED"
        BY <3>2, <4>1 DEF Gate
      <4>4. QED
        BY <4>2, <4>3, GateShut
    <3>3. QED
      BY <1>2, <3>1, <3>2 DEF FenceGate, My
  <2>3. Plain
    BY <1>2, <2>2, Typed, Leaving DEF FenceGate, sched, bounds
  <2>4. PICK pc \in {"unlink", "link"} : pc = IF control[c].pc = "stale" THEN "unlink" ELSE "link"
    OBVIOUS
  <2>5. PICK m : m = [control[c] EXCEPT !.pc = pc, !.prior = None]
    OBVIOUS
  <2>6. pc \in Pc \cap Early /\ pc \notin {"stale", "absent"}
        /\ None \in Gate \cup {None}
    BY DEF Pc, Early
  <2>7. m \in Controller
    BY <1>0, <2>5, <2>6, Zenon DEF Controller
  <2>8. m.pc = pc /\ m.session = control[c].session /\ m.me = control[c].me
    BY <1>0, <2>5 DEF Controller
  <2>9. control' = [control EXCEPT ![c] = m]
    BY <1>0, <1>2, <2>4, <2>5 DEF FenceGate, TypeInv, Staff, Controller
  <2>10. QED
    BY <1>0, <2>3, <2>6, <2>7, <2>8, <2>9, Earlier
<1>3. CASE UnlinkStale(c)
  <2>1. Plain
    BY <1>3, GateKept, Typed, Leaving DEF UnlinkStale, sched, bounds
  <2>2. "link" \in Pc \cap Early
    BY DEF Pc, Early
  <2>3. PICK m : m = [control[c] EXCEPT !.pc = "link"]
    OBVIOUS
  <2>4. m \in Controller
    BY <1>0, <2>2, <2>3, Zenon DEF Controller
  <2>5. m.pc = "link" /\ m.session = control[c].session /\ m.me = control[c].me
    BY <1>0, <2>3 DEF Controller
  <2>6. control' = [control EXCEPT ![c] = m]
    BY <1>3, <2>3 DEF UnlinkStale, Goto, TypeInv, Staff
  <2>7. QED
    BY <1>0, <2>1, <2>2, <2>4, <2>5, <2>6, Earlier
<1>4. CASE LinkLock(c)
  <2>1. Plain
    <3>1. /\ UNCHANGED <<full, gate, watcher, shutdown, sched, pending, child, bounds>>
          /\ lock' \in 0 .. MaxStarts
      BY <1>4, Typed DEF LinkLock, My
    <3>2. gate' \in Gate \cup {None} /\ GateStep
      BY <3>1, GateKept
    <3>3. QED
      BY <3>1, <3>2 DEF Plain, TypeInv, Files, Counted, sched, bounds
  <2>2. CASE Quit(c)
    BY <2>1, <2>2, Calmly
  <2>3. CASE Goto(c, "broker")
    <3>1. "broker" \in Pc \cap Early
      BY DEF Pc, Early
    <3>2. PICK m : m = [control[c] EXCEPT !.pc = "broker"]
      OBVIOUS
    <3>3. m \in Controller
      BY <1>0, <3>1, <3>2, Zenon DEF Controller
    <3>4. m.pc = "broker" /\ m.session = control[c].session /\ m.me = control[c].me
      BY <1>0, <3>2 DEF Controller
    <3>5. control' = [control EXCEPT ![c] = m]
      BY <2>3, <3>2 DEF Goto, TypeInv, Staff
    <3>6. QED
      BY <1>0, <2>1, <3>1, <3>3, <3>4, <3>5, Earlier
  <2>4. QED
    BY <1>4, <2>2, <2>3 DEF LinkLock
<1>5. QED
  BY <1>1, <1>2, <1>3, <1>4

\* The watcher, and the decision of the day.
LEMMA StartDecides ==
  ASSUME TypeInv, NEW c \in Controllers, EnsureWatcher(c) \/ Decide(c)
  PROVE  TypeInv' /\ Quiet(c)
<1>0. /\ control[c] \in Controller /\ control[c].pc \in Early
      /\ control[c].session \in Start
  <2>1. control[c].pc \in Early
    BY DEF EnsureWatcher, Decide, At, Early
  <2>2. QED
    BY <2>1, Typed DEF Sound
<1>1. /\ control[c].session \in 0 .. MaxStarts
      /\ control[c].state \in {"READY", "DEGRADED", "BLOCKED"}
  BY <1>0 DEF Controller
<1>2. Plain
  <2>1. CASE EnsureWatcher(c)
    <3>1. [session |-> lock, alive |-> TRUE] \in Watcher
      BY Typed DEF Watcher
    <3>2. watcher' \in Watcher \cup {None}
      BY <2>1, <3>1, Typed DEF EnsureWatcher
    <3>3. UNCHANGED <<full, lock, gate, shutdown, sched, pending, child, bounds>>
      BY <2>1 DEF EnsureWatcher
    <3>4. gate' \in Gate \cup {None} /\ GateStep
      BY <3>3, GateKept
    <3>5. QED
      BY <3>2, <3>3, <3>4 DEF Plain, TypeInv, Files, Counted, sched, bounds
  <2>2. CASE Decide(c)
    <3>1. PICK state : gate' = GateOf(Position(DayState(state)), control[c].session)
      BY <2>2 DEF Decide, My
    <3>2. Position(DayState(state)) \in {"OPEN", "PROOF_ONLY", "CLOSED"}
      BY DEF Position, DayState
    <3>3. gate' \in Gate \cup {None} /\ GateStep
      BY <1>1, <3>1, <3>2, GateMade
    <3>4. UNCHANGED <<full, lock, watcher, shutdown, sched, pending, child, bounds>>
      BY <2>2 DEF Decide
    <3>5. QED
      BY <3>3, <3>4, Typed, Leaving DEF sched, bounds
  <2>3. QED
    BY <2>1, <2>2
<1>3. PICK pc \in {"decide", "adopt"}, state \in {"READY", "DEGRADED", "BLOCKED"} :
        control' = [control EXCEPT ![c] = [control[c] EXCEPT !.pc = pc, !.state = state]]
  <2>1. CASE EnsureWatcher(c)
    <3>1. CASE Goto(c, "decide")
      <4>1. [control[c] EXCEPT !.pc = "decide"]
              = [control[c] EXCEPT !.pc = "decide", !.state = control[c].state]
        BY <1>0 DEF Controller
      <4>2. QED
        BY <1>1, <3>1, <4>1 DEF Goto, TypeInv, Staff
    <3>2. CASE control' = [control EXCEPT ![c].pc = "decide", ![c].state = "DEGRADED"]
      <4>1. control' = [control EXCEPT ![c] = [control[c] EXCEPT !.pc = "decide",
                                                                !.state = "DEGRADED"]]
        BY <3>2 DEF TypeInv, Staff
      <4>2. QED
        BY <4>1
    <3>3. QED
      BY <2>1, <3>1, <3>2 DEF EnsureWatcher
  <2>2. CASE Decide(c)
    <3>1. PICK s : control' = [control EXCEPT ![c].pc = "adopt", ![c].state = DayState(s)]
      BY <2>2 DEF Decide, My
    <3>2. DayState(s) \in {"READY", "DEGRADED", "BLOCKED"}
      BY DEF DayState
    <3>3. control' = [control EXCEPT ![c] = [control[c] EXCEPT !.pc = "adopt",
                                                              !.state = DayState(s)]]
      BY <3>1 DEF TypeInv, Staff
    <3>4. QED
      BY <3>2, <3>3
  <2>3. QED
    BY <2>1, <2>2
<1>4. PICK m : m = [control[c] EXCEPT !.pc = pc, !.state = state]
  OBVIOUS
<1>5. pc \in Pc \cap Early /\ pc \notin {"stale", "absent"}
  BY DEF Pc, Early
<1>6. m \in Controller
  BY <1>0, <1>4, <1>5, Zenon DEF Controller
<1>7. m.pc = pc /\ m.session = control[c].session /\ m.me = control[c].me
  BY <1>0, <1>4 DEF Controller
<1>8. QED
  BY <1>0, <1>2, <1>3, <1>4, <1>5, <1>6, <1>7, Earlier

\* A start that needs no scheduler of its own.
LEMMA StartAdopts ==
  ASSUME TypeInv, NEW c \in Controllers,
         NoScheduler(c) \/ (AdoptScheduler(c) /\ record # None /\ Alive(record.pid))
  PROVE  TypeInv' /\ Quiet(c)
<1>1. UNCHANGED <<full, day, sched, pending, child, bounds>>
  BY DEF NoScheduler, AdoptScheduler, sched
<1>2. Plain
  BY <1>1, GateKept, Typed, Leaving DEF day, sched, bounds
<1>3. Quit(c) \/ \E ok : Settled(c, ok)
  BY DEF NoScheduler, AdoptScheduler
<1>4. QED
  BY <1>2, <1>3, Calmly, SettlesCalmly

\* The beginning of a stop, and its request.
LEMMA StopBegins ==
  ASSUME TypeInv, Recorded, NEW c \in Controllers, BeginStop(c) \/ Quiesce(c)
  PROVE  TypeInv' /\ Quiet(c)
<1>1. CASE BeginStop(c)
  <2>1. stops' \in 0 .. MaxStops /\ UNCHANGED <<full, day, sched, pending, child, starts,
                                               timeouts, crashes>>
    BY <1>1, Bounds DEF BeginStop, TypeInv, Counted
  <2>2. gate' \in Gate \cup {None} /\ GateStep
    BY <2>1, GateKept DEF day
  <2>3. Plain
    BY <2>1, <2>2 DEF Plain, TypeInv, Files, Counted, day, sched
  <2>4. PICK m : m = [Idle EXCEPT !.pc = "shut", !.session = lock, !.prior = gate,
                                     !.seen = watcher]
    OBVIOUS
  <2>5. "shut" \in Pc /\ lock \in 0 .. MaxStarts /\ gate \in Gate \cup {None}
        /\ watcher \in Watcher \cup {None} /\ Idle \in Controller
    BY Typed, Bounds DEF Pc, Closing, Idle, Controller
  <2>6. m \in Controller
    BY <2>4, <2>5, Zenon DEF Controller
  <2>7. m.pc = "shut" /\ m.me = 0
    BY <2>4 DEF Idle
  <2>8. control' \in [Controllers -> Controller] /\ Others(c) /\ control'[c] = m
    BY <1>1, <2>4, <2>6, Becomes DEF BeginStop
  <2>9. m.pc \notin Early \cup Spawning \cup {"drain"}
    BY <2>7 DEF Early, Spawning
  <2>10. Sound(m, child)
    BY <2>9 DEF Sound, Early, Spawning
  <2>11. QED
    BY <2>3, <2>7, <2>8, <2>9, <2>10, Quietly
<1>2. CASE Quiesce(c)
  <2>1. /\ UNCHANGED <<full, day, record, claim, beat, terminal, pending, child, bounds>>
        /\ record # None /\ quiesce' = IdentityOf(record)
    BY <1>2 DEF Quiesce
  <2>2. /\ record \in Record /\ record.pid \in DOMAIN child
        /\ child[record.pid].id = IdentityOf(record)
    BY <2>1 DEF TypeInv, Files, Recorded
  <2>3. IdentityOf(record) \in Identity /\ record.pid \in 0 .. MaxChildren
    BY <2>2, Bounds DEF Record, IdentityOf, Identity
  <2>4. gate' \in Gate \cup {None} /\ GateStep
    BY <2>1, GateKept DEF day
  <2>5. Plain
    BY <2>1, <2>3, <2>4 DEF Plain, TypeInv, Files, Counted, day, bounds
  <2>6. CASE Unproven(c, Torn(c))
    BY <2>5, <2>6, Calmly DEF Torn, Calm, Closing
  <2>7. CASE control' = [control EXCEPT ![c].pc = "drain", ![c].id = IdentityOf(record),
                                        ![c].pid = record.pid]
    <3>1. PICK m : m = [control[c] EXCEPT !.pc = "drain", !.id = IdentityOf(record),
                                          !.pid = record.pid]
      OBVIOUS
    <3>2. "drain" \in Pc /\ control[c] \in Controller
      BY Typed DEF Pc, Closing
    <3>3. m \in Controller
      BY <2>3, <3>1, <3>2, Zenon DEF Controller
    <3>4. m.pc = "drain" /\ m.me = control[c].me /\ m.id = IdentityOf(record)
          /\ m.pid = record.pid
      BY <3>1, <3>2 DEF Controller
    <3>5. control' \in [Controllers -> Controller] /\ Others(c) /\ control'[c] = m
      <4>1. control' = [control EXCEPT ![c] = m]
        BY <2>7, <3>1 DEF TypeInv, Staff
      <4>2. QED
        BY <3>3, <4>1, Becomes
    <3>6. m.pc \notin Early \cup Spawning
      BY <3>4 DEF Early, Spawning
    <3>7. Sound(m, child)
      BY <2>2, <2>3, <3>4, <3>6 DEF Sound
    <3>8. QED
      BY <2>5, <3>4, <3>5, <3>6, <3>7, Quietly
  <2>8. QED
    BY <1>2, <2>6, <2>7 DEF Quiesce
<1>3. QED
  BY <1>1, <1>2

-----------------------------------------------------------------------------
(* Quiet steps preserve the invariant *)

\* Nothing that the invariant speaks of happens to this controller.
Keeps(d) ==
  \/ control'[d] = control[d]
  \/ /\ control'[d].pc \notin Spawning
     /\ control'[d].me \in {0, control[d].me}
     /\ control'[d].pc \in Early =>
          control[d].pc \in Early /\ control'[d].me = control[d].me

LEMMA QuietStep ==
  ASSUME DayInv, TypeInv', GateStep,
         UNCHANGED <<full, child, record, claim, terminal, pending, starts>>,
         \A d \in Controllers : Keeps(d)
  PROVE  DayInv'
<1>1. TypeInv /\ Nonces /\ Named /\ Recorded /\ Ticked
  BY DEF DayInv
<1>2. Unshared' = Unshared
  BY Zenon DEF Unshared
<1>3. \A d \in Controllers : control[d].me \in Nat /\ control'[d].me \in Nat /\ starts \in Nat
  <2>1. ASSUME NEW d \in Controllers PROVE control[d] \in Controller /\ control'[d] \in Controller
    BY <1>1 DEF TypeInv, Staff
  <2>2. ASSUME NEW m \in Controller PROVE m.me \in Nat
    BY Bounds DEF Controller
  <2>3. starts \in Nat
    BY <1>1, Bounds DEF TypeInv, Counted
  <2>4. QED
    BY <2>1, <2>2, <2>3
<1>4. Nonces'
  BY <1>1, <1>3 DEF Nonces, Keeps, My
<1>5. Recorded' /\ Ticked' /\ Named'
  <2>1. Recorded'
    BY <1>1, <1>2 DEF Recorded
  <2>2. Ticked'
    BY <1>1, <1>2 DEF Ticked
  <2>3. Named'
    BY <1>1 DEF Named, GateStep, TypeInv, Files
  <2>4. QED
    BY <2>1, <2>2, <2>3
<1>6. ASSUME NEW d \in Controllers PROVE (Novel(d) /\ Given(d) /\ Holds(d) /\ Awaits(d))'
  <2>1. Novel(d) /\ Given(d) /\ Holds(d) /\ Awaits(d)
    BY DEF DayInv
  <2>2. Novel(d)'
    BY <2>1 DEF Keeps, Novel, My
  <2>3. control'[d].pc \in Spawning => control'[d] = control[d]
    BY DEF Keeps
  <2>4. Given(d)'
    BY <1>2, <2>1, <2>3 DEF Given, My, Spawning
  <2>5. Holds(d)'
    BY <2>1, <2>3 DEF Holds, My, Spawning
  <2>6. Awaits(d)'
    <3>1. SUFFICES ASSUME control'[d].pc = "handshake" PROVE Awaits(d)'
      BY DEF Awaits, My
    <3>2. control'[d] = control[d] /\ control[d].pc = "handshake"
      BY <2>3, <3>1 DEF Spawning
    <3>3. Unshared' /\ child'[control'[d].pid].pc # "dead" => claim' = control'[d].id
      BY <1>2, <2>1, <3>2 DEF Awaits, My
    <3>4. record' # None => record'.pid # control'[d].pid
      BY <2>1, <3>2 DEF Awaits, My
    <3>5. gate' # None /\ gate'.position = "OPEN" /\ gate'.scheduler # None =>
            gate'.scheduler.pid # control'[d].pid
      BY <2>1, <3>2 DEF Awaits, My, GateStep
    <3>6. \A e \in Controllers :
             control'[e].pc = "handshake" /\ control'[e].pid = control'[d].pid => d = e
      BY <2>1, <3>2 DEF Awaits, My, Keeps, Spawning
    <3>7. QED
      BY <3>3, <3>4, <3>5, <3>6 DEF Awaits, My
  <2>7. QED
    BY <2>2, <2>4, <2>5, <2>6
<1>7. ASSUME (Unshared /\ full)' PROVE (Waits /\ Alone /\ Opened)'
  <2>1. Waits /\ Alone /\ Opened /\ full
    BY <1>2, <1>7 DEF DayInv
  <2>2. Waits' /\ Alone'
    BY <2>1 DEF Waits, Alone
  <2>3. Opened'
    BY <1>1, <2>1 DEF Opened, GateStep, Ticked
  <2>4. QED
    BY <2>2, <2>3
<1>8. QED
  BY <1>4, <1>5, <1>6, <1>7 DEF DayInv

\* The same for one controller.
LEMMA QuietOne ==
  ASSUME DayInv, NEW c \in Controllers, TypeInv' /\ Quiet(c)
  PROVE  DayInv'
<1>1. \A d \in Controllers : Keeps(d)
  BY DEF Quiet, Others, Keeps
<1>2. QED
  BY <1>1, QuietStep DEF Quiet

\* The watcher is no concern of the schedulers.
LEMMA WatcherGone ==
  ASSUME DayInv, WatcherDies
  PROVE  DayInv'
<1>1. TypeInv
  BY DEF DayInv
<1>2. watcher \in Watcher /\ crashes' \in 0 .. MaxCrashes
  BY <1>1, Bounds DEF WatcherDies, Crash, TypeInv, Files, Counted
<1>3. watcher' \in Watcher
  BY <1>2, Zenon DEF WatcherDies, Watcher
<1>4. UNCHANGED <<full, lock, gate, shutdown, sched, pending, control, child,
                  starts, stops, timeouts>>
  BY DEF WatcherDies
<1>5. TypeInv'
  BY <1>1, <1>2, <1>3, <1>4 DEF TypeInv, Files, Processes, Counted, Staff, sched
<1>6. GateStep
  BY <1>1, <1>4, GateKept
<1>7. \A d \in Controllers : Keeps(d)
  BY <1>4 DEF Keeps
<1>8. QED
  BY <1>4, <1>5, <1>6, <1>7, QuietStep DEF sched

-----------------------------------------------------------------------------
(* The steps of a controller that concern its scheduler *)

\* The parts of the invariant.
LEMMA Parts ==
  ASSUME DayInv
  PROVE  /\ TypeInv /\ Nonces /\ Named /\ Recorded /\ Ticked
         /\ \A c \in Controllers : Novel(c) /\ Given(c) /\ Holds(c) /\ Awaits(c)
         /\ Unshared /\ full => Waits /\ Alone /\ Opened
BY DEF DayInv

\* The numbers that the controllers' identities are made of.
LEMMA Numbered ==
  ASSUME TypeInv
  PROVE  /\ \A d \in Controllers : control[d].me \in Nat
         /\ starts \in Nat
         /\ \A k \in DOMAIN child :
              child[k] \in Process /\ child[k].id \in Identity /\ child[k].id.nonce \in Nat
<1>1. ASSUME NEW d \in Controllers PROVE control[d].me \in Nat
  BY Typed, Bounds DEF Controller
<1>2. ASSUME NEW k \in DOMAIN child
      PROVE  child[k] \in Process /\ child[k].id \in Identity /\ child[k].id.nonce \in Nat
  <2>1. child[k] \in Process
    BY DEF TypeInv, Processes
  <2>2. child[k].id \in Identity
    BY <2>1 DEF Process
  <2>3. child[k].id.nonce \in Nat
    BY <2>2, Bounds DEF Identity, Start
  <2>4. QED
    BY <2>1, <2>2, <2>3
<1>3. QED
  BY <1>1, <1>2, Bounds DEF TypeInv, Counted

\* A new start has a number that no other has.
LEMMA Begins ==
  ASSUME DayInv, NEW c \in Controllers, BeginStart(c)
  PROVE  DayInv'
<1>1. /\ TypeInv /\ Nonces /\ Named /\ Recorded /\ Ticked
      /\ \A d \in Controllers : Novel(d) /\ Given(d) /\ Holds(d) /\ Awaits(d)
  BY Parts
<1>2. /\ UNCHANGED <<full, day, sched, pending, child, stops, timeouts, crashes>>
      /\ starts' = starts + 1 /\ starts < MaxStarts
  BY DEF BeginStart
<1>3. starts' \in Start /\ starts' \in 0 .. MaxStarts /\ starts \in Nat
  BY <1>1, <1>2, Bounds DEF TypeInv, Counted, Start
<1>4. PICK m : m = [Idle EXCEPT !.pc = "start", !.me = starts', !.session = starts']
  OBVIOUS
<1>5. m \in Controller
  <2>1. Idle \in Controller /\ "start" \in Pc
    BY Bounds DEF Idle, Controller, Pc, Early
  <2>2. QED
    BY <1>3, <1>4, <2>1, Zenon DEF Controller
<1>6. m.pc = "start" /\ m.me = starts' /\ m.session = starts'
  BY <1>4 DEF Idle
<1>7. control' \in [Controllers -> Controller] /\ Others(c) /\ control'[c] = m
  BY <1>1, <1>4, <1>5, Becomes DEF BeginStart
<1>8. TypeInv'
  <2>1. Sound(control'[c], child')
    BY <1>3, <1>6, <1>7 DEF Sound, Early, Spawning
  <2>2. Staff'
    BY <1>1, <1>2, <1>7, <2>1, Staffed
  <2>3. Files' /\ Processes' /\ Counted'
    BY <1>1, <1>2, <1>3 DEF TypeInv, Files, Processes, Counted, day, sched
  <2>4. QED
    BY <2>2, <2>3 DEF TypeInv
<1>9. Nonces'
  <2>1. /\ \A d \in Controllers : control[d].me \in Nat
        /\ \A k \in DOMAIN child : child[k].id.nonce \in Nat
    BY <1>1, Numbered
  <2>2. \A d \in Controllers : d # c => control'[d].me = control[d].me
    BY <1>7 DEF Others
  <2>3. control'[c].me = starts + 1
    BY <1>2, <1>6, <1>7
  <2>4. \A k \in DOMAIN child' : child'[k].id.nonce <= starts'
    BY <1>1, <1>2, <1>3, <2>1 DEF Nonces
  <2>5. \A d \in Controllers : control'[d].me <= starts'
    BY <1>1, <1>2, <1>3, <2>1, <2>2, <2>3 DEF Nonces, My
  <2>6. \A d, e \in Controllers : control'[d].me = control'[e].me /\ control'[d].me # 0 => d = e
    BY <1>1, <1>2, <1>3, <2>1, <2>2, <2>3 DEF Nonces, My
  <2>7. QED
    BY <2>4, <2>5, <2>6 DEF Nonces, My
<1>10. ASSUME NEW d \in Controllers PROVE (Novel(d) /\ Given(d) /\ Holds(d) /\ Awaits(d))'
  <2>1. Unshared' = Unshared
    BY <1>2, Zenon DEF Unshared
  <2>2. CASE d = c
    <3>1. \A k \in DOMAIN child : child[k].id.nonce \in Nat /\ child[k].id.nonce <= starts
      BY <1>1, Numbered DEF Nonces
    <3>2. Novel(d)'
      BY <1>2, <1>3, <1>6, <1>7, <2>2, <3>1 DEF Novel, My
    <3>3. QED
      BY <1>6, <1>7, <2>2, <3>2 DEF Given, Holds, Awaits, My
  <2>3. CASE d # c
    <3>1. control'[d] = control[d] /\ Novel(d) /\ Given(d) /\ Holds(d) /\ Awaits(d)
      BY <1>1, <1>7, <2>3 DEF Others
    <3>2. Novel(d)' /\ Given(d)' /\ Holds(d)'
      BY <1>2, <2>1, <3>1 DEF Novel, Given, Holds, My, sched
    <3>3. Awaits(d)'
      BY <1>2, <1>6, <1>7, <2>1, <3>1 DEF Awaits, My, Others, day, sched
    <3>4. QED
      BY <3>1, <3>2, <3>3
  <2>4. QED
    BY <2>2, <2>3
<1>11. Named' /\ Recorded' /\ Ticked' /\ (Unshared /\ full => Waits /\ Alone /\ Opened)'
  <2>1. Unshared' = Unshared
    BY <1>2, Zenon DEF Unshared
  <2>2. Named' /\ Recorded'
    BY <1>1, <1>2, <2>1 DEF Named, Recorded, day, sched
  <2>3. Ticked'
    BY <1>1, <1>2, <2>1 DEF Ticked, sched
  <2>4. (Unshared /\ full => Waits /\ Alone /\ Opened)'
    BY <1>2, <2>1, Parts DEF Waits, Alone, Opened, day, sched
  <2>5. QED
    BY <2>2, <2>3, <2>4
<1>12. QED
  BY <1>8, <1>9, <1>10, <1>11 DEF DayInv

\* What stays when neither the processes nor the other controllers move, and this
\* one is no longer concerned or keeps its number.
LEMMA Standing ==
  ASSUME DayInv, TypeInv', NEW c \in Controllers, Others(c),
         UNCHANGED <<full, child, gate, pending, starts>>,
         control'[c].me = control[c].me,
         control'[c].pc \notin Early,
         control'[c].pc \notin Spawning \/ control'[c].pc = "claim"
           \/ (control'[c].pc = "spawn" /\ control[c].pc = "claim"),
         Given(c)' /\ Holds(c)' /\ Awaits(c)',
         \A d \in Controllers : d # c => Holds(d)' /\ Awaits(d)',
         terminal' \in {terminal, None},
         Recorded', (Unshared /\ full => Waits /\ Opened)'
  PROVE  DayInv'
<1>1. /\ TypeInv /\ Nonces /\ Named /\ Recorded /\ Ticked
      /\ \A d \in Controllers : Novel(d) /\ Given(d) /\ Holds(d) /\ Awaits(d)
  BY Parts
<1>2. Unshared' = Unshared
  BY Zenon DEF Unshared
<1>3. Nonces'
  BY <1>1 DEF Nonces, My, Others
<1>4. ASSUME NEW d \in Controllers PROVE (Novel(d) /\ Given(d) /\ Holds(d) /\ Awaits(d))'
  <2>1. CASE d = c
    BY <2>1 DEF Novel, My
  <2>2. CASE d # c
    <3>1. control'[d] = control[d] /\ Novel(d) /\ Given(d)
      BY <1>1, <2>2 DEF Others
    <3>2. Novel(d)' /\ Given(d)'
      BY <1>2, <3>1 DEF Novel, Given, My
    <3>3. QED
      BY <2>2, <3>2
  <2>3. QED
    BY <2>1, <2>2
<1>5. Named' /\ Ticked'
  <2>1. Named'
    BY <1>1 DEF Named
  <2>2. Ticked'
    BY <1>1, <1>2 DEF Ticked
  <2>3. QED
    BY <2>1, <2>2
<1>6. (Unshared /\ full => Waits /\ Alone /\ Opened)'
  BY <1>2, Parts DEF Alone
<1>7. QED
  BY <1>3, <1>4, <1>5, <1>6 DEF DayInv

\* Two controllers with the same new identity are one.
LEMMA OneMint ==
  ASSUME DayInv, NEW c \in Controllers, NEW d \in Controllers,
         My(c).pc \in {"claim", "spawn"}, My(d).pc \in {"claim", "spawn"},
         My(c).id = My(d).id, \A k \in DOMAIN child : child[k].id # My(c).id
  PROVE  c = d
<1>1. Given(c) /\ Given(d) /\ Nonces /\ TypeInv
  BY Parts
<1>2. My(c).id.nonce = My(c).me /\ My(d).id.nonce = My(d).me
  BY <1>1 DEF Given
<1>3. My(c).me \in Start
  BY <1>1, Typed DEF Sound, Spawning, My
<1>4. My(c).me # 0
  BY <1>3, Bounds DEF Start
<1>5. QED
  BY <1>1, <1>2, <1>4 DEF Nonces

\* A start that makes room for a process of its own.
LEMMA Adopts ==
  ASSUME DayInv, NEW c \in Controllers, AdoptScheduler(c),
         ~(record # None /\ Alive(record.pid))
  PROVE  DayInv'
<1>1. /\ TypeInv /\ Nonces /\ Named /\ Recorded /\ Ticked
      /\ \A d \in Controllers : Novel(d) /\ Given(d) /\ Holds(d) /\ Awaits(d)
  BY Parts
<1>2. /\ UNCHANGED <<full, day, record, claim, pending, child, bounds>>
      /\ quiesce' = None /\ beat' = None /\ terminal' = None
      /\ control[c].pc = "adopt"
      /\ control' = [control EXCEPT ![c].pc = "claim", ![c].id = IdentityFor(c)]
  BY DEF AdoptScheduler, At
<1>3. control[c] \in Controller /\ control[c].me \in Start /\ control[c].session \in Start
  BY <1>1, <1>2, Typed DEF Sound, Early
<1>4. IdentityFor(c) \in Identity
  BY <1>1, <1>3 DEF IdentityFor, IdentityOf, Identity, My, TypeInv, Files, Record
<1>5. PICK m : m = [control[c] EXCEPT !.pc = "claim", !.id = IdentityFor(c)]
  OBVIOUS
<1>6. "claim" \in Pc
  BY DEF Pc, Spawning
<1>7. m \in Controller
  BY <1>3, <1>4, <1>5, <1>6, Zenon DEF Controller
<1>8. m.pc = "claim" /\ m.id = IdentityFor(c) /\ m.me = control[c].me
  BY <1>3, <1>5 DEF Controller
<1>9. control' \in [Controllers -> Controller] /\ Others(c) /\ control'[c] = m
  <2>1. control' = [control EXCEPT ![c] = m]
    BY <1>1, <1>2, <1>5 DEF TypeInv, Staff
  <2>2. QED
    BY <1>1, <1>7, <2>1, Becomes
<1>10. TypeInv'
  <2>1. Sound(control'[c], child')
    BY <1>3, <1>4, <1>8, <1>9 DEF Sound, Early, Spawning
  <2>2. Staff'
    BY <1>1, <1>2, <1>9, <2>1, Staffed
  <2>3. Files' /\ Processes' /\ Counted'
    BY <1>1, <1>2 DEF TypeInv, Files, Processes, Counted, day, bounds
  <2>4. QED
    BY <2>2, <2>3 DEF TypeInv
<1>11. Unshared' = Unshared
  BY <1>2, Zenon DEF Unshared
<1>12. Given(c)'
  <2>1. CASE record # None /\ record.session = control[c].session
    <3>1. /\ record.pid \in DOMAIN child /\ child[record.pid].id = m.id
          /\ child[record.pid].pc = "dead"
      BY <1>1, <1>8, <2>1 DEF TypeInv, Files, Recorded, IdentityFor, My, Alive
    <3>2. Unshared => \A k \in DOMAIN child : child[k].id = m.id => k = record.pid
      BY <3>1 DEF Unshared
    <3>3. QED
      BY <1>2, <1>9, <1>11, <3>1, <3>2 DEF Given, My
  <2>2. CASE ~(record # None /\ record.session = control[c].session)
    <3>1. m.id.nonce = control[c].me
      BY <1>8, <2>2 DEF IdentityFor, My
    <3>2. \A k \in DOMAIN child : child[k].id # m.id
      BY <1>1, <1>2, <3>1 DEF Novel, My, Early
    <3>3. QED
      BY <1>2, <1>8, <1>9, <3>1, <3>2 DEF Given, My
  <2>3. QED
    BY <2>1, <2>2
<1>13. Holds(c)' /\ Awaits(c)'
  BY <1>8, <1>9 DEF Holds, Awaits, My
<1>14. ASSUME NEW d \in Controllers, d # c PROVE Holds(d)' /\ Awaits(d)'
  <2>1. control'[d] = control[d] /\ Holds(d) /\ Awaits(d)
    BY <1>1, <1>9, <1>14 DEF Others
  <2>2. Holds(d)'
    BY <1>2, <2>1 DEF Holds, My
  <2>3. Awaits(d)'
    BY <1>2, <1>8, <1>9, <1>11, <2>1 DEF Awaits, My, Others, day
  <2>4. QED
    BY <2>2, <2>3
<1>15. Recorded' /\ (Unshared /\ full => Waits /\ Opened)'
  <2>1. Recorded'
    BY <1>1, <1>2, <1>11 DEF Recorded
  <2>2. (Unshared /\ full => Waits /\ Opened)'
    BY <1>2, <1>11, Parts DEF Waits, Opened, day
  <2>3. QED
    BY <2>1, <2>2
<1>16. UNCHANGED <<full, child, gate, pending, starts>> /\ terminal' \in {terminal, None}
  BY <1>2 DEF day, bounds
<1>17. control'[c].pc = "claim" /\ control'[c].me = control[c].me /\ "claim" \notin Early
  BY <1>8, <1>9 DEF Early
<1>18. QED
  BY <1>9, <1>10, <1>12, <1>13, <1>14, <1>15, <1>16, <1>17, Standing

\* A start that takes the claim.
LEMMA Claims ==
  ASSUME DayInv, NEW c \in Controllers, ClaimStart(c)
  PROVE  DayInv'
<1>1. /\ TypeInv /\ Nonces /\ Named /\ Recorded /\ Ticked
      /\ \A d \in Controllers : Novel(d) /\ Given(d) /\ Holds(d) /\ Awaits(d)
  BY Parts
<1>2. /\ UNCHANGED <<full, day, record, beat, quiesce, terminal, pending, child, bounds>>
      /\ control[c].pc = "claim"
  BY DEF ClaimStart, At
<1>3. control[c] \in Controller /\ control[c].me \in Start /\ control[c].id \in Identity
  BY <1>1, <1>2, Typed DEF Sound, Spawning
<1>4. CASE claim' = claim /\ Settled(c, FALSE)
  <2>1. Plain
    BY <1>1, <1>2, <1>4, GateKept, Typed, Leaving DEF day, bounds
  <2>2. TypeInv' /\ Quiet(c)
    BY <1>1, <1>4, <2>1, SettlesCalmly
  <2>3. QED
    BY <2>2, QuietOne
<1>5. CASE /\ claim = None \/ claim = control[c].id
           /\ claim' = control[c].id /\ Goto(c, "spawn")
  <2>1. "spawn" \in Pc
    BY DEF Pc, Spawning
  <2>2. /\ control' \in [Controllers -> Controller]
        /\ control'[c] = [control[c] EXCEPT !.pc = "spawn"] /\ Others(c)
    BY <1>1, <1>5, <2>1, GoesOn
  <2>3. control'[c].pc = "spawn" /\ control'[c].me = control[c].me
        /\ control'[c].id = control[c].id
    BY <1>3, <2>2 DEF Controller
  <2>4. TypeInv'
    <3>1. Sound(control'[c], child')
      BY <1>3, <2>3 DEF Sound, Early, Spawning
    <3>2. Staff'
      BY <1>1, <1>2, <2>2, <3>1, Staffed
    <3>3. Files' /\ Processes' /\ Counted'
      BY <1>1, <1>2, <1>3, <1>5 DEF TypeInv, Files, Processes, Counted, day, bounds
    <3>4. QED
      BY <3>2, <3>3 DEF TypeInv
  <2>5. Unshared' = Unshared
    BY <1>2, Zenon DEF Unshared
  <2>6. Given(c)' /\ Holds(c)' /\ Awaits(c)'
    <3>1. Given(c)
      BY <1>1
    <3>2. Given(c)'
      BY <1>2, <2>3, <2>5, <3>1 DEF Given, My
    <3>3. QED
      BY <1>5, <2>3, <3>2 DEF Holds, Awaits, My
  <2>7. claim # None => claim' = claim
    BY <1>5
  <2>8. ASSUME NEW d \in Controllers, d # c PROVE Holds(d)' /\ Awaits(d)'
    <3>1. control'[d] = control[d] /\ Holds(d) /\ Awaits(d)
      BY <1>1, <2>2, <2>8 DEF Others
    <3>2. control[d].pc \in Spawning => control[d].id # None
      BY <1>1, Bounds, Typed DEF Sound
    <3>3. Holds(d)'
      BY <1>2, <2>7, <3>1, <3>2 DEF Holds, My, Spawning
    <3>4. Awaits(d)'
      BY <1>2, <2>2, <2>3, <2>5, <2>7, <3>1, <3>2 DEF Awaits, My, Others, Spawning, day
    <3>5. QED
      BY <3>3, <3>4
  <2>9. Recorded'
    <3>1. record # None => IdentityOf(record) # None
      BY <1>1, Bounds DEF TypeInv, Files, Record, IdentityOf, Identity
    <3>2. QED
      BY <1>1, <1>2, <2>5, <2>7, <3>1 DEF Recorded
  <2>10. (Unshared /\ full => Waits /\ Opened)'
    <3>1. SUFFICES ASSUME Unshared, full PROVE Waits' /\ Opened'
      BY <1>2, <2>5
    <3>2. Waits /\ Opened
      BY <3>1, Parts
    <3>3. Given(c) /\ \A k \in DOMAIN child : child[k].id = control[c].id => child[k].pc = "dead"
      BY <1>1, <1>2, <3>1 DEF Given, My
    <3>4. Waits'
      BY <1>2, <1>5, <3>3 DEF Waits
    <3>5. Opened'
      BY <1>2, <3>2 DEF Opened, day
    <3>6. QED
      BY <3>4, <3>5
  <2>11. UNCHANGED <<full, child, gate, pending, starts>> /\ terminal' \in {terminal, None}
    BY <1>2 DEF day, bounds
  <2>12. "spawn" \notin Early
    BY DEF Early
  <2>13. QED
    BY <1>2, <2>2, <2>3, <2>4, <2>6, <2>8, <2>9, <2>10, <2>11, <2>12, Standing
<1>6. QED
  BY <1>4, <1>5 DEF ClaimStart, My

\* A claim that is given back is not the one of a process that waits.
LEMMA Released ==
  ASSUME DayInv, NEW id \in Identity, Release(id),
         UNCHANGED <<full, child>>, Unshared, full
  PROVE  Waits'
<1>1. Waits /\ claim' \in {claim, None}
  BY Parts DEF Release
<1>2. \A k \in DOMAIN child : child[k].id # None
  BY Parts, Numbered, Bounds
<1>3. QED
  BY <1>1, <1>2 DEF Waits

\* A start that does not get its process going.
LEMMA GivesUp ==
  ASSUME DayInv, NEW c \in Controllers, SpawnFails(c) \/ HandshakeFails(c)
  PROVE  DayInv'
<1>1. /\ TypeInv /\ Nonces /\ Named /\ Recorded /\ Ticked
      /\ \A d \in Controllers : Novel(d) /\ Given(d) /\ Holds(d) /\ Awaits(d)
  BY Parts
<1>2. /\ UNCHANGED <<full, day, record, beat, quiesce, terminal, pending, child,
                     starts, stops, crashes>>
      /\ timeouts' \in 0 .. MaxTimeouts
      /\ Release(control[c].id) /\ Settled(c, FALSE)
      /\ control[c].pc \in {"spawn", "handshake"}
  <2>1. timeouts \in 0 .. MaxTimeouts
    BY <1>1 DEF TypeInv, Counted
  <2>2. CASE SpawnFails(c)
    BY <2>1, <2>2 DEF SpawnFails, At, My, bounds
  <2>3. CASE HandshakeFails(c)
    <3>1. timeouts' = timeouts \/ (timeouts < MaxTimeouts /\ timeouts' = timeouts + 1)
      BY <2>3, Zenon DEF HandshakeFails
    <3>2. timeouts' \in 0 .. MaxTimeouts
      BY <2>1, <3>1, Bounds
    <3>3. QED
      BY <2>3, <3>2 DEF HandshakeFails, At, My
  <2>4. QED
    BY <2>2, <2>3
<1>3. control[c] \in Controller /\ control[c].me \in Start /\ control[c].id \in Identity
  BY <1>1, <1>2, Typed DEF Sound, Spawning
<1>4. /\ control' \in [Controllers -> Controller] /\ Others(c)
      /\ control'[c].pc = "license" /\ control'[c].me = control[c].me
  BY <1>1, <1>2, Settles
<1>5. "license" \notin Early \cup Spawning \cup {"drain"}
  BY DEF Early, Spawning
<1>6. TypeInv'
  <2>1. Sound(control'[c], child')
    BY <1>4, <1>5 DEF Sound, Early, Spawning
  <2>2. Staff'
    BY <1>1, <1>2, <1>4, <2>1, Staffed
  <2>3. claim' \in Identity \cup {None}
    BY <1>1, <1>2 DEF Release, TypeInv, Files
  <2>4. Files' /\ Processes' /\ Counted'
    BY <1>1, <1>2, <2>3 DEF TypeInv, Files, Processes, Counted, day
  <2>5. QED
    BY <2>2, <2>4 DEF TypeInv
<1>7. Unshared' = Unshared
  BY <1>2, Zenon DEF Unshared
<1>8. Given(c)' /\ Holds(c)' /\ Awaits(c)'
  BY <1>4 DEF Given, Holds, Awaits, My
<1>9. \* whose claim is released
      ASSUME NEW k \in DOMAIN child, Unshared, child[k].id = control[c].id,
             child[k].pc # "dead"
      PROVE  control[c].pc = "handshake" /\ k = control[c].pid
  <2>1. control[c].pc # "spawn"
    BY <1>1, <1>9 DEF Given, My
  <2>2. control[c].pid \in DOMAIN child /\ child[control[c].pid].id = control[c].id
    BY <1>1, <1>2, <2>1, Typed DEF Sound
  <2>3. QED
    BY <1>2, <1>9, <2>1, <2>2 DEF Unshared
<1>10. claim' = claim \/ claim = control[c].id
  BY <1>2 DEF Release
<1>11. ASSUME NEW d \in Controllers, d # c PROVE Holds(d)' /\ Awaits(d)'
  <2>1. control'[d] = control[d] /\ Holds(d) /\ Awaits(d)
    BY <1>1, <1>4, <1>11 DEF Others
  <2>2. Holds(d)'
    <3>1. SUFFICES ASSUME control[d].pc = "spawn",
                          \A k \in DOMAIN child : child[k].id # control[d].id
                   PROVE  claim' = control[d].id
      BY <1>2, <2>1 DEF Holds, My
    <3>2. claim = control[d].id
      BY <2>1, <3>1 DEF Holds, My
    <3>3. CASE claim = control[c].id
      <4>1. CASE control[c].pc = "spawn"
        BY <1>11, <3>1, <3>2, <3>3, <4>1, OneMint DEF My
      <4>2. CASE control[c].pc = "handshake"
        <5>1. control[c].pid \in DOMAIN child /\ child[control[c].pid].id = control[c].id
          BY <1>1, <4>2, Typed DEF Sound
        <5>2. QED
          BY <3>1, <3>2, <3>3, <5>1
      <4>3. QED
        BY <1>2, <4>1, <4>2
    <3>4. QED
      BY <1>10, <3>2, <3>3
  <2>3. ASSUME control[d].pc = "handshake", Unshared, child[control[d].pid].pc # "dead"
        PROVE  claim' = control[d].id
    <3>1. claim = control[d].id
      BY <2>1, <2>3 DEF Awaits, My
    <3>2. control[d].pid \in DOMAIN child /\ child[control[d].pid].id = control[d].id
      BY <1>1, <2>3, Typed DEF Sound
    <3>3. CASE claim = control[c].id
      <4>1. control[c].pc = "handshake" /\ control[d].pid = control[c].pid
        BY <1>9, <2>3, <3>1, <3>2, <3>3
      <4>2. QED
        BY <1>11, <2>1, <2>3, <4>1 DEF Awaits, My
    <3>4. QED
      BY <1>10, <3>1, <3>3
  <2>4. Awaits(d)'
    BY <1>2, <1>4, <1>7, <2>1, <2>3 DEF Awaits, My, Others, day
  <2>5. QED
    BY <2>2, <2>4
<1>12. Recorded'
  <2>1. SUFFICES ASSUME record # None, Unshared, child[record.pid].pc # "dead"
                 PROVE  claim' = IdentityOf(record)
    BY <1>1, <1>2, <1>7 DEF Recorded
  <2>2. /\ claim = IdentityOf(record) /\ child[record.pid].id = IdentityOf(record)
        /\ record.pid \in DOMAIN child
    BY <1>1, <2>1 DEF Recorded, TypeInv, Files
  <2>3. CASE claim = control[c].id
    <3>1. control[c].pc = "handshake" /\ record.pid = control[c].pid
      BY <1>9, <2>1, <2>2, <2>3
    <3>2. QED
      BY <1>1, <2>1, <3>1 DEF Awaits, My
  <2>4. QED
    BY <1>10, <2>2, <2>3
<1>13. (Unshared /\ full => Waits /\ Opened)'
  <2>1. SUFFICES ASSUME Unshared, full PROVE Waits' /\ Opened'
    BY <1>2, <1>7
  <2>2. Waits'
    BY <1>2, <1>3, <2>1, Released
  <2>3. Opened'
    BY <1>2, <2>1, Parts DEF Opened, day
  <2>4. QED
    BY <2>2, <2>3
<1>14. UNCHANGED <<full, child, gate, pending, starts>> /\ terminal' \in {terminal, None}
  BY <1>2 DEF day
<1>15. QED
  BY <1>4, <1>5, <1>6, <1>8, <1>11, <1>12, <1>13, <1>14, Standing

\* A start whose process has announced itself records it.
LEMMA Records ==
  ASSUME DayInv, NEW c \in Controllers, Handshake(c)
  PROVE  DayInv'
<1>1. /\ TypeInv /\ Nonces /\ Named /\ Recorded /\ Ticked
      /\ \A d \in Controllers : Novel(d) /\ Given(d) /\ Holds(d) /\ Awaits(d)
  BY Parts
<1>2. /\ UNCHANGED <<full, day, claim, beat, quiesce, terminal, pending, child, bounds>>
      /\ record' = RecordOf(control[c].pid) /\ Settled(c, TRUE)
      /\ control[c].pc = "handshake" /\ child[control[c].pid].pc # "dead"
  BY DEF Handshake, At, My, Alive
<1>3. /\ control[c] \in Controller /\ control[c].me \in Start /\ control[c].id \in Identity
      /\ control[c].pid \in DOMAIN child /\ child[control[c].pid].id = control[c].id
  BY <1>1, <1>2, Typed DEF Sound, Spawning
<1>4. /\ control' \in [Controllers -> Controller] /\ Others(c)
      /\ control'[c].pc = "license" /\ control'[c].me = control[c].me
  BY <1>1, <1>2, Settles
<1>5. "license" \notin Early \cup Spawning \cup {"drain"}
  BY DEF Early, Spawning
<1>6. /\ record' \in Record /\ record'.pid = control[c].pid
      /\ IdentityOf(record') = control[c].id
  <2>1. control[c].pid \in 1 .. MaxChildren
    BY <1>1, <1>3, Bounds DEF TypeInv, Processes
  <2>2. /\ record' = [session |-> control[c].id.session, nonce |-> control[c].id.nonce,
                      pid |-> control[c].pid]
    BY <1>2, <1>3 DEF RecordOf
  <2>3. record' \in Record /\ record'.pid = control[c].pid
    BY <1>3, <2>1, <2>2 DEF Record, Identity
  <2>4. IdentityOf(record') = control[c].id
    BY <1>3, <2>2 DEF IdentityOf, Identity
  <2>5. QED
    BY <2>3, <2>4
<1>7. TypeInv'
  <2>1. Sound(control'[c], child')
    BY <1>4, <1>5 DEF Sound, Early, Spawning
  <2>2. Staff'
    BY <1>1, <1>2, <1>4, <2>1, Staffed
  <2>3. Files' /\ Processes' /\ Counted'
    BY <1>1, <1>2, <1>3, <1>6 DEF TypeInv, Files, Processes, Counted, day, bounds
  <2>4. QED
    BY <2>2, <2>3 DEF TypeInv
<1>8. Unshared' = Unshared
  BY <1>2, Zenon DEF Unshared
<1>9. Given(c)' /\ Holds(c)' /\ Awaits(c)'
  BY <1>4 DEF Given, Holds, Awaits, My
<1>10. ASSUME NEW d \in Controllers, d # c PROVE Holds(d)' /\ Awaits(d)'
  <2>1. control'[d] = control[d] /\ Holds(d) /\ Awaits(d)
    BY <1>1, <1>4, <1>10 DEF Others
  <2>2. Holds(d)'
    BY <1>2, <2>1 DEF Holds, My
  <2>3. control[d].pc = "handshake" => control[d].pid # control[c].pid
    BY <1>2, <1>10, <2>1 DEF Awaits, My
  <2>4. Awaits(d)'
    BY <1>2, <1>4, <1>6, <1>8, <2>1, <2>3 DEF Awaits, My, Others, day
  <2>5. QED
    BY <2>2, <2>4
<1>11. Recorded'
  BY <1>1, <1>2, <1>3, <1>6, <1>8 DEF Recorded, Awaits, My
<1>12. (Unshared /\ full => Waits /\ Opened)'
  <2>1. SUFFICES ASSUME Unshared, full PROVE Waits' /\ Opened'
    BY <1>2, <1>8
  <2>2. Waits'
    BY <1>2, <2>1, Parts DEF Waits
  <2>3. gate # None /\ gate.position = "OPEN" /\ gate.scheduler # None =>
          gate.scheduler.pid # control[c].pid
    BY <1>1, <1>2 DEF Awaits, My
  <2>4. Opened'
    BY <1>2, <1>6, <2>3 DEF Opened, day
  <2>5. QED
    BY <2>2, <2>4
<1>13. UNCHANGED <<full, child, gate, pending, starts>> /\ terminal' \in {terminal, None}
  BY <1>2 DEF day, bounds
<1>14. QED
  BY <1>4, <1>5, <1>7, <1>9, <1>10, <1>11, <1>12, <1>13, Standing

\* A stop that finds its scheduler ended.
LEMMA Drains ==
  ASSUME DayInv, NEW c \in Controllers, Drained(c)
  PROVE  DayInv'
<1>1. /\ TypeInv /\ Nonces /\ Named /\ Recorded /\ Ticked
      /\ \A d \in Controllers : Novel(d) /\ Given(d) /\ Holds(d) /\ Awaits(d)
  BY Parts
<1>2. /\ UNCHANGED <<full, day, claim, beat, quiesce, terminal, pending, child, bounds>>
      /\ record' \in {record, None}
      /\ Goto(c, Torn(c)) \/ Unproven(c, Torn(c))
  BY DEF Drained
<1>3. Torn(c) \in Pc \ (Early \cup Spawning \cup {"drain"})
  BY DEF Torn, Pc, Closing, Early, Spawning
<1>4. /\ control' \in [Controllers -> Controller] /\ Others(c)
      /\ control'[c].pc = Torn(c) /\ control'[c].me = control[c].me
  <2>1. /\ control' \in [Controllers -> Controller] /\ Others(c)
        /\ \/ control'[c] = [control[c] EXCEPT !.pc = Torn(c)]
           \/ control'[c] = [control[c] EXCEPT !.pc = Torn(c), !.clean = FALSE,
                                                     !.proven = FALSE]
    BY <1>1, <1>2, <1>3, GoesOn, GoesOnUnproven
  <2>2. control[c] \in Controller
    BY <1>1, Typed
  <2>3. QED
    BY <2>1, <2>2 DEF Controller
<1>5. TypeInv'
  <2>1. Sound(control'[c], child')
    BY <1>3, <1>4 DEF Sound, Early, Spawning
  <2>2. Staff'
    BY <1>1, <1>2, <1>4, <2>1, Staffed
  <2>3. Files' /\ Processes' /\ Counted'
    BY <1>1, <1>2 DEF TypeInv, Files, Processes, Counted, day, bounds
  <2>4. QED
    BY <2>2, <2>3 DEF TypeInv
<1>6. Unshared' = Unshared
  BY <1>2, Zenon DEF Unshared
<1>7. control'[c].pc \notin Early \cup Spawning
  BY <1>3, <1>4
<1>8. Given(c)' /\ Holds(c)' /\ Awaits(c)'
  BY <1>7 DEF Given, Holds, Awaits, My, Spawning
<1>9. ASSUME NEW d \in Controllers, d # c PROVE Holds(d)' /\ Awaits(d)'
  <2>1. control'[d] = control[d] /\ Holds(d) /\ Awaits(d)
    BY <1>1, <1>4, <1>9 DEF Others
  <2>2. Holds(d)'
    BY <1>2, <2>1 DEF Holds, My
  <2>3. Awaits(d)'
    BY <1>2, <1>4, <1>6, <1>7, <2>1 DEF Awaits, My, Others, day, Spawning
  <2>4. QED
    BY <2>2, <2>3
<1>10. Recorded' /\ (Unshared /\ full => Waits /\ Opened)'
  <2>1. Recorded'
    BY <1>1, <1>2, <1>6 DEF Recorded
  <2>2. (Unshared /\ full => Waits)'
    BY <1>2, <1>6, Parts DEF Waits
  <2>3. (Unshared /\ full => Opened)'
    BY <1>2, <1>6, Parts DEF Opened, day
  <2>4. QED
    BY <2>1, <2>2, <2>3
<1>11. UNCHANGED <<full, child, gate, pending, starts>> /\ terminal' \in {terminal, None}
  BY <1>2 DEF day, bounds
<1>12. QED
  BY <1>4, <1>5, <1>7, <1>8, <1>9, <1>10, <1>11, Standing

\* A start that spawns its process.
LEMMA Spawns ==
  ASSUME DayInv, NEW c \in Controllers, SpawnScheduler(c)
  PROVE  DayInv'
<1>1. /\ TypeInv /\ Nonces /\ Named /\ Recorded /\ Ticked
      /\ \A d \in Controllers : Novel(d) /\ Given(d) /\ Holds(d) /\ Awaits(d)
  BY Parts
<1>2. /\ UNCHANGED <<full, day, sched, pending, bounds>>
      /\ Len(child) < MaxChildren /\ control[c].pc = "spawn"
      /\ child' = Append(child, [id |-> control[c].id, pc |-> "new", clean |-> FALSE])
      /\ control' = [control EXCEPT ![c].pc = "handshake", ![c].pid = Len(child')]
  BY DEF SpawnScheduler, At, My
<1>3. control[c] \in Controller /\ control[c].me \in Start /\ control[c].id \in Identity
  BY <1>1, <1>2, Typed DEF Sound, Spawning
<1>4. PICK n \in Nat : n = Len(child) + 1
  BY <1>1 DEF TypeInv, Processes
<1>5. PICK p \in Process : p = [id |-> control[c].id, pc |-> "new", clean |-> FALSE]
  BY <1>3 DEF Process
<1>6. /\ child' \in Seq(Process) /\ Len(child') = n /\ n \in 1 .. MaxChildren
      /\ DOMAIN child' = DOMAIN child \cup {n} /\ n \notin DOMAIN child
      /\ child'[n] = p /\ \A k \in DOMAIN child : child'[k] = child[k]
  <2>1. child \in Seq(Process) /\ child' = Append(child, p)
    BY <1>1, <1>2, <1>5 DEF TypeInv, Processes
  <2>2. QED
    BY <1>2, <1>4, <2>1, Bounds
<1>7. p.id = control[c].id /\ p.pc = "new"
  BY <1>5
<1>8. PICK m : m = [control[c] EXCEPT !.pc = "handshake", !.pid = n]
  OBVIOUS
<1>9. "handshake" \in Pc \ Early /\ n \in 0 .. MaxChildren
  BY <1>6, Bounds DEF Pc, Spawning, Early
<1>10. m \in Controller
  BY <1>3, <1>8, <1>9, Zenon DEF Controller
<1>11. m.pc = "handshake" /\ m.pid = n /\ m.id = control[c].id /\ m.me = control[c].me
  BY <1>3, <1>8 DEF Controller
<1>12. control' \in [Controllers -> Controller] /\ Others(c) /\ control'[c] = m
  <2>1. control' = [control EXCEPT ![c] = m]
    BY <1>1, <1>2, <1>6, <1>8 DEF TypeInv, Staff
  <2>2. QED
    BY <1>1, <1>10, <2>1, Becomes
<1>13. TypeInv'
  <2>1. Sound(control'[c], child')
    BY <1>3, <1>6, <1>7, <1>9, <1>11, <1>12 DEF Sound, Early, Spawning
  <2>2. \A k \in DOMAIN child : k \in DOMAIN child' /\ child'[k].id = child[k].id
    BY <1>6
  <2>3. Staff'
    BY <1>1, <1>12, <2>1, <2>2, Staffed
  <2>4. Files' /\ Counted'
    BY <1>1, <1>2, <1>6 DEF TypeInv, Files, Counted, day, sched, bounds
  <2>5. Processes'
    BY <1>1, <1>2, <1>6, Bounds DEF TypeInv, Processes
  <2>6. QED
    BY <2>3, <2>4, <2>5 DEF TypeInv
<1>14. Unshared' => Unshared /\ \A k \in DOMAIN child : child[k].id # control[c].id
  BY <1>6, <1>7 DEF Unshared
<1>15. Given(c)
  BY <1>1
<1>16. \* where the new identity comes from
       /\ p.id.nonce <= starts
       /\ \A d \in Controllers : d # c /\ control[d].pc \in Early => p.id.nonce # control[d].me
  <2>1. CASE \E k \in DOMAIN child : child[k].id = control[c].id
    <3>1. PICK k \in DOMAIN child : child[k].id = control[c].id
      BY <2>1
    <3>2. p.id.nonce = child[k].id.nonce
      BY <1>7, <3>1
    <3>3. p.id.nonce <= starts
      BY <1>1, <3>2 DEF Nonces
    <3>4. \A d \in Controllers : control[d].pc \in Early => p.id.nonce # control[d].me
      BY <1>1, <3>2 DEF Novel, My
    <3>5. QED
      BY <3>3, <3>4
  <2>2. CASE control[c].id.nonce = control[c].me
    <3>1. control[c].me # 0
      BY <1>3, Bounds DEF Start
    <3>2. control[c].me <= starts
          /\ \A d \in Controllers : control[c].me = control[d].me => c = d
      BY <1>1, <3>1 DEF Nonces, My
    <3>3. QED
      BY <1>7, <2>2, <3>2
  <2>3. QED
    BY <1>2, <1>15, <2>1, <2>2 DEF Given, My
<1>17. Nonces'
  <2>1. starts' = starts /\ \A d \in Controllers : control'[d].me = control[d].me
    BY <1>2, <1>11, <1>12 DEF Others, bounds
  <2>2. \A k \in DOMAIN child' : child'[k].id.nonce <= starts'
    BY <1>1, <1>6, <1>16, <2>1 DEF Nonces
  <2>3. QED
    BY <1>1, <2>1, <2>2 DEF Nonces, My
<1>18. (Novel(c) /\ Given(c) /\ Holds(c) /\ Awaits(c))'
  <2>1. (Novel(c) /\ Given(c) /\ Holds(c))'
    BY <1>9, <1>11, <1>12 DEF Novel, Given, Holds, My
  <2>2. ASSUME Unshared' PROVE claim' = control[c].id
    <3>1. claim = control[c].id
      BY <1>1, <1>2, <1>14, <2>2 DEF Holds, My
    <3>2. QED
      BY <1>2, <3>1 DEF sched
  <2>3. record' # None => record'.pid # n
    BY <1>1, <1>2, <1>6 DEF TypeInv, Files, sched
  <2>4. gate' # None /\ gate'.position = "OPEN" /\ gate'.scheduler # None =>
          gate'.scheduler.pid # n
    BY <1>1, <1>2, <1>6 DEF Named, day
  <2>5. ASSUME NEW d \in Controllers, control'[d].pc = "handshake", control'[d].pid = n
        PROVE  c = d
    <3>1. CASE d # c
      <4>1. control[d].pc = "handshake" /\ control[d].pid = n
        BY <1>12, <2>5, <3>1 DEF Others
      <4>2. n \in DOMAIN child
        BY <1>1, <4>1, Typed DEF Sound
      <4>3. QED
        BY <1>6, <4>2
    <3>2. QED
      BY <3>1
  <2>6. Awaits(c)'
    BY <1>11, <1>12, <2>2, <2>3, <2>4, <2>5 DEF Awaits, My
  <2>7. QED
    BY <2>1, <2>6
<1>19. ASSUME NEW d \in Controllers, d # c
       PROVE  (Novel(d) /\ Given(d) /\ Holds(d) /\ Awaits(d))'
  <2>1. control'[d] = control[d] /\ Novel(d) /\ Given(d) /\ Holds(d) /\ Awaits(d)
    BY <1>1, <1>12, <1>19 DEF Others
  <2>2. Novel(d)'
    BY <1>6, <1>16, <1>19, <2>1 DEF Novel, My
  <2>3. Given(d)'
    <3>1. SUFFICES ASSUME control[d].pc \in {"claim", "spawn"} PROVE Given(d)'
      BY <2>1 DEF Given, My
    <3>2. \/ \E k \in DOMAIN child' : child'[k].id = control[d].id
          \/ control[d].id.nonce = control[d].me
      BY <1>6, <2>1, <3>1 DEF Given, My
    <3>3. ASSUME Unshared', NEW k \in DOMAIN child', child'[k].id = control[d].id
          PROVE  child'[k].pc = "dead"
      <4>1. CASE k = n
        <5>1. control[d].id = control[c].id
          BY <1>6, <1>7, <3>3, <4>1
        <5>2. \A j \in DOMAIN child : child[j].id # control[c].id
          BY <1>14, <3>3
        <5>3. c = d
          BY <1>2, <3>1, <5>1, <5>2, OneMint DEF My
        <5>4. QED
          BY <1>19, <5>3
      <4>2. CASE k \in DOMAIN child
        BY <1>6, <1>14, <2>1, <3>1, <3>3, <4>2 DEF Given, My
      <4>3. QED
        BY <1>6, <4>1, <4>2
    <3>4. QED
      BY <2>1, <3>2, <3>3 DEF Given, My
  <2>4. Holds(d)'
    BY <1>2, <1>6, <2>1 DEF Holds, My, sched
  <2>5. Awaits(d)'
    <3>1. SUFFICES ASSUME control[d].pc = "handshake" PROVE Awaits(d)'
      BY <2>1 DEF Awaits, My
    <3>2. control[d].pid \in DOMAIN child
      BY <1>1, <3>1, Typed DEF Sound
    <3>3. child'[control[d].pid] = child[control[d].pid] /\ control[d].pid # n
      BY <1>6, <3>2
    <3>4. Unshared' /\ child'[control[d].pid].pc # "dead" => claim' = control[d].id
      BY <1>2, <1>14, <2>1, <3>1, <3>3 DEF Awaits, My, sched
    <3>5. /\ record' # None => record'.pid # control[d].pid
          /\ gate' # None /\ gate'.position = "OPEN" /\ gate'.scheduler # None =>
               gate'.scheduler.pid # control[d].pid
      BY <1>2, <2>1, <3>1 DEF Awaits, My, day, sched
    <3>6. \A e \in Controllers :
            control'[e].pc = "handshake" /\ control'[e].pid = control[d].pid => d = e
      BY <1>11, <1>12, <2>1, <3>1, <3>3 DEF Awaits, My, Others
    <3>7. QED
      BY <2>1, <3>4, <3>5, <3>6 DEF Awaits, My
  <2>6. QED
    BY <2>2, <2>3, <2>4, <2>5
<1>20. Named' /\ Recorded'
  <2>1. Named'
    BY <1>1, <1>2, <1>6 DEF Named, day
  <2>2. record # None => record.pid \in DOMAIN child
    BY <1>1 DEF TypeInv, Files
  <2>3. Recorded'
    BY <1>1, <1>2, <1>6, <1>14, <2>2 DEF Recorded, sched
  <2>4. QED
    BY <2>1, <2>3
<1>21. Ticked'
  <2>1. pending \subseteq DOMAIN child
    BY <1>1 DEF TypeInv, Processes
  <2>2. /\ \A k \in pending' : child'[k].pc \in {"pass", "dead"}
        /\ full' => \A k \in DOMAIN child' : child'[k].pc = "pass" => k \in pending'
    BY <1>1, <1>2, <1>6, <1>7, <2>1 DEF Ticked
  <2>3. ASSUME terminal # None
        PROVE  /\ \E k \in DOMAIN child' : child'[k].id = terminal.id
               /\ Unshared' => \A k \in DOMAIN child' : child'[k].id = terminal.id =>
                    child'[k].pc \in {"ended", "dead"} /\ k \notin pending'
    <3>1. PICK i \in DOMAIN child : child[i].id = terminal.id
      BY <1>1, <2>3 DEF Ticked
    <3>2. ASSUME Unshared', NEW k \in DOMAIN child', child'[k].id = terminal.id
          PROVE  child'[k].pc \in {"ended", "dead"} /\ k \notin pending'
      <4>1. k # n
        BY <1>6, <1>7, <1>14, <3>1, <3>2
      <4>2. QED
        BY <1>1, <1>2, <1>6, <1>14, <2>3, <3>2, <4>1 DEF Ticked
    <3>3. QED
      BY <1>6, <3>1, <3>2
  <2>4. QED
    BY <1>2, <2>2, <2>3 DEF Ticked, sched
<1>22. (Unshared /\ full => Waits /\ Alone /\ Opened)'
  <2>1. SUFFICES ASSUME Unshared', full PROVE (Waits /\ Alone /\ Opened)'
    BY <1>2
  <2>2. Waits /\ Alone /\ Opened
    BY <1>14, <2>1, Parts
  <2>3. Waits' /\ Alone'
    BY <1>2, <1>6, <1>7, <2>2 DEF Waits, Alone, sched
  <2>4. record # None => record.pid \in DOMAIN child
    BY <1>1 DEF TypeInv, Files
  <2>5. Opened'
    BY <1>2, <1>6, <1>7, <2>2, <2>4 DEF Opened, day, sched
  <2>6. QED
    BY <2>3, <2>5
<1>23. ASSUME NEW d \in Controllers PROVE (Novel(d) /\ Given(d) /\ Holds(d) /\ Awaits(d))'
  BY <1>18, <1>19
<1>24. QED
  BY <1>13, <1>17, <1>20, <1>21, <1>22, <1>23 DEF DayInv

-----------------------------------------------------------------------------
(* The steps of a scheduler process *)

\* Only one process moves, and none is renamed.
OneMoves(k) ==
  /\ child' \in Seq(Process) /\ Len(child') = Len(child)
  /\ DOMAIN child' = DOMAIN child
  /\ \A j \in DOMAIN child : child'[j].id = child[j].id
  /\ \A j \in DOMAIN child : j # k => child'[j] = child[j]

\* Types when a process moves and the controllers stay.
LEMMA MovesTyped ==
  ASSUME TypeInv, NEW k \in DOMAIN child, OneMoves(k),
         UNCHANGED <<full, day, record, quiesce, control, starts, stops, timeouts>>,
         claim' \in {claim, None},
         beat' \in Identity \cup {None}, terminal' \in Terminal \cup {None},
         pending' \subseteq DOMAIN child, crashes' \in 0 .. MaxCrashes
  PROVE  TypeInv'
<1>1. Staff'
  BY DEF TypeInv, Staff, Sound, OneMoves
<1>2. Files'
  BY DEF TypeInv, Files, day, OneMoves
<1>3. Processes' /\ Counted'
  BY DEF TypeInv, Processes, Counted, OneMoves
<1>4. QED
  BY <1>1, <1>2, <1>3 DEF TypeInv

\* What stays when one process moves, and perhaps leaves its claim behind.
LEMMA Moves ==
  ASSUME DayInv, TypeInv', NEW k \in DOMAIN child, OneMoves(k),
         UNCHANGED <<full, gate, record, control, starts>>,
         child[k].pc # "dead",
         \/ claim' = claim
         \/ claim = child[k].id /\ claim' = None /\ child'[k].pc = "dead",
         Ticked', (Unshared /\ full => Waits /\ Alone /\ Opened)'
  PROVE  DayInv'
<1>1. /\ TypeInv /\ Nonces /\ Named /\ Recorded /\ Ticked
      /\ \A d \in Controllers : Novel(d) /\ Given(d) /\ Holds(d) /\ Awaits(d)
  BY Parts
<1>2. Unshared' = Unshared
  BY DEF Unshared, OneMoves
<1>3. Nonces' /\ Named'
  BY <1>1 DEF Nonces, Named, My, OneMoves
<1>4. ASSUME NEW d \in Controllers PROVE (Novel(d) /\ Given(d) /\ Holds(d) /\ Awaits(d))'
  <2>1. Novel(d) /\ Given(d) /\ Holds(d) /\ Awaits(d)
    BY <1>1
  <2>2. Novel(d)'
    BY <2>1 DEF Novel, My, OneMoves
  <2>3. Given(d)'
    BY <1>2, <2>1 DEF Given, My, OneMoves
  <2>4. Holds(d)'
    BY <2>1 DEF Holds, My, OneMoves
  <2>5. Awaits(d)'
    <3>1. SUFFICES ASSUME control[d].pc = "handshake" PROVE Awaits(d)'
      BY DEF Awaits, My
    <3>2. control[d].pid \in DOMAIN child /\ child[control[d].pid].id = control[d].id
      BY <1>1, <3>1, Typed DEF Sound
    <3>3. ASSUME Unshared', child'[control[d].pid].pc # "dead" PROVE claim' = control[d].id
      <4>1. CASE control[d].pid = k
        BY <1>2, <2>1, <3>1, <3>3, <4>1 DEF Awaits, My
      <4>2. CASE control[d].pid # k
        <5>1. claim = control[d].id
          BY <1>2, <2>1, <3>1, <3>2, <3>3, <4>2 DEF Awaits, My, OneMoves
        <5>2. claim # child[k].id
          BY <1>2, <3>2, <3>3, <4>2, <5>1 DEF Unshared
        <5>3. QED
          BY <5>1, <5>2
      <4>3. QED
        BY <4>1, <4>2
    <3>4. QED
      BY <2>1, <3>1, <3>3 DEF Awaits, My
  <2>6. QED
    BY <2>2, <2>3, <2>4, <2>5
<1>5. Recorded'
  <2>1. SUFFICES ASSUME record # None PROVE Recorded'
    BY DEF Recorded
  <2>2. record.pid \in DOMAIN child /\ child[record.pid].id = IdentityOf(record)
    BY <1>1, <2>1 DEF TypeInv, Files, Recorded
  <2>3. ASSUME Unshared', child'[record.pid].pc # "dead" PROVE claim' = IdentityOf(record)
    <3>1. CASE record.pid = k
      BY <1>1, <1>2, <2>1, <2>3, <3>1 DEF Recorded
    <3>2. CASE record.pid # k
      <4>1. claim = IdentityOf(record)
        BY <1>1, <1>2, <2>1, <2>2, <2>3, <3>2 DEF Recorded, OneMoves
      <4>2. claim # child[k].id
        BY <1>2, <2>2, <2>3, <3>2, <4>1 DEF Unshared
      <4>3. QED
        BY <4>1, <4>2
    <3>3. QED
      BY <3>1, <3>2
  <2>4. QED
    BY <2>2, <2>3 DEF Recorded, OneMoves
<1>6. QED
  BY <1>3, <1>4, <1>5 DEF DayInv

\* The record of a process, before and after one that goes on.
LEMMA Turned ==
  ASSUME TypeInv, NEW k \in DOMAIN child,
         NEW pc \in {"new", "waiting", "pass", "ending", "ended", "dead"},
         Become(k, pc) \/ (pc = "ending" /\ \E clean \in BOOLEAN : Finish(k, clean))
  PROVE  OneMoves(k) /\ child'[k].pc = pc
<1>1. OneMoves(k)
  BY Goes DEF OneMoves
<1>2. child'[k].pc = pc
  <2>1. child[k] \in Process
    BY DEF TypeInv, Processes
  <2>2. CASE Become(k, pc)
    <3>1. child' = [child EXCEPT ![k] = [child[k] EXCEPT !.pc = pc]]
      BY <2>2 DEF Become, TypeInv, Processes
    <3>2. child'[k] = [child[k] EXCEPT !.pc = pc]
      BY <3>1 DEF TypeInv, Processes
    <3>3. QED
      BY <2>1, <3>2 DEF Process
  <2>3. CASE pc = "ending" /\ \E clean \in BOOLEAN : Finish(k, clean)
    <3>1. PICK clean \in BOOLEAN : Finish(k, clean)
      BY <2>3
    <3>2. child' = [child EXCEPT ![k] = [child[k] EXCEPT !.pc = "ending", !.clean = clean]]
      BY <3>1 DEF Finish, TypeInv, Processes
    <3>3. child'[k] = [child[k] EXCEPT !.pc = "ending", !.clean = clean]
      BY <3>2 DEF TypeInv, Processes
    <3>4. QED
      BY <2>1, <2>3, <3>3 DEF Process
  <2>4. QED
    BY <2>2, <2>3
<1>3. QED
  BY <1>1, <1>2

\* A process that does not enter a pass, nor wait beside one, changes nothing about
\* who is in a pass.
LEMMA Fewer ==
  ASSUME DayInv, NEW k \in DOMAIN child, OneMoves(k),
         UNCHANGED <<full, gate, record>>, claim' \in {claim, None},
         child[k].pc # "dead", child'[k].pc # "pass",
         child'[k].pc = "waiting" /\ full =>
           \A j \in DOMAIN child : child[j].pc = "pass" /\ Unshared => j = k
  PROVE  (Unshared /\ full => Waits /\ Alone /\ Opened)'
<1>1. Unshared' = Unshared
  BY DEF Unshared, OneMoves
<1>2. SUFFICES ASSUME Unshared, full PROVE (Waits /\ Alone /\ Opened)'
  BY <1>1
<1>3. Waits /\ Alone /\ Opened /\ TypeInv
  BY <1>2, Parts
<1>4. \A j \in DOMAIN child : child[j].id # None
  BY <1>3, Numbered, Bounds
<1>5. Waits'
  BY <1>2, <1>3, <1>4 DEF Waits, OneMoves
<1>6. Alone'
  BY <1>3 DEF Alone, OneMoves
<1>7. Opened'
  <2>1. record # None => record.pid \in DOMAIN child
    BY <1>3 DEF TypeInv, Files
  <2>2. ASSUME record # None, child'[record.pid].pc # "dead"
        PROVE  child[record.pid].pc # "dead"
    BY <2>1, <2>2 DEF OneMoves
  <2>3. QED
    BY <1>3, <2>2 DEF Opened, OneMoves
<1>8. QED
  BY <1>5, <1>6, <1>7

\* The receipts stay in agreement when a process moves that had not ended, or has.
LEMMA TicksKept ==
  ASSUME TypeInv, Ticked, NEW k \in DOMAIN child, OneMoves(k),
         UNCHANGED <<full, terminal>>,
         child[k].pc \in {"ended", "dead"} => child'[k].pc \in {"ended", "dead"},
         \A j \in DOMAIN child : j # k => (j \in pending' <=> j \in pending),
         pending' \subseteq DOMAIN child,
         k \in pending' => /\ child'[k].pc \in {"pass", "dead"}
                           /\ k \in pending \/ child[k].pc \notin {"ended", "dead"},
         full /\ child'[k].pc = "pass" => k \in pending'
  PROVE  Ticked'
<1>1. Unshared' = Unshared
  BY DEF Unshared, OneMoves
<1>2. pending \subseteq DOMAIN child
  BY DEF TypeInv, Processes
<1>3. \A j \in pending' : child'[j].pc \in {"pass", "dead"}
  BY <1>2 DEF Ticked, OneMoves
<1>4. full' => \A j \in DOMAIN child' : child'[j].pc = "pass" => j \in pending'
  BY <1>2 DEF Ticked, OneMoves
<1>5. ASSUME terminal # None
      PROVE  /\ \E j \in DOMAIN child' : child'[j].id = terminal.id
             /\ Unshared' => \A j \in DOMAIN child' : child'[j].id = terminal.id =>
                  child'[j].pc \in {"ended", "dead"} /\ j \notin pending'
  <2>1. \E j \in DOMAIN child' : child'[j].id = terminal.id
    BY <1>5 DEF Ticked, OneMoves
  <2>2. ASSUME Unshared, NEW j \in DOMAIN child, child[j].id = terminal.id
        PROVE  child'[j].pc \in {"ended", "dead"} /\ j \notin pending'
    <3>1. child[j].pc \in {"ended", "dead"} /\ j \notin pending
      BY <1>5, <2>2 DEF Ticked
    <3>2. QED
      BY <3>1 DEF OneMoves
  <2>3. QED
    BY <1>1, <2>1, <2>2 DEF OneMoves
<1>6. QED
  BY <1>3, <1>4, <1>5 DEF Ticked

\* Where a process stands is what its step says.
LEMMA Placed ==
  ASSUME TypeInv, NEW k, NEW pc, Is(k, pc)
  PROVE  k \in DOMAIN child /\ child[k].pc = pc /\ child[k] \in Process
         /\ child[k].id \in Identity
BY Numbered DEF Is

\* A process that announces itself waits only when no tick is open.
LEMMA Announces ==
  ASSUME DayInv, NEW k, Announce(k)
  PROVE  DayInv'
<1>1. TypeInv /\ Ticked
  BY Parts
<1>2. /\ k \in DOMAIN child /\ child[k].pc = "new" /\ child[k].id \in Identity
      /\ UNCHANGED <<full, day, record, claim, quiesce, terminal, pending, control, bounds>>
      /\ beat' = child[k].id
  BY <1>1, Placed DEF Announce
<1>3. \/ OneMoves(k) /\ child'[k].pc = "ending"
      \/ OneMoves(k) /\ child'[k].pc = "waiting" /\ (full => pending = {})
  BY <1>1, <1>2, Turned DEF Announce
<1>4. TypeInv'
  BY <1>1, <1>2, <1>3, MovesTyped DEF TypeInv, Files, Processes, Counted, bounds
<1>5. k \notin pending
  BY <1>1, <1>2 DEF Ticked
<1>6. Ticked'
  BY <1>1, <1>2, <1>3, <1>5, TicksKept DEF TypeInv, Processes
<1>7. (Unshared /\ full => Waits /\ Alone /\ Opened)'
  <2>1. child'[k].pc = "waiting" /\ full => \A j \in DOMAIN child : child[j].pc # "pass"
    BY <1>1, <1>3 DEF Ticked
  <2>2. UNCHANGED <<full, gate, record, claim>>
    BY <1>2 DEF day
  <2>3. claim \in {claim, None} /\ OneMoves(k) /\ child'[k].pc # "pass"
    BY <1>3
  <2>4. QED
    BY <1>2, <2>1, <2>2, <2>3, Fewer
<1>8. UNCHANGED <<full, gate, record, control, starts, claim>>
  BY <1>2 DEF day, bounds
<1>9. QED
  BY <1>2, <1>3, <1>4, <1>6, <1>7, <1>8, Moves

\* A process that leaves its loop.
LEMMA LoopEnds ==
  ASSUME DayInv, NEW k, EndLoop(k)
  PROVE  DayInv'
<1>1. TypeInv /\ Ticked
  BY Parts
<1>2. /\ k \in DOMAIN child /\ child[k].pc = "waiting"
      /\ UNCHANGED <<full, day, sched, pending, control, bounds>>
  BY <1>1, Placed DEF EndLoop
<1>3. OneMoves(k) /\ child'[k].pc = "ending"
  BY <1>1, <1>2, Turned DEF EndLoop
<1>4. TypeInv'
  BY <1>1, <1>2, <1>3, MovesTyped DEF TypeInv, Files, Processes, Counted, bounds, sched
<1>5. k \notin pending
  BY <1>1, <1>2 DEF Ticked
<1>6. Ticked'
  BY <1>1, <1>2, <1>3, <1>5, TicksKept DEF TypeInv, Processes, sched
<1>7. UNCHANGED <<full, gate, record, control, starts, claim>>
  BY <1>2 DEF day, bounds, sched
<1>8. (Unshared /\ full => Waits /\ Alone /\ Opened)'
  BY <1>2, <1>3, <1>7, Fewer
<1>9. QED
  BY <1>2, <1>3, <1>4, <1>6, <1>7, <1>8, Moves

\* Who holds the lease enters the pass alone.
LEMMA TickBegins ==
  ASSUME DayInv, NEW k, BeginTick(k)
  PROVE  DayInv'
<1>1. TypeInv /\ Ticked /\ Recorded
  BY Parts
<1>2. /\ k \in DOMAIN child /\ child[k].pc = "waiting" /\ child[k].id \in Identity
      /\ UNCHANGED <<full, day, sched, control, bounds>>
      /\ pending' = IF full THEN pending \cup {k} ELSE pending
      /\ Leased(child[k].id)
  BY <1>1, Placed DEF BeginTick
<1>3. OneMoves(k) /\ child'[k].pc = "pass"
  BY <1>1, <1>2, Turned DEF BeginTick
<1>4. pending' \subseteq DOMAIN child
  BY <1>1, <1>2 DEF TypeInv, Processes
<1>5. TypeInv'
  BY <1>1, <1>2, <1>3, <1>4, MovesTyped DEF TypeInv, Files, Counted, bounds, sched
<1>6. k \notin pending
  BY <1>1, <1>2 DEF Ticked
<1>7. Ticked'
  BY <1>1, <1>2, <1>3, <1>4, <1>6, TicksKept DEF sched
<1>8. UNCHANGED <<full, gate, record, control, starts, claim>>
  BY <1>2 DEF day, bounds, sched
<1>9. Unshared' = Unshared
  BY <1>3 DEF Unshared, OneMoves
<1>10. ASSUME Unshared, full PROVE (Waits /\ Alone /\ Opened)'
  <2>1. Waits /\ Alone /\ Opened
    BY <1>10, Parts
  <2>2. record # None => record.pid \in DOMAIN child
    BY <1>1 DEF TypeInv, Files
  <2>3. \* the lease is the claim's, or the record's without a claim
        \/ claim = child[k].id
        \/ claim = None /\ record # None /\ record.pid = k
    BY <1>1, <1>2, <1>10, <2>2 DEF Leased, Recorded, Unshared
  <2>4. claim = child[k].id
    <3>1. CASE claim = None /\ record # None /\ record.pid = k
      <4>1. claim = IdentityOf(record) /\ child[record.pid].id = IdentityOf(record)
        BY <1>1, <1>2, <1>10, <3>1 DEF Recorded
      <4>2. QED
        BY <3>1, <4>1
    <3>2. QED
      BY <2>3, <3>1
  <2>5. ASSUME NEW j \in DOMAIN child, j # k PROVE child[j].pc # "pass" /\ claim # child[j].id
    BY <1>2, <1>10, <2>1, <2>4, <2>5 DEF Waits, Unshared
  <2>6. Waits'
    BY <1>2, <1>3, <1>8, <2>5 DEF Waits, OneMoves
  <2>7. Alone'
    BY <1>3, <2>5 DEF Alone, OneMoves
  <2>8. ASSUME record # None, child'[record.pid].pc # "dead" PROVE record.pid = k
    <3>1. child[record.pid].pc # "dead"
      BY <1>2, <1>3, <2>2, <2>8 DEF OneMoves
    <3>2. claim = IdentityOf(record) /\ child[record.pid].id = IdentityOf(record)
      BY <1>1, <1>10, <2>8, <3>1 DEF Recorded
    <3>3. QED
      BY <1>2, <1>10, <2>2, <2>4, <2>8, <3>2 DEF Unshared
  <2>9. Opened'
    BY <1>3, <1>8, <2>5, <2>8 DEF Opened, OneMoves
  <2>10. QED
    BY <2>6, <2>7, <2>9
<1>11. QED
  BY <1>2, <1>3, <1>5, <1>7, <1>8, <1>9, <1>10, Moves

\* A tick that ends takes its start off the unmatched ones.
LEMMA TickEnds ==
  ASSUME DayInv, NEW k, EndTick(k)
  PROVE  DayInv'
<1>1. TypeInv /\ Ticked
  BY Parts
<1>2. /\ k \in DOMAIN child /\ child[k].pc = "pass"
      /\ UNCHANGED <<full, day, sched, control, bounds>>
      /\ pending' = pending \ {k}
      /\ Become(k, "waiting") \/ Finish(k, FALSE)
  BY <1>1, Placed DEF EndTick
<1>3. OneMoves(k) /\ child'[k].pc \in {"waiting", "ending"}
  BY <1>1, <1>2, Turned
<1>4. pending' \subseteq DOMAIN child
  BY <1>1, <1>2 DEF TypeInv, Processes
<1>5. TypeInv'
  BY <1>1, <1>2, <1>3, <1>4, MovesTyped DEF TypeInv, Files, Counted, bounds, sched
<1>6. Ticked'
  BY <1>1, <1>2, <1>3, <1>4, TicksKept DEF sched
<1>7. UNCHANGED <<full, gate, record, control, starts, claim>>
  BY <1>2 DEF day, bounds, sched
<1>8. (Unshared /\ full => Waits /\ Alone /\ Opened)'
  <2>1. full => \A j \in DOMAIN child : child[j].pc = "pass" /\ Unshared => j = k
    BY <1>2, Parts DEF Alone
  <2>2. QED
    BY <1>2, <1>3, <1>7, <2>1, Fewer
<1>9. QED
  BY <1>2, <1>3, <1>5, <1>6, <1>7, <1>8, Moves

\* A process writes its receipt when no tick of it is open.
LEMMA Receipts ==
  ASSUME DayInv, NEW k, WriteTerminal(k)
  PROVE  DayInv'
<1>1. TypeInv /\ Ticked
  BY Parts
<1>2. /\ k \in DOMAIN child /\ child[k].pc = "ending" /\ child[k] \in Process
      /\ UNCHANGED <<full, day, record, claim, beat, quiesce, pending, control, bounds>>
      /\ terminal' = [id |-> child[k].id, clean |-> child[k].clean]
  BY <1>1, Placed DEF WriteTerminal
<1>3. OneMoves(k) /\ child'[k].pc = "ended"
  BY <1>1, <1>2, Turned DEF WriteTerminal
<1>4. terminal' \in Terminal /\ terminal'.id = child[k].id
  <2>1. child[k].id \in Identity /\ child[k].clean \in BOOLEAN
    BY <1>2, Zenon DEF Process
  <2>2. QED
    BY <1>2, <2>1 DEF Terminal
<1>5. TypeInv'
  BY <1>1, <1>2, <1>3, <1>4, MovesTyped DEF TypeInv, Files, Processes, Counted, bounds
<1>6. Unshared' = Unshared
  BY <1>3 DEF Unshared, OneMoves
<1>7. Ticked'
  <2>1. pending \subseteq DOMAIN child /\ k \notin pending
    BY <1>1, <1>2 DEF TypeInv, Processes, Ticked
  <2>2. /\ \A j \in pending' : child'[j].pc \in {"pass", "dead"}
        /\ full' => \A j \in DOMAIN child' : child'[j].pc = "pass" => j \in pending'
    BY <1>1, <1>2, <1>3, <2>1 DEF Ticked, OneMoves
  <2>3. \E j \in DOMAIN child' : child'[j].id = terminal'.id
    BY <1>2, <1>3, <1>4 DEF OneMoves
  <2>4. ASSUME Unshared, NEW j \in DOMAIN child, child[j].id = terminal'.id
        PROVE  child'[j].pc \in {"ended", "dead"} /\ j \notin pending'
    <3>1. j = k
      BY <1>2, <1>4, <2>4 DEF Unshared
    <3>2. QED
      BY <1>2, <1>3, <2>1, <3>1
  <2>5. QED
    BY <1>3, <1>6, <2>2, <2>3, <2>4 DEF Ticked, OneMoves
<1>8. UNCHANGED <<full, gate, record, control, starts, claim>>
  BY <1>2 DEF day, bounds
<1>9. (Unshared /\ full => Waits /\ Alone /\ Opened)'
  BY <1>2, <1>3, <1>8, Fewer
<1>10. QED
  BY <1>2, <1>3, <1>5, <1>7, <1>8, <1>9, Moves

\* A process that is gone, with or without giving its claim back.
LEMMA Goners ==
  ASSUME DayInv, NEW k, LeaveProcess(k) \/ ChildDies(k)
  PROVE  DayInv'
<1>1. TypeInv /\ Ticked
  BY Parts
<1>2. /\ k \in DOMAIN child /\ child[k].pc # "dead"
      /\ UNCHANGED <<full, day, record, beat, quiesce, terminal, pending, control,
                     starts, stops, timeouts>>
      /\ claim' = claim \/ (claim = child[k].id /\ claim' = None)
      /\ crashes' \in 0 .. MaxCrashes
      /\ Become(k, "dead")
  <2>1. CASE LeaveProcess(k)
    BY <1>1, <2>1, Placed DEF LeaveProcess, Release, bounds, TypeInv, Counted
  <2>2. CASE ChildDies(k)
    <3>1. crashes' \in 0 .. MaxCrashes
      BY <1>1, <2>2, Bounds DEF ChildDies, Crash, TypeInv, Counted
    <3>2. QED
      BY <2>2, <3>1 DEF ChildDies, Alive, sched
  <2>3. QED
    BY <2>1, <2>2
<1>3. OneMoves(k) /\ child'[k].pc = "dead"
  BY <1>1, <1>2, Turned
<1>4. TypeInv'
  BY <1>1, <1>2, <1>3, MovesTyped DEF TypeInv, Files, Processes
<1>5. Ticked'
  BY <1>1, <1>2, <1>3, TicksKept DEF TypeInv, Processes
<1>6. UNCHANGED <<full, gate, record, control, starts>>
  BY <1>2 DEF day
<1>7. (Unshared /\ full => Waits /\ Alone /\ Opened)'
  BY <1>2, <1>3, <1>6, Fewer
<1>8. QED
  BY <1>2, <1>3, <1>4, <1>5, <1>6, <1>7, Moves

-----------------------------------------------------------------------------
(* A process that is terminated, and the recovery verb *)

\* A stop that terminates the process it waits for.
LEMMA Terminates ==
  ASSUME DayInv, NEW c \in Controllers, Terminate(c)
  PROVE  DayInv'
<1>1. /\ TypeInv /\ Nonces /\ Named /\ Recorded /\ Ticked
      /\ \A d \in Controllers : Novel(d) /\ Given(d) /\ Holds(d) /\ Awaits(d)
  BY Parts
<1>2. PICK k : k = control[c].pid
  OBVIOUS
<1>3. /\ UNCHANGED <<full, day, claim, beat, quiesce, terminal, pending, starts, stops, crashes>>
      /\ control[c].pc = "drain" /\ child[k].pc # "dead" /\ Become(k, "dead")
      /\ timeouts < MaxTimeouts /\ timeouts' = timeouts + 1
      /\ record' = None /\ Unproven(c, Torn(c))
  BY <1>2 DEF Terminate, At, My, Alive, Become
<1>4. k \in DOMAIN child
  BY <1>1, <1>2, <1>3, Typed DEF Sound
<1>5. OneMoves(k) /\ child'[k].pc = "dead"
  BY <1>1, <1>3, <1>4, Turned
<1>6. Torn(c) \in Pc \ (Early \cup Spawning \cup {"drain"})
  BY DEF Torn, Pc, Closing, Early, Spawning
<1>7. /\ control' \in [Controllers -> Controller] /\ Others(c)
      /\ control'[c].pc = Torn(c) /\ control'[c].me = control[c].me
  <2>1. /\ control' \in [Controllers -> Controller] /\ Others(c)
        /\ control'[c] = [control[c] EXCEPT !.pc = Torn(c), !.clean = FALSE, !.proven = FALSE]
    BY <1>1, <1>3, <1>6, GoesOnUnproven
  <2>2. control[c] \in Controller
    BY <1>1, Typed
  <2>3. QED
    BY <2>1, <2>2 DEF Controller
<1>8. control'[c].pc \notin Early \cup Spawning \cup {"drain"}
  BY <1>6, <1>7
<1>9. TypeInv'
  <2>1. Sound(control'[c], child')
    BY <1>8 DEF Sound, Early, Spawning
  <2>2. Staff'
    BY <1>1, <1>5, <1>7, <2>1, Staffed DEF OneMoves
  <2>3. timeouts' \in 0 .. MaxTimeouts
    BY <1>1, <1>3, Bounds DEF TypeInv, Counted
  <2>4. Files' /\ Processes' /\ Counted'
    BY <1>1, <1>3, <1>5, <2>3 DEF TypeInv, Files, Processes, Counted, day, OneMoves
  <2>5. QED
    BY <2>2, <2>4 DEF TypeInv
<1>10. Unshared' = Unshared
  BY <1>5 DEF Unshared, OneMoves
<1>11. Nonces'
  BY <1>1, <1>3, <1>5, <1>7 DEF Nonces, My, Others, OneMoves
<1>12. ASSUME NEW d \in Controllers PROVE (Novel(d) /\ Given(d) /\ Holds(d) /\ Awaits(d))'
  <2>1. CASE d = c
    BY <1>8, <2>1 DEF Novel, Given, Holds, Awaits, My, Spawning
  <2>2. CASE d # c
    <3>1. control'[d] = control[d] /\ Novel(d) /\ Given(d) /\ Holds(d) /\ Awaits(d)
      BY <1>1, <1>7, <2>2 DEF Others
    <3>2. Novel(d)' /\ Given(d)' /\ Holds(d)'
      BY <1>3, <1>5, <1>10, <3>1 DEF Novel, Given, Holds, My, OneMoves
    <3>3. Awaits(d)'
      <4>1. SUFFICES ASSUME control[d].pc = "handshake" PROVE Awaits(d)'
        BY <3>1 DEF Awaits, My
      <4>2. control[d].pid \in DOMAIN child
        BY <1>1, <4>1, Typed DEF Sound
      <4>3. child'[control[d].pid].pc # "dead" => child[control[d].pid].pc # "dead"
        BY <1>3, <1>5, <4>2 DEF OneMoves
      <4>4. QED
        BY <1>3, <1>7, <1>8, <1>10, <3>1, <4>1, <4>3 DEF Awaits, My, Others, Spawning, day
    <3>4. QED
      BY <3>2, <3>3
  <2>3. QED
    BY <2>1, <2>2
<1>13. Named' /\ Recorded'
  BY <1>1, <1>3, <1>5 DEF Named, Recorded, day, OneMoves
<1>14. Ticked'
  BY <1>1, <1>3, <1>4, <1>5, TicksKept DEF TypeInv, Processes
<1>15. (Unshared /\ full => Waits /\ Alone /\ Opened)'
  <2>1. SUFFICES ASSUME Unshared, full PROVE (Waits /\ Alone /\ Opened)'
    BY <1>3, <1>10
  <2>2. Waits' /\ Alone'
    BY <1>3, <1>5, <2>1, Parts DEF Waits, Alone, OneMoves
  <2>3. Opened'
    BY <1>3 DEF Opened
  <2>4. QED
    BY <2>2, <2>3
<1>16. QED
  BY <1>9, <1>11, <1>12, <1>13, <1>14, <1>15 DEF DayInv

\* Recovery takes the record of a dead process away, and its claim.
LEMMA Recovers ==
  ASSUME DayInv, Recover
  PROVE  DayInv'
<1>1. /\ TypeInv /\ Nonces /\ Named /\ Recorded /\ Ticked
      /\ \A d \in Controllers : Novel(d) /\ Given(d) /\ Holds(d) /\ Awaits(d)
  BY Parts
<1>2. /\ UNCHANGED <<full, lock, watcher, shutdown, beat, quiesce, terminal, pending,
                     control, child, bounds>>
      /\ record # None /\ child[record.pid].pc = "dead" /\ record' = None
      /\ gate # None /\ gate' = [gate EXCEPT !.recovery = FALSE]
      /\ claim' = claim \/ (claim = IdentityOf(record) /\ claim' = None)
  BY DEF Recover, RecoveryAccepted, ConsumeRecord, Release, Alive
<1>3. /\ record.pid \in DOMAIN child /\ child[record.pid].id = IdentityOf(record)
      /\ gate \in Gate
  BY <1>1, <1>2 DEF TypeInv, Files, Recorded
<1>4. gate' \in Gate
  BY <1>1, <1>2, Amended
<1>5. gate'.position = gate.position /\ gate'.scheduler = gate.scheduler
  BY <1>2, <1>3 DEF Gate
<1>6. TypeInv'
  <2>1. Files'
    BY <1>1, <1>2, <1>4 DEF TypeInv, Files
  <2>2. Processes' /\ Counted' /\ Staff'
    BY <1>1, <1>2 DEF TypeInv, Processes, Counted, Staff, bounds
  <2>3. QED
    BY <2>1, <2>2 DEF TypeInv
<1>7. Unshared' = Unshared
  BY <1>2, Zenon DEF Unshared
<1>8. Nonces' /\ Named' /\ Recorded'
  BY <1>1, <1>2, <1>5 DEF Nonces, Named, Recorded, My, bounds
<1>9. Ticked'
  BY <1>1, <1>2, <1>7 DEF Ticked
<1>10. ASSUME NEW d \in Controllers PROVE (Novel(d) /\ Given(d) /\ Holds(d) /\ Awaits(d))'
  <2>1. Novel(d) /\ Given(d) /\ Holds(d) /\ Awaits(d)
    BY <1>1
  <2>2. Novel(d)' /\ Given(d)'
    BY <1>2, <1>7, <2>1 DEF Novel, Given, My
  <2>3. Holds(d)'
    BY <1>2, <1>3, <2>1 DEF Holds, My
  <2>4. Awaits(d)'
    <3>1. SUFFICES ASSUME control[d].pc = "handshake" PROVE Awaits(d)'
      BY <1>2 DEF Awaits, My
    <3>2. control[d].pid \in DOMAIN child /\ child[control[d].pid].id = control[d].id
      BY <1>1, <3>1, Typed DEF Sound
    <3>3. ASSUME Unshared, child[control[d].pid].pc # "dead" PROVE claim' = control[d].id
      <4>1. claim = control[d].id
        BY <2>1, <3>1, <3>3 DEF Awaits, My
      <4>2. claim # IdentityOf(record)
        BY <1>2, <1>3, <3>2, <3>3, <4>1 DEF Unshared
      <4>3. QED
        BY <1>2, <4>1, <4>2
    <3>4. QED
      BY <1>2, <1>5, <1>7, <2>1, <3>1, <3>3 DEF Awaits, My
  <2>5. QED
    BY <2>2, <2>3, <2>4
<1>11. (Unshared /\ full => Waits /\ Alone /\ Opened)'
  <2>1. SUFFICES ASSUME Unshared, full PROVE (Waits /\ Alone /\ Opened)'
    BY <1>2, <1>7
  <2>2. \A k \in DOMAIN child : child[k].id # None
    BY <1>1, Numbered, Bounds
  <2>3. Waits' /\ Alone'
    BY <1>2, <2>1, <2>2, Parts DEF Waits, Alone
  <2>4. Opened'
    BY <1>2 DEF Opened
  <2>5. QED
    BY <2>3, <2>4
<1>12. QED
  BY <1>6, <1>8, <1>9, <1>10, <1>11 DEF DayInv

-----------------------------------------------------------------------------
(* The theorems *)

\* A day begins with no files and no processes.
LEMMA DayStarts ==
  ASSUME Init
  PROVE  DayInv
<1>1. Idle \in Controller
  BY Bounds DEF Idle, Controller, Pc
<1>2. /\ control = [c \in Controllers |-> Idle] /\ child = <<>> /\ pending = {}
      /\ record = None /\ claim = None /\ beat = None /\ quiesce = None /\ terminal = None
      /\ lock = 0 /\ gate = None /\ watcher = None
      /\ starts = 0 /\ stops = 0 /\ timeouts = 0 /\ crashes = 0
  BY DEF Init
<1>3. full \in BOOLEAN
  BY Zenon DEF Init
<1>4. DOMAIN child = {} /\ Len(child) = 0 /\ child \in Seq(Process)
  BY <1>2
<1>5. \A c \in Controllers : control[c] = Idle /\ Idle.pc = "idle" /\ Idle.me = 0
  BY <1>2 DEF Idle
<1>6. TypeInv
  <2>1. Files
    BY <1>2, <1>3, Bounds DEF Files
  <2>2. Processes /\ Counted
    BY <1>2, <1>4, Bounds DEF Processes, Counted
  <2>3. \A c \in Controllers : Sound(control[c], child)
    BY <1>5 DEF Sound, Early, Spawning
  <2>4. QED
    BY <1>1, <1>2, <2>1, <2>2, <2>3 DEF TypeInv, Staff
<1>7. Nonces
  BY <1>2, <1>4, <1>5 DEF Nonces, My
<1>8. \A c \in Controllers : Novel(c) /\ Given(c) /\ Holds(c) /\ Awaits(c)
  BY <1>5 DEF Novel, Given, Holds, Awaits, My, Early
<1>9. Named /\ Recorded /\ Ticked
  BY <1>2, <1>4 DEF Named, Recorded, Ticked
<1>10. Waits /\ Alone /\ Opened
  BY <1>2, <1>4 DEF Waits, Alone, Opened
<1>11. QED
  BY <1>6, <1>7, <1>8, <1>9, <1>10 DEF DayInv

\* Every step of a start preserves the invariant.
LEMMA StartStep ==
  ASSUME DayInv, NEW c \in Controllers, Starting(c)
  PROVE  DayInv'
<1>1. TypeInv
  BY Parts
<1>2. CASE BeginStart(c)
  BY <1>2, Begins
<1>3. CASE StartMisconfigured(c) \/ BrokerFails(c) \/ Relicense(c)
  BY <1>1, <1>3, StartEnds, QuietOne
<1>4. CASE ReadLock(c) \/ FenceGate(c) \/ UnlinkStale(c) \/ LinkLock(c)
  BY <1>1, <1>4, StartLocks, QuietOne
<1>5. CASE EnsureWatcher(c) \/ Decide(c)
  BY <1>1, <1>5, StartDecides, QuietOne
<1>6. CASE NoScheduler(c) \/ (AdoptScheduler(c) /\ record # None /\ Alive(record.pid))
  BY <1>1, <1>6, StartAdopts, QuietOne
<1>7. CASE AdoptScheduler(c) /\ ~(record # None /\ Alive(record.pid))
  BY <1>7, Adopts
<1>8. CASE ClaimStart(c)
  BY <1>8, Claims
<1>9. CASE SpawnScheduler(c)
  BY <1>9, Spawns
<1>10. CASE SpawnFails(c) \/ HandshakeFails(c)
  BY <1>10, GivesUp
<1>11. CASE Handshake(c)
  BY <1>11, Records
<1>12. QED
  BY <1>2, <1>3, <1>4, <1>5, <1>6, <1>7, <1>8, <1>9, <1>10, <1>11 DEF Starting

\* Every step of a stop preserves the invariant.
LEMMA StopStep ==
  ASSUME DayInv, NEW c \in Controllers, Stopping(c) \/ ControllerDies(c)
  PROVE  DayInv'
<1>1. TypeInv /\ Recorded
  BY Parts
<1>2. CASE BeginStop(c) \/ Quiesce(c)
  BY <1>1, <1>2, StopBegins, QuietOne
<1>3. CASE \/ TakenOver(c) \/ NoRecord(c) \/ LeaveAlone(c) \/ Abandon(c)
           \/ CancelEntries(c) \/ SettleHandoffs(c) \/ FinalAudit(c) \/ AskReviewer(c)
           \/ CompareLock(c)
  BY <1>1, <1>3, StopGoesOn, QuietOne
<1>4. CASE ShutGate(c) \/ CheckOwner(c) \/ MarkRecovery(c)
  BY <1>1, <1>4, StopWritesGate, QuietOne
<1>5. CASE StopWatcher(c) \/ UnlinkLock(c) \/ Publish(c) \/ Withdraw(c) \/ ControllerDies(c)
  BY <1>1, <1>5, StopEnds, QuietOne
<1>6. CASE Drained(c)
  BY <1>6, Drains
<1>7. CASE Terminate(c)
  BY <1>7, Terminates
<1>8. QED
  BY <1>2, <1>3, <1>4, <1>5, <1>6, <1>7 DEF Stopping

\* Every step preserves the invariant.
LEMMA DayStep ==
  ASSUME DayInv, [Next]_vars
  PROVE  DayInv'
<1>1. CASE \E c \in Controllers : Starting(c) \/ Stopping(c) \/ ControllerDies(c)
  BY <1>1, StartStep, StopStep
<1>2. CASE \E k \in 1 .. MaxChildren : Scheduling(k) \/ ChildDies(k)
  BY <1>2, Announces, LoopEnds, TickBegins, TickEnds, Receipts, Goners DEF Scheduling
<1>3. CASE Recover \/ WatcherDies
  BY <1>3, Recovers, WatcherGone
<1>4. CASE UNCHANGED vars
  <2>1. UNCHANGED <<full, lock, gate, watcher, shutdown, record, claim, beat, quiesce,
                    terminal, pending, control, child, starts, stops, timeouts, crashes>>
    BY <1>4 DEF vars, day, sched, bounds
  <2>2. TypeInv
    BY Parts
  <2>3. TypeInv' /\ GateStep
    <3>1. TypeInv'
      BY <2>1, <2>2 DEF TypeInv, Files, Processes, Counted, Staff
    <3>2. GateStep
      BY <2>1, <2>2, GateKept
    <3>3. QED
      BY <3>1, <3>2
  <2>4. \A d \in Controllers : Keeps(d)
    BY <2>1 DEF Keeps
  <2>5. QED
    BY <2>1, <2>3, <2>4, QuietStep
<1>5. QED
  BY <1>1, <1>2, <1>3, <1>4 DEF Next

\* The inductive invariant: nonces are fresh, the claim is the recorded live process's
\* or that of the start that waits for its process, and as long as no identity is
\* shared nobody who waits holds the claim while one is in a pass.
THEOREM DayInvariant == Spec => []DayInv
<1>1. QED
  BY DayStarts, DayStep, PTL DEF Spec

\* The invariant has the types of the state.
LEMMA DayTyped == DayInv => TypeOK
<1>1. SUFFICES ASSUME DayInv PROVE TypeOK
  OBVIOUS
<1>2. TypeInv
  BY <1>1, Parts
<1>3. gate # None => /\ gate.position \in {"OPEN", "PROOF_ONLY", "CLOSED"}
                     /\ gate.session \in 0 .. MaxStarts /\ gate.token \in 0 .. MaxStarts
  BY <1>2 DEF TypeInv, Files, Gate
<1>4. gate # None => gate.recovery \in BOOLEAN
  BY <1>2, Zenon DEF TypeInv, Files, Gate
<1>5. record = None \/ (IdentityOf(record) \in Identity /\ record.pid \in DOMAIN child)
  BY <1>2 DEF TypeInv, Files, Record, IdentityOf, Identity
<1>6. /\ child \in Seq(Process) /\ Len(child) <= MaxChildren
      /\ pending \subseteq DOMAIN child
      /\ {claim, beat, quiesce} \subseteq Identity \cup {None}
      /\ full \in BOOLEAN /\ lock \in 0 .. MaxStarts
  BY <1>2 DEF TypeInv, Files, Processes
<1>7. /\ starts <= MaxStarts /\ stops <= MaxStops
      /\ timeouts <= MaxTimeouts /\ crashes <= MaxCrashes
  BY <1>2, Bounds DEF TypeInv, Counted
<1>8. QED
  BY <1>3, <1>4, <1>5, <1>6, <1>7 DEF TypeOK

\* The state has its type.
THEOREM TypeCorrect == Spec => []TypeOK
<1>1. QED
  BY DayInvariant, DayTyped, PTL

\* As long as no identity is shared, one scheduler holds the licence of the day: no
\* two are in a pass, and none but the one that an admitting gate names.
THEOREM LicenceStaysSingle == Spec => []LicenceIsSingle
<1>1. DayInv => LicenceIsSingle
  <2>1. SUFFICES ASSUME DayInv, Unshared PROVE LicenceIsExclusive /\ PassesAlone
    BY DEF LicenceIsSingle
  <2>2. full => Alone /\ Opened
    BY <2>1, Parts
  <2>3. PassesAlone
    BY <2>2 DEF PassesAlone, Alone, Is
  <2>4. LicenceIsExclusive
    BY <2>2 DEF LicenceIsExclusive, Admits, StrictAuthority, Alive, Opened, Is
  <2>5. QED
    BY <2>3, <2>4
<1>2. QED
  BY <1>1, DayInvariant, PTL

\* As long as no identity is shared, a drain that is reported clean leaves no process
\* of that identity at work and no tick of it without an end.
THEOREM DrainsAreProven == Spec => CleanDrainIsProven
<1>1. ASSUME DayInv, Unshared, NEW c \in Controllers, Drained(c), control'[c].clean,
             NEW k \in DOMAIN child, child[k].id = My(c).id
      PROVE  (Is(k, "ended") \/ Is(k, "dead")) /\ k \notin pending
  <2>1. TypeInv /\ Ticked
    BY <1>1, Parts
  <2>2. CASE CleanExit(My(c).id)
    BY <1>1, <2>1, <2>2 DEF CleanExit, Ticked, Is
  <2>3. CASE ~CleanExit(My(c).id)
    <3>1. Unproven(c, Torn(c))
      BY <1>1, <2>3 DEF Drained
    <3>2. control[c] \in Controller
      BY <1>1, <2>1, Typed
    <3>3. Torn(c) \in Pc
      BY DEF Torn, Pc, Closing
    <3>4. control'[c] = [control[c] EXCEPT !.pc = Torn(c), !.clean = FALSE, !.proven = FALSE]
      BY <2>1, <3>1, <3>3, GoesOnUnproven
    <3>5. ~control'[c].clean
      BY <3>2, <3>4 DEF Controller
    <3>6. QED
      BY <1>1, <3>5
  <2>4. QED
    BY <2>2, <2>3
<1>2. DayInv => [Unshared => \A c \in Controllers : Drained(c) /\ control'[c].clean =>
                   \A k \in DOMAIN child : child[k].id = My(c).id =>
                     (Is(k, "ended") \/ Is(k, "dead")) /\ k \notin pending]_vars
  BY <1>1
<1>3. QED
  BY <1>2, DayInvariant, PTL DEF CleanDrainIsProven

-----------------------------------------------------------------------------
(* Sums of what requests cost (PacingLedger) *)

\* An instance sums as Totals does.
LEMMA PacingSums == \A f : Pacing!Total(f) = Total(f)
<1>1. \A S : Pacing!Cardinality(S) = Cardinality(S)
  BY DEF Cardinality, Pacing!Cardinality
<1>2. QED
  BY <1>1 DEF Pacing!Total, Pacing!Units, Total, Units

\* The cost of finitely many requests is a number.
LEMMA UnitsAreNumber ==
  ASSUME NEW S, IsFiniteSet(S), NEW f \in [S -> Nat]
  PROVE  Pacing!Total(f) \in Nat
BY TotalIsNumber, PacingSums

\* Fewer and cheaper requests cost less.
LEMMA UnitsAreMonotone ==
  ASSUME NEW S, NEW T, IsFiniteSet(T), S \subseteq T,
         NEW f \in [S -> Nat], NEW g \in [T -> Nat], \A x \in S : f[x] <= g[x]
  PROVE  Pacing!Total(f) <= Pacing!Total(g)
<1>1. Total(f) <= Total(g)
  BY TotalIsMonotone
<1>2. QED
  BY <1>1, PacingSums

\* One more request adds its cost.
LEMMA UnitsOfOneMore ==
  ASSUME NEW T, IsFiniteSet(T), NEW f \in [T -> Nat], NEW x \in T
  PROVE  Pacing!Total(f) = Pacing!Total([y \in T \ {x} |-> f[y]]) + f[x]
<1> DEFINE rest == [y \in T \ {x} |-> f[y]]
<1>1. Total(f) = Total(rest) + f[x]
  BY TotalOfOneMore
<1> HIDE DEF rest
<1>2. Pacing!Total(f) = Pacing!Total(rest) + f[x]
  BY <1>1, PacingSums
<1>3. QED
  BY <1>2 DEF rest

-----------------------------------------------------------------------------
(* The quota (PacingLedger) *)

Row == [state : {"ACTIVE", "COMMITTED", "RELEASED", "EXPIRED"}, cost : 1 .. Phase2Cost,
        expires : Nat, low : BOOLEAN]
Request == [id : Nat, cost : Nat, at : Nat, low : BOOLEAN]
Client == [pc : {"idle", "waiting", "write"}, id : Nat, clock : Nat, scans : BOOLEAN,
           scan : Nat \cup {None}, probe : Nat, used : Nat]

\* What went out and what is held at time t: all of it, or what is not management's.
Spent(below, used, over, t) ==
  {u \in used : u.at > t - Window /\ u.id \notin over /\ (below => u.low)}
Held(below, table) == {i \in Pacing!Active(table) : below => table[i].low}

Reserve(below, table) == Pacing!Total([i \in Held(below, table) |-> table[i].cost])
Load(below, used, over, t, table) ==
  Pacing!Cost(Spent(below, used, over, t)) + Reserve(below, table)

Ceiling(below) == Limit - (IF below THEN Floor ELSE 0)

Within(used, over, t, table) ==
  \A below \in BOOLEAN : Load(below, used, over, t, table) <= Ceiling(below)

\* What a client refers to exists, and a scan's clock is not ahead.
ClientInv(c, table, t) ==
  /\ c.pc # "idle" => c.id \in 1 .. Len(table)
  /\ c.scan # None => c.scan \in 0 .. t
  /\ (c.pc # "idle" /\ c.scans) => c.scan # None
  /\ c.probe # 0 =>
       /\ c.probe \in 1 .. Len(table) /\ c.scan # None /\ c.used \in 0 .. Phase2Cost
       /\ table[c.probe].state = "ACTIVE" => table[c.probe].cost = Phase2Cost

LedgerTypes ==
  /\ clock \in Nat
  /\ reservations \in Seq(Row)
  /\ usage \in SUBSET Request /\ IsFiniteSet(usage)
  /\ client \in [Workers -> Client]

QuotaInv ==
  /\ LedgerTypes
  /\ \A w \in Workers : ClientInv(client[w], reservations, clock)
  /\ Within(usage, overtaken, clock, reservations)

\* The parameters of the ledger are numbers.
LEMMA QuotaNumbers ==
  Pacing!PacingAssumption =>
    /\ Limit \in Nat /\ Window \in Nat /\ Floor \in Nat /\ Floor <= Limit
    /\ Ttl \in Nat /\ Phase2Cost \in Nat /\ Phase2Cost >= 1
    /\ DiscoveryReserve \in Nat /\ Floor <= DiscoveryReserve
<1>1. SUFFICES ASSUME Pacing!PacingAssumption
               PROVE  /\ Limit \in Nat /\ Window \in Nat /\ Floor \in Nat /\ Floor <= Limit
                      /\ Ttl \in Nat /\ Phase2Cost \in Nat /\ Phase2Cost >= 1
                      /\ DiscoveryReserve \in Nat /\ Floor <= DiscoveryReserve
  OBVIOUS
<1>2. /\ {Limit, Window, Ttl, Phase2Cost} \subseteq Nat \ {0} /\ Floor \in 0 .. Limit - 1
      /\ DiscoveryReserve \in Floor .. Limit - 1
  BY <1>1 DEF Pacing!PacingAssumption
<1>3. QED
  BY <1>2

\* What a reservation holds is a number.
LEMMA HeldIsTyped ==
  ASSUME NEW below \in BOOLEAN, NEW table \in Seq(Row), Pacing!PacingAssumption
  PROVE  /\ Held(below, table) \subseteq 1 .. Len(table)
         /\ [i \in Held(below, table) |-> table[i].cost] \in [Held(below, table) -> Nat]
<1>1. Held(below, table) \subseteq 1 .. Len(table)
  BY DEF Held, Pacing!Active
<1>2. Phase2Cost \in Nat
  BY QuotaNumbers
<1>3. \A i \in 1 .. Len(table) : table[i] \in Row
  OBVIOUS
<1>4. \A i \in 1 .. Len(table) : table[i].cost \in Nat
  BY <1>2, <1>3 DEF Row
<1>5. QED
  BY <1>1, <1>4

\* What is spent and what is held are numbers.
LEMMA LoadIsNumber ==
  ASSUME Pacing!PacingAssumption,
         NEW below \in BOOLEAN, NEW used \in SUBSET Request, IsFiniteSet(used), NEW over,
         NEW t \in Nat, NEW table \in Seq(Row)
  PROVE  /\ IsFiniteSet(Spent(below, used, over, t)) /\ IsFiniteSet(Held(below, table))
         /\ Pacing!Cost(Spent(below, used, over, t)) \in Nat
         /\ Reserve(below, table) \in Nat
<1> DEFINE S == Spent(below, used, over, t)
           H == Held(below, table)
<1>1. IsFiniteSet(S)
  <2>1. S \subseteq used
    BY DEF Spent
  <2>2. QED
    BY <2>1, FS_Subset
<1>2. IsFiniteSet(H)
  <2>1. H \subseteq 1 .. Len(table)
    BY HeldIsTyped
  <2>2. Len(table) \in Nat /\ IsFiniteSet(1 .. Len(table))
    BY FS_Interval
  <2>3. QED
    BY <2>1, <2>2, FS_Subset
<1>3. [u \in S |-> u.cost] \in [S -> Nat]
  BY DEF Spent, Request
<1>4. [i \in H |-> table[i].cost] \in [H -> Nat]
  BY HeldIsTyped
<1> HIDE DEF S, H
<1>5. Pacing!Total([u \in S |-> u.cost]) \in Nat
  BY <1>1, <1>3, UnitsAreNumber
<1>6. Pacing!Total([i \in H |-> table[i].cost]) \in Nat
  BY <1>2, <1>4, UnitsAreNumber
<1>7. QED
  BY <1>1, <1>2, <1>5, <1>6 DEF S, H, Pacing!Cost, Reserve

\* A smaller set of requests costs less.
LEMMA CostIsMonotone ==
  ASSUME NEW used \in SUBSET Request, IsFiniteSet(used), NEW fewer \in SUBSET used
  PROVE  /\ Pacing!Cost(fewer) \in Nat /\ Pacing!Cost(used) \in Nat
         /\ Pacing!Cost(fewer) <= Pacing!Cost(used)
<1>1. IsFiniteSet(fewer)
  BY FS_Subset
<1>2. /\ [u \in fewer |-> u.cost] \in [fewer -> Nat]
      /\ [u \in used |-> u.cost] \in [used -> Nat]
      /\ \A u \in fewer : [v \in fewer |-> v.cost][u] <= [v \in used |-> v.cost][u]
  BY DEF Request
<1>3. QED
  BY <1>1, <1>2, UnitsAreMonotone, UnitsAreNumber DEF Pacing!Cost

\* Nothing new is spent and nothing new is held: the quota holds as before.
LEMMA LessIsWithin ==
  ASSUME NEW used \in SUBSET Request, IsFiniteSet(used), NEW over, NEW t \in Nat,
         NEW table \in Seq(Row), Within(used, over, t, table),
         NEW over2, NEW t2 \in Nat, NEW table2 \in Seq(Row), Pacing!PacingAssumption,
         over \subseteq over2, t <= t2,
         \A i \in Pacing!Active(table2) :
           /\ i \in Pacing!Active(table)
           /\ table2[i].cost = table[i].cost /\ table2[i].low = table[i].low
  PROVE  Within(used, over2, t2, table2)
<1> SUFFICES ASSUME NEW below \in BOOLEAN
             PROVE  Load(below, used, over2, t2, table2) <= Ceiling(below)
  BY DEF Within
<1>1. Window \in Nat /\ Limit \in Nat /\ Floor \in Nat
  BY QuotaNumbers
<1>2. Spent(below, used, over2, t2) \subseteq Spent(below, used, over, t)
  BY <1>1 DEF Spent, Request
<1>3. /\ Pacing!Cost(Spent(below, used, over2, t2)) \in Nat
      /\ Pacing!Cost(Spent(below, used, over, t)) \in Nat
      /\ Pacing!Cost(Spent(below, used, over2, t2)) <=
           Pacing!Cost(Spent(below, used, over, t))
  <2>1. Spent(below, used, over, t) \in SUBSET Request
    BY DEF Spent
  <2>2. IsFiniteSet(Spent(below, used, over, t))
    BY LoadIsNumber
  <2>3. QED
    BY <1>2, <2>1, <2>2, CostIsMonotone
<1>4. Reserve(below, table2) <= Reserve(below, table)
  <2> DEFINE S == Held(below, table2)
             T == Held(below, table)
  <2>1. S \subseteq T /\ \A i \in S : table2[i].cost = table[i].cost
    BY DEF Held
  <2>2. [i \in S |-> table2[i].cost] \in [S -> Nat]
    BY HeldIsTyped
  <2>3. [i \in T |-> table[i].cost] \in [T -> Nat]
    BY HeldIsTyped
  <2>4. IsFiniteSet(T)
    BY LoadIsNumber
  <2> HIDE DEF S, T
  <2>5. \A i \in S : [j \in S |-> table2[j].cost][i] <= [j \in T |-> table[j].cost][i]
    BY <2>1, <2>2, <2>3
  <2>6. Pacing!Total([i \in S |-> table2[i].cost]) <= Pacing!Total([i \in T |-> table[i].cost])
    BY <2>1, <2>2, <2>3, <2>4, <2>5, UnitsAreMonotone
  <2>7. QED
    BY <2>6 DEF Reserve, S, T
<1>5. Reserve(below, table2) \in Nat /\ Reserve(below, table) \in Nat
  BY LoadIsNumber
<1>6. Load(below, used, over, t, table) <= Ceiling(below)
  BY DEF Within
<1>7. QED
  BY <1>1, <1>3, <1>4, <1>5, <1>6 DEF Load, Ceiling

\* What reaping leaves active has time left, and is as it was.
LEMMA ReapIs ==
  ASSUME NEW table \in Seq(Row), NEW t \in Nat
  PROVE  /\ Pacing!Reap(table, t) \in Seq(Row)
         /\ Len(Pacing!Reap(table, t)) = Len(table)
         /\ \A i \in 1 .. Len(table) :
              /\ Pacing!Reap(table, t)[i].cost = table[i].cost
              /\ Pacing!Reap(table, t)[i].low = table[i].low
              /\ Pacing!Reap(table, t)[i].state = "ACTIVE" =>
                   /\ Pacing!Reap(table, t)[i] = table[i] /\ table[i].expires > t
<1> DEFINE next == Pacing!Reap(table, t)
<1>1. /\ DOMAIN next = 1 .. Len(table)
      /\ \A i \in 1 .. Len(table) :
           next[i] = IF table[i].state = "ACTIVE" /\ table[i].expires <= t
                     THEN [table[i] EXCEPT !.state = "EXPIRED", !.expires = 0] ELSE table[i]
  <2>1. DOMAIN table = 1 .. Len(table)
    OBVIOUS
  <2>2. QED
    BY <2>1, Zenon DEF Pacing!Reap, Pacing!Settle
<1>2. \A i \in 1 .. Len(table) : table[i] \in Row
  OBVIOUS
<1> HIDE DEF next
<1>3. \A i \in 1 .. Len(table) :
        /\ next[i] \in Row
        /\ next[i].cost = table[i].cost /\ next[i].low = table[i].low
        /\ next[i].state = "ACTIVE" => next[i] = table[i] /\ table[i].expires > t
  <2>1. TAKE i \in 1 .. Len(table)
  <2>2. table[i] \in Row
    BY <1>2
  <2>3. CASE table[i].state = "ACTIVE" /\ table[i].expires <= t
    <3>1. next[i] = [table[i] EXCEPT !.state = "EXPIRED", !.expires = 0]
      BY <1>1, <2>3
    <3>2. next[i] = [state |-> "EXPIRED", cost |-> table[i].cost, expires |-> 0,
                     low |-> table[i].low]
      BY <2>2, <3>1 DEF Row
    <3>3. table[i].cost \in 1 .. Phase2Cost /\ table[i].low \in BOOLEAN
      BY <2>2 DEF Row
    <3>4. next[i] \in Row
      BY <3>2, <3>3 DEF Row
    <3>5. QED
      BY <3>2, <3>4
  <2>4. CASE ~(table[i].state = "ACTIVE" /\ table[i].expires <= t)
    <3>1. next[i] = table[i]
      BY <1>1, <2>4
    <3>2. QED
      BY <2>2, <2>4, <3>1 DEF Row
  <2>5. QED
    BY <2>3, <2>4
<1>4. next = [i \in 1 .. Len(table) |-> next[i]]
  BY <1>1 DEF next, Pacing!Reap
<1>5. next \in Seq(Row) /\ Len(next) = Len(table)
  BY <1>3, <1>4
<1>6. QED
  BY <1>3, <1>5 DEF next

\* Reaping frees what it takes.
LEMMA ReapIsWithin ==
  ASSUME Pacing!PacingAssumption, LedgerTypes, NEW t \in Nat,
         Within(usage, overtaken, clock, reservations)
  PROVE  Within(usage, overtaken, clock, Pacing!Reap(reservations, t))
<1> DEFINE table == Pacing!Reap(reservations, t)
<1>1. /\ table \in Seq(Row) /\ reservations \in Seq(Row) /\ Len(table) = Len(reservations)
      /\ usage \in SUBSET Request /\ IsFiniteSet(usage) /\ clock \in Nat
  BY ReapIs DEF LedgerTypes
<1>2. \A i \in Pacing!Active(table) :
        /\ i \in Pacing!Active(reservations)
        /\ table[i].cost = reservations[i].cost /\ table[i].low = reservations[i].low
  BY <1>1, ReapIs DEF Pacing!Active
<1>3. overtaken \subseteq overtaken /\ clock <= clock
  BY <1>1
<1> HIDE DEF table
<1>4. Within(usage, overtaken, clock, table)
  BY <1>1, <1>2, <1>3, LessIsWithin
<1>5. QED
  BY <1>4 DEF table

\* A table with one more row holds what it costs, if the row counts.
LEMMA ReserveOfOneMore ==
  ASSUME Pacing!PacingAssumption, NEW table \in Seq(Row), NEW row \in Row,
         row.state = "ACTIVE", NEW below \in BOOLEAN
  PROVE  Reserve(below, Append(table, row)) =
           Reserve(below, table) + (IF below => row.low THEN row.cost ELSE 0)
<1> DEFINE more == Append(table, row)
           n == Len(table) + 1
           S == Held(below, table)
           g == [i \in S |-> table[i].cost]
           f == [i \in Held(below, more) |-> more[i].cost]
<1>1. /\ more \in Seq(Row) /\ Len(more) = n /\ more[n] = row
      /\ \A i \in 1 .. Len(table) : more[i] = table[i]
      /\ n \in Nat /\ n \notin 1 .. Len(table)
      /\ 1 .. Len(more) = 1 .. Len(table) \cup {n}
  OBVIOUS
<1>2. IsFiniteSet(S) /\ S \subseteq 1 .. Len(table) /\ g \in [S -> Nat]
  <2>1. IsFiniteSet({}) /\ {} \in SUBSET Request
    BY FS_EmptySet
  <2>2. IsFiniteSet(S)
    BY <2>1, LoadIsNumber
  <2>3. QED
    BY <2>2, HeldIsTyped
<1>3. f \in [Held(below, more) -> Nat]
  BY <1>1, HeldIsTyped
<1>4. Held(below, more) = S \cup (IF below => row.low THEN {n} ELSE {})
  <2> HIDE DEF more, n
  <2>1. /\ Held(below, more) = {i \in 1 .. Len(more) :
                                  more[i].state = "ACTIVE" /\ (below => more[i].low)}
        /\ S = {i \in 1 .. Len(table) :
                  table[i].state = "ACTIVE" /\ (below => table[i].low)}
    BY <1>1 DEF Held, Pacing!Active
  <2>2. QED
    BY <1>1, <2>1
<1>5. Reserve(below, more) = Pacing!Total(f) /\ Reserve(below, table) = Pacing!Total(g)
  BY DEF Reserve
<1>6. Pacing!Total(g) \in Nat
  <2> HIDE DEF S, g
  <2>1. QED
    BY <1>2, UnitsAreNumber
<1>7. CASE below => row.low
  <2>1. Held(below, more) = S \cup {n} /\ n \notin S /\ f[n] = row.cost
    BY <1>1, <1>2, <1>3, <1>4, <1>7
  <2>2. \A y \in S : f[y] = g[y]
    BY <1>1, <1>2, <1>4
  <2> HIDE DEF f, g, S, n, more
  <2>3. Pacing!Total(f) = Pacing!Total(g) + f[n]
    <3> DEFINE T == Held(below, more)
    <3>1. n \in T /\ T \ {n} = S /\ IsFiniteSet(T)
      BY <1>2, <2>1, FS_AddElement
    <3>2. f \in [T -> Nat] /\ g = [y \in T \ {n} |-> f[y]]
      BY <1>2, <1>3, <2>2, <3>1
    <3> HIDE DEF T
    <3>3. QED
      BY <3>1, <3>2, UnitsOfOneMore
  <2>4. QED
    BY <1>5, <1>7, <2>1, <2>3 DEF more
<1>8. CASE ~(below => row.low)
  <2>1. Held(below, more) = S
    BY <1>4, <1>8
  <2>2. \A i \in S : more[i].cost = table[i].cost
    BY <1>1, <1>2
  <2>3. f = g
    BY <2>1, <2>2
  <2>4. (IF below => row.low THEN row.cost ELSE 0) = 0
    BY <1>8
  <2>5. Pacing!Total(f) = Pacing!Total(g) + 0
    <3> HIDE DEF f, g
    <3>1. QED
      BY <1>6, <2>3
  <2>6. QED
    BY <1>5, <2>4, <2>5
<1>9. QED
  BY <1>7, <1>8

\* An admitted reservation fits in the quota at every later time.
LEMMA AdmittedIsWithin ==
  ASSUME Pacing!PacingAssumption, LedgerTypes, NEW t \in 0 .. clock,
         Within(usage, overtaken, clock, reservations),
         NEW priority \in Pacing!Priority, NEW cost \in 1 .. Phase2Cost,
         Pacing!Admitted(Pacing!Reap(reservations, t), priority, cost, t)
  PROVE  LET more == Pacing!Reserved(Pacing!Reap(reservations, t), priority, cost, t)
         IN  /\ more \in Seq(Row) /\ Len(more) = Len(reservations) + 1
             /\ more[Len(more)].cost = cost
             /\ \A i \in 1 .. Len(reservations) : more[i] = Pacing!Reap(reservations, t)[i]
             /\ Within(usage, overtaken, clock, more)
<1> DEFINE table == Pacing!Reap(reservations, t)
           row == [state |-> "ACTIVE", cost |-> cost, expires |-> t + Ttl,
                   low |-> priority # "MANAGEMENT"]
           more == Append(table, row)
<1>1. /\ t \in Nat /\ clock \in Nat /\ t <= clock /\ reservations \in Seq(Row)
      /\ usage \in SUBSET Request /\ IsFiniteSet(usage)
  BY DEF LedgerTypes
<1>2. /\ Limit \in Nat /\ Window \in Nat /\ Floor \in Nat /\ Floor <= Limit
      /\ Ttl \in Nat /\ Phase2Cost \in Nat
      /\ DiscoveryReserve \in Nat /\ Floor <= DiscoveryReserve
  BY QuotaNumbers
<1>3. table \in Seq(Row) /\ Len(table) = Len(reservations)
  BY <1>1, ReapIs
<1>4. row \in Row /\ row.state = "ACTIVE" /\ row.cost = cost /\ cost \in Nat
  BY <1>1, <1>2 DEF Row
<1>5. Within(usage, overtaken, clock, table)
  BY <1>1, ReapIsWithin
<1>6. /\ Pacing!Consumed(t) + Reserve(FALSE, table) + cost <=
           Limit - Pacing!ReserveFloor(priority)
      /\ Pacing!ReserveFloor(priority) \in Nat
      /\ priority # "MANAGEMENT" => Floor <= Pacing!ReserveFloor(priority)
  <2>1. {j \in Pacing!Active(table) : table[j].expires > t} = Held(FALSE, table)
    BY <1>1, ReapIs DEF Held, Pacing!Active
  <2>2. Pacing!Outstanding(table, t) = Reserve(FALSE, table)
    BY <2>1 DEF Pacing!Outstanding, Reserve
  <2>3. priority \in {"MANAGEMENT", "CANDIDATE", "DISCOVERY"}
    BY DEF Pacing!Priority
  <2>4. /\ Pacing!ReserveFloor(priority) \in Nat
        /\ priority # "MANAGEMENT" => Floor <= Pacing!ReserveFloor(priority)
    BY <1>2, <2>3 DEF Pacing!ReserveFloor
  <2>5. QED
    BY <2>2, <2>4 DEF Pacing!Admitted
<1> HIDE DEF table, row
<1>7. ASSUME NEW below \in BOOLEAN
      PROVE  /\ Pacing!Cost(Spent(below, usage, overtaken, clock)) \in Nat
             /\ Pacing!Consumed(t) \in Nat
             /\ Pacing!Cost(Spent(below, usage, overtaken, clock)) <= Pacing!Consumed(t)
  <2> DEFINE window == {u \in usage : u.at > t - Window}
  <2>1. window \in SUBSET Request /\ IsFiniteSet(window)
    BY <1>1, FS_Subset
  <2>2. Spent(below, usage, overtaken, clock) \subseteq window
    BY <1>1, <1>2 DEF Spent, Request
  <2> HIDE DEF window
  <2>3. QED
    BY <2>1, <2>2, CostIsMonotone DEF Pacing!Consumed, window
<1>8. /\ Reserve(TRUE, table) \in Nat /\ Reserve(FALSE, table) \in Nat
  BY <1>1, <1>3, LoadIsNumber
<1>9. Within(usage, overtaken, clock, more)
  <2>1. SUFFICES ASSUME NEW below \in BOOLEAN
                 PROVE  Load(below, usage, overtaken, clock, more) <= Ceiling(below)
    BY DEF Within
  <2>2. Reserve(below, more) =
          Reserve(below, table) + (IF below => row.low THEN cost ELSE 0)
    BY <1>3, <1>4, ReserveOfOneMore
  <2>3. Load(below, usage, overtaken, clock, table) <= Ceiling(below)
    BY <1>5 DEF Within
  <2>4. Reserve(TRUE, table) <= Reserve(FALSE, table)
    <3> DEFINE S == Held(TRUE, table)
               T == Held(FALSE, table)
               f == [i \in S |-> table[i].cost]
               g == [i \in T |-> table[i].cost]
    <3>1. S \subseteq T /\ \A i \in S : f[i] <= g[i]
      <4>1. S \subseteq T /\ \A i \in S : f[i] = g[i]
        BY DEF Held
      <4>2. f \in [S -> Nat]
        BY <1>3, HeldIsTyped
      <4> HIDE DEF f, g, S, T
      <4>3. QED
        BY <4>1, <4>2
    <3>2. f \in [S -> Nat] /\ g \in [T -> Nat] /\ IsFiniteSet(T)
      BY <1>1, <1>3, HeldIsTyped, LoadIsNumber
    <3>3. Pacing!Total(f) <= Pacing!Total(g)
      <4> HIDE DEF f, g, S, T
      <4>1. QED
        BY <3>1, <3>2, UnitsAreMonotone
    <3>4. QED
      BY <3>3 DEF Reserve
  <2>5. row.low = (priority # "MANAGEMENT")
    BY DEF row
  <2> DEFINE spent == Pacing!Cost(Spent(below, usage, overtaken, clock))
             out == Pacing!Consumed(t)
             all == Reserve(FALSE, table)
             low == Reserve(TRUE, table)
  <2>6. spent \in Nat /\ out \in Nat /\ spent <= out
    BY <1>7
  <2>7. out + all + cost <= Limit - (IF priority = "MANAGEMENT" THEN 0 ELSE Floor)
    <3> DEFINE floor == Pacing!ReserveFloor(priority)
    <3>1. /\ out + all + cost <= Limit - floor /\ floor \in Nat
          /\ priority # "MANAGEMENT" => Floor <= floor
      BY <1>6
    <3>2. all \in Nat
      BY <1>8
    <3> HIDE DEF floor, out, all
    <3>3. QED
      BY <1>2, <1>4, <2>6, <3>1, <3>2
  <2>8. CASE below
    <3>1. spent + low <= Limit - Floor
      BY <2>3, <2>8 DEF Load, Ceiling
    <3>2. spent + (low + (IF row.low THEN cost ELSE 0)) <= Limit - Floor
      <4> HIDE DEF spent, out, all, low
      <4>1. all \in Nat /\ low \in Nat /\ low <= all
        BY <1>8, <2>4 DEF all, low
      <4>2. CASE priority = "MANAGEMENT"
        <5>1. ~row.low
          BY <2>5, <4>2
        <5>2. QED
          BY <3>1, <5>1, <4>1, <2>6, <1>2
      <4>3. CASE priority # "MANAGEMENT"
        <5>1. out + all + cost <= Limit - Floor
          BY <2>7, <4>3
        <5>2. spent + (low + cost) <= Limit - Floor /\ spent + low <= Limit - Floor
          BY <1>2, <1>4, <2>6, <3>1, <4>1, <5>1
        <5>3. (IF row.low THEN cost ELSE 0) = cost
          BY <2>5, <4>3
        <5>4. QED
          BY <5>2, <5>3
      <4>4. QED
        BY <4>2, <4>3
    <3>3. Reserve(below, more) = low + (IF row.low THEN cost ELSE 0)
      BY <2>2, <2>8
    <3>4. Ceiling(below) = Limit - Floor
      BY <2>8 DEF Ceiling
    <3>5. QED
      BY <3>2, <3>3, <3>4 DEF Load
  <2>9. CASE ~below
    <3>1. spent + (all + cost) <= Limit
      <4> HIDE DEF spent, out, all
      <4>1. all \in Nat
        BY <1>8 DEF all
      <4>2. QED
        BY <1>2, <1>4, <2>6, <2>7, <4>1
    <3>2. Reserve(below, more) = all + cost
      BY <2>2, <2>9
    <3>3. Ceiling(below) = Limit
      BY <1>2, <2>9 DEF Ceiling
    <3>4. QED
      BY <3>1, <3>2, <3>3 DEF Load
  <2>10. QED
    BY <2>8, <2>9
<1>10. more \in Seq(Row) /\ Len(more) = Len(table) + 1 /\ more[Len(more)] = row
       /\ \A i \in 1 .. Len(table) : more[i] = table[i]
  BY <1>3, <1>4
<1>11. Pacing!Reserved(Pacing!Reap(reservations, t), priority, cost, t) = more
  BY DEF Pacing!Reserved, table, row
<1>12. QED
  BY <1>3, <1>4, <1>9, <1>10, <1>11 DEF table

\* One request more costs at most what it costs.
LEMMA CostOfOneMore ==
  ASSUME NEW used \in SUBSET Request, IsFiniteSet(used), NEW u \in Request
  PROVE  /\ Pacing!Cost(used \cup {u}) \in Nat /\ Pacing!Cost(used) \in Nat
         /\ Pacing!Cost(used \cup {u}) <= Pacing!Cost(used) + u.cost
<1> DEFINE T == used \cup {u}
           f == [v \in T |-> v.cost]
           rest == [v \in T \ {u} |-> f[v]]
<1>1. IsFiniteSet(T) /\ u \in T /\ T \in SUBSET Request /\ T \ {u} \subseteq used
  BY FS_AddElement
<1>2. f \in [T -> Nat] /\ f[u] = u.cost /\ u.cost \in Nat
  BY <1>1 DEF Request
<1>3. Pacing!Total(f) = Pacing!Total(rest) + f[u]
  <2> HIDE DEF f, T
  <2>1. QED
    BY <1>1, <1>2, UnitsOfOneMore
<1>4. rest = [v \in T \ {u} |-> v.cost]
  OBVIOUS
<1>5. Pacing!Total(rest) = Pacing!Cost(T \ {u})
  BY <1>4 DEF Pacing!Cost
<1>6. /\ Pacing!Cost(T \ {u}) \in Nat /\ Pacing!Cost(used) \in Nat
      /\ Pacing!Cost(T \ {u}) <= Pacing!Cost(used)
  <2> HIDE DEF T
  <2>1. QED
    BY <1>1, CostIsMonotone
<1>7. Pacing!Cost(T) = Pacing!Cost(T \ {u}) + u.cost
  BY <1>2, <1>3, <1>5 DEF Pacing!Cost
<1>8. QED
  <2> HIDE DEF T
  <2>1. Pacing!Cost(T) \in Nat /\ Pacing!Cost(T) <= Pacing!Cost(used) + u.cost
    BY <1>2, <1>6, <1>7
  <2>2. QED
    BY <1>6, <2>1 DEF T

\* The row of a commit, and those it leaves alone.
LEMMA CommittedIs ==
  ASSUME Pacing!PacingAssumption, NEW table \in Seq(Row), NEW i \in 1 .. Len(table),
         NEW cost \in 1 .. Phase2Cost
  PROVE  /\ Pacing!Committed(table, i, cost) \in Seq(Row)
         /\ Len(Pacing!Committed(table, i, cost)) = Len(table)
         /\ Pacing!Committed(table, i, cost)[i].state = "COMMITTED"
         /\ Pacing!Committed(table, i, cost)[i].low = table[i].low
         /\ \A j \in 1 .. Len(table) :
              j # i => Pacing!Committed(table, i, cost)[j] = table[j]
<1> DEFINE next == Pacing!Committed(table, i, cost)
           row == [state |-> "COMMITTED", cost |-> cost, expires |-> 0, low |-> table[i].low]
<1>1. table[i] \in Row
  OBVIOUS
<1>2. row \in Row
  BY <1>1 DEF Row
<1>3. Pacing!Settle([table[i] EXCEPT !.cost = cost], "COMMITTED") = row
  <2>1. table[i] = [state |-> table[i].state, cost |-> table[i].cost,
                    expires |-> table[i].expires, low |-> table[i].low]
    BY <1>1 DEF Row
  <2>2. [table[i] EXCEPT !.cost = cost] =
          [state |-> table[i].state, cost |-> cost, expires |-> table[i].expires,
           low |-> table[i].low]
    BY <2>1
  <2>3. Pacing!Settle([table[i] EXCEPT !.cost = cost], "COMMITTED") =
          [[table[i] EXCEPT !.cost = cost] EXCEPT !.state = "COMMITTED", !.expires = 0]
    BY Zenon DEF Pacing!Settle
  <2>4. QED
    BY <2>2, <2>3
<1>4. next = [table EXCEPT ![i] = row]
  BY <1>3 DEF Pacing!Committed
<1> HIDE DEF next, row
<1>5. next \in Seq(Row) /\ Len(next) = Len(table) /\ next[i] = row
      /\ \A j \in 1 .. Len(table) : j # i => next[j] = table[j]
  BY <1>2, <1>4
<1>6. row.state = "COMMITTED" /\ row.low = table[i].low
  BY DEF row
<1>7. QED
  BY <1>5, <1>6 DEF next

\* What is committed was held, and what had expired before it was written is not
\* counted: the quota holds as before.
LEMMA CommitIsWithin ==
  ASSUME Pacing!PacingAssumption, NEW used \in SUBSET Request, IsFiniteSet(used), NEW over,
         NEW t \in Nat, NEW table \in Seq(Row), NEW i \in 1 .. Len(table),
         NEW cost \in 1 .. Phase2Cost,
         table[i].state = "ACTIVE" => cost <= table[i].cost,
         NEW u \in Request, u.cost = cost, u.id = i, u.low = table[i].low,
         Within(used, over, t, table)
  PROVE  Within(used \cup {u}, IF table[i].state = "ACTIVE" THEN over ELSE over \cup {i}, t,
                Pacing!Committed(table, i, cost))
<1> DEFINE next == Pacing!Committed(table, i, cost)
           over2 == IF table[i].state = "ACTIVE" THEN over ELSE over \cup {i}
<1> SUFFICES ASSUME NEW below \in BOOLEAN
             PROVE  Load(below, used \cup {u}, over2, t, next) <= Ceiling(below)
  BY DEF Within
<1> DEFINE spent == Spent(below, used, over, t)
           S == Held(below, table)
           counts == table[i].state = "ACTIVE" /\ (below => table[i].low)
<1>1. Limit \in Nat /\ Floor \in Nat /\ Phase2Cost \in Nat /\ cost \in Nat /\ Window \in Nat
  BY QuotaNumbers
<1>2. /\ next \in Seq(Row) /\ Len(next) = Len(table) /\ next[i].state # "ACTIVE"
      /\ \A j \in 1 .. Len(table) : j # i => next[j] = table[j]
  BY CommittedIs
<1>3. Pacing!Cost(spent) + Reserve(below, table) <= Ceiling(below)
  BY DEF Within, Load
<1>4. /\ spent \in SUBSET Request /\ IsFiniteSet(spent) /\ Pacing!Cost(spent) \in Nat
      /\ Reserve(below, table) \in Nat
  <2>1. spent \in SUBSET Request
    BY DEF Spent
  <2>2. QED
    BY <2>1, LoadIsNumber
<1>5. Held(below, next) = S \ {i}
  <2> HIDE DEF next
  <2>1. /\ Held(below, next) = {j \in 1 .. Len(next) :
                                  next[j].state = "ACTIVE" /\ (below => next[j].low)}
        /\ S = {j \in 1 .. Len(table) :
                  table[j].state = "ACTIVE" /\ (below => table[j].low)}
    BY <1>2 DEF Held, Pacing!Active
  <2>2. QED
    BY <1>2, <2>1
<1>6. counts <=> i \in S
  BY DEF Held, Pacing!Active
<1>7. Ceiling(below) \in Int
  BY <1>1 DEF Ceiling
<1>8. CASE counts
  <2>1. Spent(below, used \cup {u}, over2, t) \subseteq spent \cup {u}
    BY <1>8 DEF Spent
  <2>2. /\ Pacing!Cost(spent \cup {u}) \in Nat
        /\ Pacing!Cost(spent \cup {u}) <= Pacing!Cost(spent) + cost
    <3> HIDE DEF spent
    <3>1. QED
      BY <1>4, CostOfOneMore
  <2>3. /\ Pacing!Cost(Spent(below, used \cup {u}, over2, t)) \in Nat
        /\ Pacing!Cost(Spent(below, used \cup {u}, over2, t)) <= Pacing!Cost(spent \cup {u})
    <3> HIDE DEF spent
    <3>1. spent \cup {u} \in SUBSET Request /\ IsFiniteSet(spent \cup {u})
      BY <1>4, FS_AddElement
    <3>2. QED
      BY <2>1, <3>1, CostIsMonotone
  <2>4. Reserve(below, table) = Reserve(below, next) + table[i].cost
    <3> DEFINE f == [j \in S |-> table[j].cost]
               g == [j \in Held(below, next) |-> next[j].cost]
    <3>1. IsFiniteSet(S) /\ S \subseteq 1 .. Len(table) /\ f \in [S -> Nat] /\ i \in S
      BY <1>6, <1>8, LoadIsNumber, HeldIsTyped
    <3>2. f[i] = table[i].cost
      BY <3>1
    <3>3. g = [j \in S \ {i} |-> f[j]]
      BY <1>2, <1>5, <3>1
    <3>4. Pacing!Total(f) = Pacing!Total([j \in S \ {i} |-> f[j]]) + f[i]
      <4>1. IsFiniteSet(S) /\ f \in [S -> Nat] /\ i \in S
        BY <3>1
      <4> HIDE DEF S, f
      <4>2. QED
        BY <4>1, UnitsOfOneMore
    <3>5. QED
      BY <3>2, <3>3, <3>4 DEF Reserve
  <2>5. Reserve(below, next) \in Nat
    BY <1>2, LoadIsNumber
  <2>6. cost <= table[i].cost /\ table[i].cost \in Nat
    <3>1. table[i] \in Row
      OBVIOUS
    <3>2. table[i].cost \in Nat
      BY <1>1, <3>1 DEF Row
    <3>3. QED
      BY <1>8, <3>2
  <2> DEFINE a == Pacing!Cost(Spent(below, used \cup {u}, over2, t))
             b == Pacing!Cost(spent)
             c == Pacing!Cost(spent \cup {u})
             r == Reserve(below, next)
  <2>7. a + r <= Ceiling(below)
    <3>1. /\ a \in Nat /\ b \in Nat /\ c \in Nat /\ r \in Nat /\ a <= c /\ c <= b + cost
          /\ b + (r + table[i].cost) <= Ceiling(below)
      BY <1>3, <1>4, <2>2, <2>3, <2>4, <2>5
    <3> HIDE DEF a, b, c, r
    <3>2. ASSUME NEW d \in Nat, NEW k \in Int, cost <= d, b + (r + d) <= k
          PROVE  a + r <= k
      BY <1>1, <3>1, <3>2
    <3>3. QED
      BY <1>7, <2>6, <3>1, <3>2
  <2>8. QED
    BY <2>7 DEF Load
<1>9. CASE ~counts
  <2>1. Spent(below, used \cup {u}, over2, t) \subseteq spent
    BY <1>9 DEF Spent
  <2>2. /\ Pacing!Cost(Spent(below, used \cup {u}, over2, t)) \in Nat
        /\ Pacing!Cost(Spent(below, used \cup {u}, over2, t)) <= Pacing!Cost(spent)
    <3> HIDE DEF spent
    <3>1. QED
      BY <1>4, <2>1, CostIsMonotone
  <2>3. Reserve(below, next) = Reserve(below, table)
    <3>1. Held(below, next) = S
      BY <1>5, <1>6, <1>9
    <3>2. \A j \in S : next[j].cost = table[j].cost
      BY <1>2, <1>5, <3>1 DEF Held, Pacing!Active
    <3>3. [j \in Held(below, next) |-> next[j].cost] = [j \in S |-> table[j].cost]
      BY <3>1, <3>2
    <3>4. QED
      BY <3>3 DEF Reserve
  <2>4. QED
    BY <1>3, <1>4, <1>7, <2>2, <2>3 DEF Load
<1>10. QED
  BY <1>8, <1>9

\* The table keeps its rows, and a row that is active was so at the same cost.
Grows(table, table2) ==
  /\ Len(table) <= Len(table2)
  /\ \A i \in 1 .. Len(table) :
       /\ table2[i].low = table[i].low
       /\ table2[i].state = "ACTIVE" =>
            table[i].state = "ACTIVE" /\ table2[i].cost = table[i].cost

\* What every step shows of a client that it leaves alone.
LEMMA ClientKept ==
  ASSUME NEW c \in Client, NEW table \in Seq(Row), NEW table2 \in Seq(Row),
         Grows(table, table2), NEW t \in Nat, NEW t2 \in Nat, t <= t2,
         ClientInv(c, table, t)
  PROVE  ClientInv(c, table2, t2)
<1>1. Len(table) \in Nat /\ Len(table2) \in Nat /\ Len(table) <= Len(table2)
  BY DEF Grows
<1>2. /\ c.pc # "idle" => c.id \in 1 .. Len(table2)
      /\ c.scan # None => c.scan \in 0 .. t2
      /\ (c.pc # "idle" /\ c.scans) => c.scan # None
  BY <1>1 DEF ClientInv
<1>3. c.probe # 0 =>
       /\ c.probe \in 1 .. Len(table2) /\ c.scan # None /\ c.used \in 0 .. Phase2Cost
       /\ table2[c.probe].state = "ACTIVE" => table2[c.probe].cost = Phase2Cost
  BY <1>1 DEF ClientInv, Grows
<1>4. QED
  BY <1>2, <1>3 DEF ClientInv

\* What every step of the ledger shows.
LEMMA QuotaKept ==
  ASSUME Pacing!PacingAssumption, QuotaInv, reservations' \in Seq(Row),
         Grows(reservations, reservations'), clock' \in Nat, clock <= clock',
         usage' \in SUBSET Request, IsFiniteSet(usage'), client' \in [Workers -> Client],
         \A w \in Workers :
           client'[w] = client[w] \/ ClientInv(client'[w], reservations', clock'),
         Within(usage', overtaken', clock', reservations')
  PROVE  QuotaInv'
<1>1. LedgerTypes'
  BY DEF LedgerTypes
<1>2. ASSUME NEW w \in Workers PROVE ClientInv(client'[w], reservations', clock')
  <2>1. CASE client'[w] = client[w]
    <3>1. /\ ClientInv(client[w], reservations, clock) /\ client[w] \in Client
          /\ reservations \in Seq(Row) /\ clock \in Nat
      BY DEF QuotaInv, LedgerTypes
    <3>2. QED
      BY <2>1, <3>1, ClientKept
  <2>2. QED
    BY <2>1
<1>3. QED
  BY <1>1, <1>2 DEF QuotaInv

\* Reaping, releasing and committing keep the rows.
LEMMA ReapGrows ==
  ASSUME NEW table \in Seq(Row), NEW t \in Nat
  PROVE  Grows(table, Pacing!Reap(table, t)) /\ Pacing!Reap(table, t) \in Seq(Row)
<1>1. QED
  BY ReapIs DEF Grows

LEMMA ReleasedIs ==
  ASSUME NEW table \in Seq(Row), NEW i \in 1 .. Len(table)
  PROVE  Grows(table, Pacing!ReleasedRow(table, i)) /\ Pacing!ReleasedRow(table, i) \in Seq(Row)
<1> DEFINE row == [state |-> "RELEASED", cost |-> table[i].cost, expires |-> 0,
                   low |-> table[i].low]
<1>1. table[i] \in Row
  OBVIOUS
<1>2. row \in Row
  BY <1>1 DEF Row
<1>3. Pacing!Settle(table[i], "RELEASED") = row
  <2>1. table[i] = [state |-> table[i].state, cost |-> table[i].cost,
                    expires |-> table[i].expires, low |-> table[i].low]
    BY <1>1 DEF Row
  <2>2. Pacing!Settle(table[i], "RELEASED") =
          [table[i] EXCEPT !.state = "RELEASED", !.expires = 0]
    BY Zenon DEF Pacing!Settle
  <2>3. QED
    BY <2>1, <2>2
<1>4. CASE table[i].state = "ACTIVE"
  <2>1. Pacing!ReleasedRow(table, i) = [table EXCEPT ![i] = row]
    BY <1>3, <1>4 DEF Pacing!ReleasedRow
  <2>2. row.state # "ACTIVE" /\ row.low = table[i].low
    OBVIOUS
  <2> HIDE DEF row
  <2>3. QED
    BY <1>2, <2>1, <2>2 DEF Grows
<1>5. CASE table[i].state # "ACTIVE"
  <2>1. Pacing!ReleasedRow(table, i) = table
    BY <1>5 DEF Pacing!ReleasedRow
  <2>2. QED
    BY <2>1 DEF Grows
<1>6. QED
  BY <1>4, <1>5

LEMMA GrowsTwice ==
  ASSUME NEW a \in Seq(Row), NEW b \in Seq(Row), NEW c \in Seq(Row),
         Grows(a, b), Grows(b, c)
  PROVE  Grows(a, c)
<1>1. QED
  BY DEF Grows

\* A step that only frees rows keeps the quota.
LEMMA FreedIsWithin ==
  ASSUME Pacing!PacingAssumption, LedgerTypes, NEW table \in Seq(Row),
         Grows(reservations, table), Len(table) = Len(reservations),
         Within(usage, overtaken, clock, reservations)
  PROVE  Within(usage, overtaken, clock, table)
<1>1. /\ reservations \in Seq(Row) /\ usage \in SUBSET Request /\ IsFiniteSet(usage)
      /\ clock \in Nat /\ clock <= clock /\ overtaken \subseteq overtaken
  BY DEF LedgerTypes
<1>2. \A i \in Pacing!Active(table) :
        /\ i \in Pacing!Active(reservations)
        /\ table[i].cost = reservations[i].cost /\ table[i].low = reservations[i].low
  BY <1>1 DEF Pacing!Active, Grows
<1>3. QED
  BY <1>1, <1>2, LessIsWithin

\* The bounds that the quota's steps use.
LEMMA QuotaFacts ==
  ASSUME QuotaInv
  PROVE  /\ clock \in Nat /\ clock <= clock /\ reservations \in Seq(Row)
         /\ usage \in SUBSET Request /\ IsFiniteSet(usage)
         /\ client \in [Workers -> Client]
         /\ \A w \in Workers : ClientInv(client[w], reservations, clock)
         /\ Within(usage, overtaken, clock, reservations)
         /\ LedgerTypes
<1>1. LedgerTypes
  BY DEF QuotaInv
<1>2. QED
  BY <1>1 DEF QuotaInv, LedgerTypes

\* A reservation, at a time that is not ahead: it is admitted, or only reaping happens.
LEMMA AcquireKeepsQuota ==
  ASSUME Pacing!PacingAssumption, QuotaInv, NEW w \in Workers,
         NEW priority \in Pacing!Priority, NEW ofScan \in BOOLEAN, NEW t \in 0 .. clock,
         ofScan => client[w].scan # None,
         Pacing!Acquire(w, priority, ofScan, t)
  PROVE  QuotaInv'
<1> DEFINE table == Pacing!Reap(reservations, t)
           more == Pacing!Reserved(table, priority, 1, t)
<1>1. t \in Nat /\ 1 \in 1 .. Phase2Cost
  BY QuotaFacts, QuotaNumbers
<1>2. Grows(reservations, table) /\ table \in Seq(Row) /\ Len(table) = Len(reservations)
  BY <1>1, QuotaFacts, ReapGrows, ReapIs
<1>3. clock' = clock /\ usage' = usage /\ overtaken' = overtaken
  BY Zenon DEF Pacing!Acquire
<1>4. CASE Pacing!Admitted(table, priority, 1, t)
  <2>1. /\ reservations' = more
        /\ client' = [client EXCEPT ![w].pc = "waiting", ![w].id = Len(reservations'),
                                    ![w].scans = ofScan]
    BY <1>4, Zenon DEF Pacing!Acquire
  <2>2. /\ more \in Seq(Row) /\ Len(more) = Len(reservations) + 1
        /\ \A i \in 1 .. Len(reservations) : more[i] = table[i]
        /\ Within(usage, overtaken, clock, more)
    BY <1>1, <1>4, QuotaFacts, AdmittedIsWithin
  <2> HIDE DEF more, table
  <2>3. Grows(reservations, more)
    BY <1>2, <2>2, QuotaFacts DEF Grows
  <2>4. client[w] \in Client /\ ClientInv(client[w], reservations, clock)
    BY QuotaFacts
  <2> DEFINE c == [client[w] EXCEPT !.pc = "waiting", !.id = Len(more), !.scans = ofScan]
  <2>5. Len(more) \in Nat /\ Len(more) >= 1 /\ Len(reservations) \in Nat
    BY <2>2, QuotaFacts
  <2>6. /\ c \in Client /\ c.pc = "waiting" /\ c.id = Len(more) /\ c.scans = ofScan
        /\ c.scan = client[w].scan /\ c.probe = client[w].probe /\ c.used = client[w].used
    BY <2>4, <2>5 DEF Client
  <2>7. client' = [client EXCEPT ![w] = c]
    BY <2>1, QuotaFacts
  <2> HIDE DEF c
  <2>8. ClientInv(client[w], more, clock)
    BY <2>2, <2>3, <2>4, QuotaFacts, ClientKept
  <2>9. ClientInv(c, more, clock)
    BY <2>5, <2>6, <2>8 DEF ClientInv
  <2>10. client' \in [Workers -> Client] /\ \A v \in Workers :
           client'[v] = client[v] \/ ClientInv(client'[v], more, clock)
    BY <2>6, <2>7, <2>9, QuotaFacts
  <2>11. QED
    BY <1>3, <2>1, <2>2, <2>3, <2>10, QuotaFacts, QuotaKept
<1>5. CASE ~Pacing!Admitted(table, priority, 1, t)
  <2>1. reservations' = table /\ client' = client
    BY <1>5, Zenon DEF Pacing!Acquire
  <2>2. Within(usage, overtaken, clock, table)
    BY <1>2, QuotaFacts, FreedIsWithin
  <2>3. QED
    BY <1>2, <1>3, <2>1, <2>2, QuotaFacts, QuotaKept
<1>6. QED
  BY <1>4, <1>5

LEMMA PrepareKeepsQuota ==
  ASSUME Pacing!PacingAssumption, QuotaInv, NEW w \in Workers, Pacing!PreparePhase2(w)
  PROVE  QuotaInv'
<1> DEFINE t == client[w].scan
           table == Pacing!Reap(reservations, t)
           more == Pacing!Reserved(table, "CANDIDATE", Phase2Cost, t)
<1>1. /\ client[w].scan # None /\ client[w].probe = 0
      /\ clock' = clock /\ usage' = usage /\ overtaken' = overtaken
  BY Zenon DEF Pacing!PreparePhase2
<1>2. client[w] \in Client /\ ClientInv(client[w], reservations, clock)
  BY QuotaFacts
<1>3. t \in 0 .. clock /\ t \in Nat /\ Phase2Cost \in 1 .. Phase2Cost /\ Phase2Cost \in Nat
  BY <1>1, <1>2, QuotaFacts, QuotaNumbers DEF ClientInv
<1>4. Grows(reservations, table) /\ table \in Seq(Row) /\ Len(table) = Len(reservations)
  BY <1>3, QuotaFacts, ReapGrows, ReapIs
<1>5. CASE t >= paused.until /\ Pacing!Admitted(table, "CANDIDATE", Phase2Cost, t)
  <2>1. /\ reservations' = more
        /\ client' = [client EXCEPT ![w].probe = Len(reservations'), ![w].used = 0]
    BY <1>5, Zenon DEF Pacing!PreparePhase2
  <2>2. /\ more \in Seq(Row) /\ Len(more) = Len(reservations) + 1
        /\ more[Len(more)].cost = Phase2Cost
        /\ \A i \in 1 .. Len(reservations) : more[i] = table[i]
        /\ Within(usage, overtaken, clock, more)
    <3>1. "CANDIDATE" \in Pacing!Priority
      BY DEF Pacing!Priority
    <3>2. QED
      BY <1>3, <1>5, <3>1, QuotaFacts, AdmittedIsWithin
  <2> HIDE DEF more, table
  <2>3. Grows(reservations, more)
    BY <1>4, <2>2, QuotaFacts DEF Grows
  <2> DEFINE c == [client[w] EXCEPT !.probe = Len(more), !.used = 0]
  <2>4. Len(more) \in Nat /\ Len(more) >= 1 /\ Len(reservations) \in Nat
    BY <2>2, QuotaFacts
  <2>5. /\ c \in Client /\ c.pc = client[w].pc /\ c.id = client[w].id
        /\ c.scans = client[w].scans /\ c.scan = client[w].scan
        /\ c.probe = Len(more) /\ c.used = 0
    BY <1>2, <2>4 DEF Client
  <2>6. client' = [client EXCEPT ![w] = c]
    BY <2>1, QuotaFacts
  <2> HIDE DEF c
  <2>7. ClientInv(client[w], more, clock)
    BY <1>2, <2>2, <2>3, QuotaFacts, ClientKept
  <2>8. ClientInv(c, more, clock)
    BY <1>1, <1>3, <2>2, <2>4, <2>5, <2>7 DEF ClientInv
  <2>9. client' \in [Workers -> Client] /\ \A v \in Workers :
           client'[v] = client[v] \/ ClientInv(client'[v], more, clock)
    BY <2>5, <2>6, <2>8, QuotaFacts
  <2>10. QED
    BY <1>1, <2>1, <2>2, <2>3, <2>9, QuotaFacts, QuotaKept
<1>6. CASE ~(t >= paused.until /\ Pacing!Admitted(table, "CANDIDATE", Phase2Cost, t))
  <2>1. reservations' = table /\ client' = client
    BY <1>6, Zenon DEF Pacing!PreparePhase2
  <2>2. Within(usage, overtaken, clock, table)
    BY <1>4, QuotaFacts, FreedIsWithin
  <2>3. QED
    BY <1>1, <1>4, <2>1, <2>2, QuotaFacts, QuotaKept
<1>7. QED
  BY <1>5, <1>6

\* A request that has a reservation is given up, or its commit is read.
LEMMA FreedKeepsQuota ==
  ASSUME Pacing!PacingAssumption, QuotaInv, NEW w \in Workers, NEW table \in Seq(Row),
         Grows(reservations, table), Len(table) = Len(reservations), NEW c \in Client,
         c.pc # "idle" => c = [client[w] EXCEPT !.pc = c.pc, !.clock = c.clock],
         client[w].pc # "idle", c.scan = client[w].scan, c.probe = client[w].probe,
         c.used = client[w].used,
         reservations' = table, client' = [client EXCEPT ![w] = c],
         usage' = usage, clock' = clock, overtaken' = overtaken
  PROVE  QuotaInv'
<1>1. client[w] \in Client /\ ClientInv(client[w], reservations, clock)
  BY QuotaFacts
<1>2. ClientInv(client[w], table, clock)
  BY <1>1, QuotaFacts, ClientKept
<1>3. c.pc # "idle" => c.id = client[w].id /\ c.scans = client[w].scans
  BY <1>1 DEF Client
<1>4. ClientInv(c, table, clock)
  BY <1>2, <1>3 DEF ClientInv
<1>5. client' \in [Workers -> Client] /\ \A v \in Workers :
        client'[v] = client[v] \/ ClientInv(client'[v], table, clock)
  BY <1>4, QuotaFacts
<1>6. Within(usage, overtaken, clock, table)
  BY QuotaFacts, FreedIsWithin
<1>7. QED
  BY <1>5, <1>6, QuotaFacts, QuotaKept

LEMMA RefusalKeepsQuota ==
  ASSUME Pacing!PacingAssumption, QuotaInv, NEW w \in Workers, Pacing!LocalBudgetRefuses(w)
  PROVE  QuotaInv'
<1> DEFINE reaped == Pacing!Reap(reservations, clock)
           table == Pacing!ReleasedRow(reaped, client[w].id)
           c == [client[w] EXCEPT !.pc = "idle", !.id = 0, !.clock = 0, !.scans = FALSE]
<1>1. /\ client[w].pc = "waiting" /\ reservations' = table
      /\ client' = [client EXCEPT ![w] = c]
      /\ usage' = usage /\ clock' = clock /\ overtaken' = overtaken
  BY Zenon DEF Pacing!LocalBudgetRefuses, Pacing!Is, Pacing!Back
<1>2. client[w] \in Client /\ ClientInv(client[w], reservations, clock)
  BY QuotaFacts
<1>3. /\ Grows(reservations, reaped) /\ reaped \in Seq(Row)
      /\ Len(reaped) = Len(reservations)
  BY QuotaFacts, ReapGrows, ReapIs
<1>4. client[w].id \in 1 .. Len(reaped)
  BY <1>1, <1>2, <1>3 DEF ClientInv
<1> HIDE DEF reaped
<1>5. Grows(reaped, table) /\ table \in Seq(Row) /\ Len(table) = Len(reaped)
  <2>1. Grows(reaped, table) /\ table \in Seq(Row)
    BY <1>3, <1>4, ReleasedIs
  <2>2. Len(table) = Len(reaped)
    BY <1>3, <1>4 DEF Pacing!ReleasedRow
  <2>3. QED
    BY <2>1, <2>2
<1> HIDE DEF table
<1>6. Grows(reservations, table)
  BY <1>3, <1>5, QuotaFacts, GrowsTwice
<1>7. /\ c \in Client /\ c.pc = "idle" /\ c.scan = client[w].scan
      /\ c.probe = client[w].probe /\ c.used = client[w].used
  BY <1>2 DEF Client
<1> HIDE DEF c
<1>8. client[w].pc # "idle" /\ Len(table) = Len(reservations)
  BY <1>1, <1>3, <1>5
<1>9. QED
  BY <1>1, <1>5, <1>6, <1>7, <1>8, FreedKeepsQuota

LEMMA ReadKeepsQuota ==
  ASSUME Pacing!PacingAssumption, QuotaInv, NEW w \in Workers, Pacing!ReadCommit(w)
  PROVE  QuotaInv'
<1> DEFINE t == IF client[w].scans THEN client[w].scan ELSE clock
           table == Pacing!Reap(reservations, t)
           c == IF table[client[w].id].state = "ACTIVE"
                THEN [client[w] EXCEPT !.pc = "write", !.clock = t]
                ELSE [client[w] EXCEPT !.pc = "idle", !.id = 0, !.clock = 0, !.scans = FALSE]
<1>1. /\ client[w].pc = "waiting" /\ reservations' = table
      /\ client' = [client EXCEPT ![w] = c]
      /\ usage' = usage /\ clock' = clock /\ overtaken' = overtaken
  BY DEF Pacing!ReadCommit, Pacing!Is, Pacing!Back
<1>2. client[w] \in Client /\ ClientInv(client[w], reservations, clock)
  BY QuotaFacts
<1>3. t \in Nat
  BY <1>1, <1>2, QuotaFacts DEF ClientInv, Client
<1>4. /\ Grows(reservations, table) /\ table \in Seq(Row)
      /\ Len(table) = Len(reservations)
  BY <1>3, QuotaFacts, ReapGrows, ReapIs
<1> HIDE DEF t, table
<1>5. /\ c \in Client /\ c.scan = client[w].scan
      /\ c.probe = client[w].probe /\ c.used = client[w].used
      /\ c.pc # "idle" => c = [client[w] EXCEPT !.pc = c.pc, !.clock = c.clock]
  <2>1. CASE table[client[w].id].state = "ACTIVE"
    <3>1. c = [client[w] EXCEPT !.pc = "write", !.clock = t]
      BY <2>1
    <3> HIDE DEF c
    <3>2. c.pc = "write" /\ c.clock = t
      BY <1>2, <3>1 DEF Client
    <3>3. QED
      BY <1>2, <1>3, <3>1, <3>2 DEF Client
  <2>2. CASE table[client[w].id].state # "ACTIVE"
    <3>1. c = [client[w] EXCEPT !.pc = "idle", !.id = 0, !.clock = 0, !.scans = FALSE]
      BY <2>2
    <3> HIDE DEF c
    <3>2. QED
      BY <1>2, <3>1 DEF Client
  <2>3. QED
    BY <2>1, <2>2
<1> HIDE DEF c
<1>6. client[w].pc # "idle"
  BY <1>1
<1>7. QED
  BY <1>1, <1>4, <1>5, <1>6, FreedKeepsQuota

\* A commit is written: of its own reservation, or of one that expired since it was read.
LEMMA WriteKeepsQuota ==
  ASSUME Pacing!PacingAssumption, QuotaInv, NEW w \in Workers, Pacing!WriteCommit(w)
  PROVE  QuotaInv'
<1> DEFINE i == client[w].id
           u == [id |-> i, cost |-> 1, at |-> client[w].clock, low |-> reservations[i].low]
           table == Pacing!Committed(reservations, i, 1)
           c == [client[w] EXCEPT !.pc = "idle", !.id = 0, !.clock = 0, !.scans = FALSE]
           over == IF reservations[i].state = "ACTIVE" THEN overtaken ELSE overtaken \cup {i}
<1>1. /\ client[w].pc = "write" /\ reservations' = table /\ usage' = usage \cup {u}
      /\ client' = [client EXCEPT ![w] = c] /\ clock' = clock /\ overtaken' = over
  BY DEF Pacing!WriteCommit, Pacing!Is, Pacing!Back, Pacing!Used
<1>2. client[w] \in Client /\ ClientInv(client[w], reservations, clock)
  BY QuotaFacts
<1>3. i \in 1 .. Len(reservations) /\ i \in Nat /\ 1 \in 1 .. Phase2Cost
  BY <1>1, <1>2, QuotaFacts, QuotaNumbers DEF ClientInv
<1>4. reservations[i] \in Row
  BY <1>3, QuotaFacts
<1>5. u \in Request /\ u.cost = 1 /\ u.id = i /\ u.low = reservations[i].low
  BY <1>2, <1>3, <1>4 DEF Client, Row, Request
<1>6. reservations[i].state = "ACTIVE" => 1 <= reservations[i].cost
  BY <1>4, QuotaNumbers DEF Row
<1>7. /\ table \in Seq(Row) /\ Len(table) = Len(reservations)
      /\ table[i].state = "COMMITTED" /\ table[i].low = reservations[i].low
      /\ \A j \in 1 .. Len(reservations) : j # i => table[j] = reservations[j]
  <2>1. /\ table \in Seq(Row) /\ Len(table) = Len(reservations)
        /\ table[i].state = "COMMITTED"
        /\ \A j \in 1 .. Len(reservations) : j # i => table[j] = reservations[j]
    BY <1>3, QuotaFacts, CommittedIs
  <2>2. table[i].low = reservations[i].low
    BY <1>3, QuotaFacts, CommittedIs
  <2>3. QED
    BY <2>1, <2>2
<1> HIDE DEF u, table, i
<1>8. Grows(reservations, table)
  BY <1>3, <1>7, QuotaFacts DEF Grows
<1>9. Within(usage \cup {u}, over, clock, table)
  BY <1>3, <1>5, <1>6, QuotaFacts, CommitIsWithin DEF table
<1>10. /\ c \in Client /\ c.pc = "idle" /\ c.scan = client[w].scan
       /\ c.probe = client[w].probe /\ c.used = client[w].used
  BY <1>2 DEF Client
<1> HIDE DEF c, over
<1>11. ClientInv(client[w], table, clock)
  BY <1>2, <1>7, <1>8, QuotaFacts, ClientKept
<1>12. ClientInv(c, table, clock)
  BY <1>10, <1>11 DEF ClientInv
<1>13. client' \in [Workers -> Client] /\ \A v \in Workers :
         client'[v] = client[v] \/ ClientInv(client'[v], table, clock)
  BY <1>1, <1>10, <1>12, QuotaFacts
<1>14. usage \cup {u} \in SUBSET Request /\ IsFiniteSet(usage \cup {u})
  BY <1>5, QuotaFacts, FS_AddElement
<1>15. QED
  BY <1>1, <1>7, <1>8, <1>9, <1>13, <1>14, QuotaFacts, QuotaKept

\* A deep probe ends: what was drawn is committed, or all of it is given back.
LEMMA FinishKeepsQuota ==
  ASSUME Pacing!PacingAssumption, QuotaInv, NEW w \in Workers, Pacing!FinishPhase2(w)
  PROVE  QuotaInv'
<1> DEFINE i == client[w].probe
           n == client[w].used
           t == IF n = 0 THEN clock ELSE client[w].scan
           reaped == Pacing!Reap(reservations, t)
           u == [id |-> i, cost |-> n, at |-> client[w].scan, low |-> reservations[i].low]
           commits == reaped[i].state = "ACTIVE" /\ n > 0
           table == IF commits THEN Pacing!Committed(reaped, i, n)
                    ELSE Pacing!ReleasedRow(reaped, i)
           used == IF commits THEN usage \cup {u} ELSE usage
           c == [client[w] EXCEPT !.probe = 0, !.used = 0]
<1>1. /\ client[w].pc = "idle" /\ i # 0
      /\ reservations' = table /\ usage' = used
      /\ clock' = clock /\ overtaken' = overtaken
      /\ client' = [client EXCEPT ![w].probe = 0, ![w].used = 0]
  BY DEF Pacing!FinishPhase2, Pacing!Is, Pacing!Used
<1>2. client[w] \in Client /\ ClientInv(client[w], reservations, clock)
  BY QuotaFacts
<1>3. /\ i \in 1 .. Len(reservations) /\ i \in Nat /\ n \in 0 .. Phase2Cost /\ n \in Nat
      /\ client[w].scan \in Nat /\ t \in Nat /\ Phase2Cost \in Nat
      /\ reservations[i].state = "ACTIVE" => reservations[i].cost = Phase2Cost
  BY <1>1, <1>2, QuotaFacts, QuotaNumbers DEF ClientInv
<1>4. /\ Grows(reservations, reaped) /\ reaped \in Seq(Row)
      /\ Len(reaped) = Len(reservations)
  BY <1>3, QuotaFacts, ReapGrows, ReapIs
<1>5. Within(usage, overtaken, clock, reaped)
  BY <1>4, QuotaFacts, FreedIsWithin
<1>6. client' = [client EXCEPT ![w] = c]
  BY <1>1, QuotaFacts
<1> HIDE DEF t, reaped
<1>7. reaped[i].low = reservations[i].low /\ reaped[i] \in Row
      /\ (reaped[i].state = "ACTIVE" => reaped[i].cost = Phase2Cost)
  BY <1>3, <1>4 DEF Grows
<1>8. /\ table \in Seq(Row) /\ Grows(reservations, table)
      /\ used \in SUBSET Request /\ IsFiniteSet(used)
      /\ Within(used, overtaken, clock, table)
  <2>1. CASE commits
    <3>1. table = Pacing!Committed(reaped, i, n) /\ used = usage \cup {u}
      BY <2>1
    <3>2. n \in 1 .. Phase2Cost /\ n <= reaped[i].cost
      BY <1>3, <1>7, <2>1
    <3>3. u \in Request /\ u.cost = n /\ u.id = i /\ u.low = reaped[i].low
      BY <1>3, <1>7 DEF Request, Row
    <3> DEFINE committed == Pacing!Committed(reaped, i, n)
    <3>4. /\ committed \in Seq(Row) /\ Len(committed) = Len(reaped)
          /\ committed[i].state = "COMMITTED"
          /\ \A j \in 1 .. Len(reaped) : j # i => committed[j] = reaped[j]
      BY <1>3, <1>4, <3>2, CommittedIs
    <3>5. committed[i].low = reaped[i].low
      BY <1>3, <1>4, <3>2, CommittedIs
    <3>6. /\ reaped[i].state = "ACTIVE" /\ i \in 1 .. Len(reaped)
      BY <1>3, <1>4, <2>1
    <3> HIDE DEF u, n, i, used, commits, table
    <3>7. Within(usage \cup {u},
                 IF reaped[i].state = "ACTIVE" THEN overtaken ELSE overtaken \cup {i},
                 clock, committed)
      BY <1>4, <1>5, <3>2, <3>3, <3>6, QuotaFacts, CommitIsWithin
    <3> HIDE DEF committed
    <3>8. Grows(reaped, committed)
      BY <1>4, <3>4, <3>5, <3>6 DEF Grows
    <3>9. Grows(reservations, committed)
      BY <1>4, <3>4, <3>8, QuotaFacts, GrowsTwice
    <3>10. usage \cup {u} \in SUBSET Request /\ IsFiniteSet(usage \cup {u})
      BY <3>3, QuotaFacts, FS_AddElement
    <3>11. Within(usage \cup {u}, overtaken, clock, committed)
      BY <3>6, <3>7
    <3>12. QED
      BY <3>1, <3>4, <3>9, <3>10, <3>11 DEF committed
  <2>2. CASE ~commits
    <3> DEFINE released == Pacing!ReleasedRow(reaped, i)
    <3>1. table = released /\ used = usage
      BY <2>2
    <3>2. i \in 1 .. Len(reaped)
      BY <1>3, <1>4
    <3>3. Grows(reaped, released) /\ released \in Seq(Row)
      BY <1>4, <3>2, ReleasedIs
    <3>4. Len(released) = Len(reservations)
      BY <1>4, <3>2 DEF Pacing!ReleasedRow
    <3> HIDE DEF released, table, used, commits
    <3>5. Grows(reservations, released)
      BY <1>4, <3>3, QuotaFacts, GrowsTwice
    <3>6. Within(usage, overtaken, clock, released)
      BY <3>3, <3>4, <3>5, QuotaFacts, FreedIsWithin
    <3>7. QED
      BY <3>1, <3>3, <3>5, <3>6, QuotaFacts
  <2>3. QED
    BY <2>1, <2>2
<1> HIDE DEF table, used
<1>9. /\ c \in Client /\ c.pc = client[w].pc /\ c.id = client[w].id
      /\ c.scans = client[w].scans /\ c.scan = client[w].scan /\ c.probe = 0
  BY <1>2 DEF Client
<1> HIDE DEF c
<1>10. ClientInv(client[w], table, clock)
  BY <1>2, <1>8, QuotaFacts, ClientKept
<1>11. ClientInv(c, table, clock)
  BY <1>9, <1>10 DEF ClientInv
<1>12. client' \in [Workers -> Client] /\ \A v \in Workers :
         client'[v] = client[v] \/ ClientInv(client'[v], table, clock)
  BY <1>6, <1>9, <1>11, QuotaFacts
<1>13. QED
  BY <1>1, <1>8, <1>12, QuotaFacts, QuotaKept

\* The other steps leave the tables alone.
LEMMA ClientStep ==
  ASSUME Pacing!PacingAssumption, QuotaInv, NEW w \in Workers, NEW c \in Client,
         client' = [client EXCEPT ![w] = c], ClientInv(c, reservations, clock),
         reservations' = reservations, usage' = usage, clock' = clock,
         overtaken' = overtaken
  PROVE  QuotaInv'
<1>1. Grows(reservations, reservations)
  BY QuotaFacts DEF Grows
<1>2. client' \in [Workers -> Client] /\ \A v \in Workers :
        client'[v] = client[v] \/ ClientInv(client'[v], reservations, clock)
  BY QuotaFacts
<1>3. QED
  BY <1>1, <1>2, QuotaFacts, QuotaKept

LEMMA QuotaStep ==
  ASSUME Pacing!PacingAssumption, QuotaInv, [Pacing!Next]_Pacing!vars
  PROVE  QuotaInv'
<1>1. CASE UNCHANGED Pacing!vars
  <2>1. /\ clock' = clock /\ reservations' = reservations /\ usage' = usage
        /\ client' = client /\ overtaken' = overtaken
    BY <1>1 DEF Pacing!vars
  <2>2. QED
    BY <2>1 DEF QuotaInv, LedgerTypes
<1>2. ASSUME NEW w \in Workers, Pacing!AcquireShared(w) PROVE QuotaInv'
  <2>1. PICK priority \in Pacing!Priority : Pacing!Acquire(w, priority, FALSE, clock)
    BY <1>2 DEF Pacing!AcquireShared
  <2>2. clock \in 0 .. clock
    BY QuotaFacts
  <2>3. QED
    BY <2>1, <2>2, AcquireKeepsQuota
<1>3. ASSUME NEW w \in Workers, Pacing!AcquireForScan(w) PROVE QuotaInv'
  <2>1. client[w].scan # None /\ Pacing!Acquire(w, "DISCOVERY", TRUE, client[w].scan)
    BY <1>3 DEF Pacing!AcquireForScan
  <2>2. client[w].scan \in 0 .. clock
    BY <2>1, QuotaFacts DEF ClientInv
  <2>3. "DISCOVERY" \in Pacing!Priority
    BY DEF Pacing!Priority
  <2>4. QED
    BY <2>1, <2>2, <2>3, AcquireKeepsQuota
<1>4. ASSUME NEW w \in Workers, Pacing!BeginScan(w) PROVE QuotaInv'
  <2> DEFINE c == [client[w] EXCEPT !.scan = clock]
  <2>1. /\ client[w].scan = None
        /\ client' = [client EXCEPT ![w].scan = clock] /\ reservations' = reservations
        /\ usage' = usage /\ clock' = clock /\ overtaken' = overtaken
    BY <1>4, Zenon DEF Pacing!BeginScan
  <2>2. client[w] \in Client /\ ClientInv(client[w], reservations, clock) /\ clock \in Nat
    BY QuotaFacts
  <2>3. /\ c \in Client /\ c.pc = client[w].pc /\ c.id = client[w].id
        /\ c.scans = client[w].scans /\ c.scan = clock /\ c.probe = client[w].probe
        /\ c.used = client[w].used
    BY <2>2 DEF Client
  <2>4. client' = [client EXCEPT ![w] = c]
    BY <2>1, QuotaFacts
  <2> HIDE DEF c
  <2>5. ClientInv(c, reservations, clock)
    BY <2>1, <2>2, <2>3 DEF ClientInv
  <2>6. QED
    BY <2>1, <2>3, <2>4, <2>5, ClientStep
<1>5. ASSUME NEW w \in Workers, Pacing!EndScan(w) PROVE QuotaInv'
  <2> DEFINE c == [client[w] EXCEPT !.scan = None]
  <2>1. /\ client[w].pc = "idle" /\ client[w].probe = 0
        /\ client' = [client EXCEPT ![w].scan = None] /\ reservations' = reservations
        /\ usage' = usage /\ clock' = clock /\ overtaken' = overtaken
    BY <1>5, Zenon DEF Pacing!EndScan, Pacing!Is
  <2>2. client[w] \in Client /\ ClientInv(client[w], reservations, clock)
    BY QuotaFacts
  <2>3. /\ c \in Client /\ c.pc = "idle" /\ c.scan = None /\ c.probe = 0
    BY <2>1, <2>2 DEF Client
  <2>4. client' = [client EXCEPT ![w] = c]
    BY <2>1, QuotaFacts
  <2> HIDE DEF c
  <2>5. ClientInv(c, reservations, clock)
    BY <2>3 DEF ClientInv
  <2>6. QED
    BY <2>1, <2>3, <2>4, <2>5, ClientStep
<1>6. ASSUME NEW w \in Workers, Pacing!DrawEstimate(w) PROVE QuotaInv'
  <2> DEFINE c == [client[w] EXCEPT !.used = client[w].used + 1]
  <2>1. /\ client[w].used < Phase2Cost
        /\ client' = [client EXCEPT ![w].used = client[w].used + 1]
        /\ reservations' = reservations
        /\ usage' = usage /\ clock' = clock /\ overtaken' = overtaken
    BY <1>6, Zenon DEF Pacing!DrawEstimate
  <2>2. client[w] \in Client /\ ClientInv(client[w], reservations, clock)
    BY QuotaFacts
  <2>3. /\ c \in Client /\ c.pc = client[w].pc /\ c.id = client[w].id
        /\ c.scans = client[w].scans /\ c.scan = client[w].scan /\ c.probe = client[w].probe
        /\ c.used = client[w].used + 1 /\ client[w].used \in Nat
    BY <2>2 DEF Client
  <2>4. client' = [client EXCEPT ![w] = c]
    BY <2>1, QuotaFacts
  <2>5. c.used \in 0 .. Phase2Cost
    BY <2>1, <2>3, QuotaNumbers
  <2> HIDE DEF c
  <2>6. ClientInv(c, reservations, clock)
    BY <2>2, <2>3, <2>5 DEF ClientInv
  <2>7. QED
    BY <2>1, <2>3, <2>4, <2>6, ClientStep
<1>7. ASSUME NEW w \in Workers, Pacing!Penalize(w) PROVE QuotaInv'
  <2>1. /\ clock' = clock /\ reservations' = reservations /\ usage' = usage
        /\ client' = client /\ overtaken' = overtaken
    BY <1>7, Zenon DEF Pacing!Penalize
  <2>2. QED
    BY <2>1 DEF QuotaInv, LedgerTypes
<1>8. ASSUME NEW w \in Workers, Pacing!Dies(w) PROVE QuotaInv'
  <2>1. /\ client' = [client EXCEPT ![w] = Pacing!Idle] /\ reservations' = reservations
        /\ usage' = usage /\ clock' = clock /\ overtaken' = overtaken
    BY <1>8, Zenon DEF Pacing!Dies
  <2>2. /\ Pacing!Idle \in Client /\ Pacing!Idle.pc = "idle" /\ Pacing!Idle.scan = None
        /\ Pacing!Idle.probe = 0
    BY DEF Pacing!Idle, Client
  <2>3. ClientInv(Pacing!Idle, reservations, clock)
    BY <2>2 DEF ClientInv
  <2>4. QED
    BY <2>1, <2>2, <2>3, ClientStep
<1>9. CASE Pacing!Tick
  <2>1. /\ clock' = clock + 1 /\ reservations' = reservations /\ usage' = usage
        /\ client' = client /\ overtaken' = overtaken
    BY <1>9, Zenon DEF Pacing!Tick
  <2>2. clock \in Nat /\ clock' \in Nat /\ clock <= clock'
    BY <2>1, QuotaFacts
  <2>3. Grows(reservations, reservations)
    BY QuotaFacts DEF Grows
  <2>4. \A i \in Pacing!Active(reservations) :
          /\ i \in Pacing!Active(reservations)
          /\ reservations[i].cost = reservations[i].cost
          /\ reservations[i].low = reservations[i].low
    OBVIOUS
  <2>5. Within(usage, overtaken, clock', reservations)
    <3>1. overtaken \subseteq overtaken
      OBVIOUS
    <3>2. QED
      BY <2>2, <2>4, <3>1, QuotaFacts, LessIsWithin
  <2>6. QED
    BY <2>1, <2>2, <2>3, <2>5, QuotaFacts, QuotaKept
<1>10. QED
  BY <1>1, <1>2, <1>3, <1>4, <1>5, <1>6, <1>7, <1>8, <1>9, RefusalKeepsQuota,
     ReadKeepsQuota, WriteKeepsQuota, PrepareKeepsQuota, FinishKeepsQuota DEF Pacing!Next

LEMMA QuotaBegins == Pacing!PacingAssumption /\ Pacing!Init => QuotaInv
<1>1. SUFFICES ASSUME Pacing!PacingAssumption, Pacing!Init PROVE QuotaInv
  OBVIOUS
<1>2. /\ clock = 0 /\ reservations = <<>> /\ usage = {} /\ overtaken = {}
      /\ client = [w \in Workers |-> Pacing!Idle]
  BY <1>1 DEF Pacing!Init
<1>3. /\ Pacing!Idle \in Client /\ Pacing!Idle.pc = "idle" /\ Pacing!Idle.scan = None
      /\ Pacing!Idle.probe = 0
  BY DEF Pacing!Idle, Client
<1>4. LedgerTypes
  BY <1>2, <1>3, FS_EmptySet DEF LedgerTypes
<1>5. \A w \in Workers : ClientInv(client[w], reservations, clock)
  BY <1>2, <1>3 DEF ClientInv
<1>6. ASSUME NEW below \in BOOLEAN
      PROVE  Load(below, usage, overtaken, clock, reservations) <= Ceiling(below)
  <2>1. Spent(below, usage, overtaken, clock) = {} /\ Held(below, reservations) = {}
    BY <1>2 DEF Spent, Held, Pacing!Active
  <2>2. \A f : DOMAIN f = {} => Pacing!Total(f) = 0
    <3>1. TAKE f
    <3>2. DOMAIN f = {} => Units(f) = {}
      BY DEF Units
    <3>3. QED
      BY <3>2, PacingSums, FS_EmptySet DEF Total
  <2>3. Pacing!Cost({}) = 0 /\ Reserve(below, reservations) = 0
    BY <2>1, <2>2 DEF Pacing!Cost, Reserve
  <2>4. Ceiling(below) \in Nat
    BY <1>1, QuotaNumbers DEF Ceiling
  <2>5. QED
    BY <2>1, <2>3, <2>4 DEF Load
<1>7. QED
  BY <1>4, <1>5, <1>6 DEF QuotaInv, Within

\* The window's bounds follow from what is spent alone.
LEMMA QuotaIsHeld == Pacing!PacingAssumption /\ QuotaInv => Pacing!QuotaHolds
<1>1. SUFFICES ASSUME Pacing!PacingAssumption, QuotaInv PROVE Pacing!QuotaHolds
  OBVIOUS
<1>2. /\ Spent(FALSE, usage, overtaken, clock) = Pacing!InWindow
      /\ Spent(TRUE, usage, overtaken, clock) = {u \in Pacing!InWindow : u.low}
  BY DEF Spent, Pacing!InWindow
<1>3. ASSUME NEW below \in BOOLEAN
      PROVE  Pacing!Cost(Spent(below, usage, overtaken, clock)) <= Ceiling(below)
  <2>1. /\ Pacing!Cost(Spent(below, usage, overtaken, clock)) \in Nat
        /\ Reserve(below, reservations) \in Nat
    BY <1>1, QuotaFacts, LoadIsNumber
  <2>2. Load(below, usage, overtaken, clock, reservations) <= Ceiling(below)
    BY <1>1, QuotaFacts DEF Within
  <2>3. Ceiling(below) \in Int
    BY <1>1, QuotaNumbers DEF Ceiling
  <2>4. QED
    BY <2>1, <2>2, <2>3 DEF Load
<1>4. Ceiling(FALSE) = Limit /\ Ceiling(TRUE) = Limit - Floor
  BY <1>1, QuotaNumbers DEF Ceiling
<1>5. QED
  BY <1>2, <1>3, <1>4 DEF Pacing!QuotaHolds, Pacing!WindowHolds, Pacing!ManagementIsServed

\* No window holds more requests than the broker takes, and discovery and candidate
\* work leave management its floor, for any number of processes, any limits, window,
\* time to live and probe estimate (pacing_ledger.py, reserve and commit).
THEOREM QuotaStaysHeld == MCSpec => []QuotaHolds
<1>1. Pacing!PacingAssumption
  BY SessionAssumption
<1>2. MCInit => (part = "pacing" => QuotaInv)
  BY <1>1, QuotaBegins DEF MCInit
<1>3. (part = "pacing" => QuotaInv) /\ [MCNext]_everything => (part = "pacing" => QuotaInv)'
  <2>1. SUFFICES ASSUME part = "pacing" => QuotaInv, [MCNext]_everything, part' = "pacing"
                 PROVE  QuotaInv'
    OBVIOUS
  <2>2. part = "pacing" /\ [Pacing!Next]_Pacing!vars
    BY <2>1 DEF MCNext, everything, pacingLedger, Pacing!vars
  <2>3. QED
    BY <1>1, <2>1, <2>2, QuotaStep
<1>4. (part = "pacing" => QuotaInv) => QuotaHolds
  BY <1>1, QuotaIsHeld DEF QuotaHolds
<1>5. QED
  BY <1>2, <1>3, <1>4, PTL DEF MCSpec

-----------------------------------------------------------------------------
(* The ticks of a worker (AutoCycle) *)

\* A time lies in the slot that division gives it.
LEMMA SlotOfTime ==
  ASSUME NEW t \in Nat, NEW c \in Nat \ {0}
  PROVE  t \div c \in Nat /\ (t \div c) * c <= t /\ t < ((t \div c) + 1) * c
<1>1. c \in Int /\ c > 0
  OBVIOUS
<1>2. t = c * (t \div c) + (t % c) /\ t % c \in 0 .. c - 1 /\ t \div c \in Int
  BY <1>1
<1>3. t \div c \in Nat
  BY <1>1
<1> DEFINE q == t \div c
<1>4. q * c = c * q /\ (q + 1) * c = c * q + c
  <2> HIDE DEF q
  <2>1. ASSUME NEW x \in Nat PROVE x * c = c * x /\ (x + 1) * c = c * x + c
    BY <1>1
  <2>2. QED
    BY <1>3, <2>1 DEF q
<1>5. c * q \in Nat
  BY <1>3
<1> HIDE DEF q
<1>6. QED
  BY <1>1, <1>2, <1>3, <1>4, <1>5 DEF q

\* A later time lies in no earlier slot.
LEMMA LaterSlot ==
  ASSUME NEW t \in Nat, NEW n \in Nat, t <= n, NEW c \in Nat \ {0}
  PROVE  t \div c <= n \div c
<1> DEFINE a == t \div c
           b == n \div c
<1>1. a \in Nat /\ b \in Nat /\ a * c <= t /\ n < (b + 1) * c
  BY SlotOfTime
<1> HIDE DEF a, b
<1>2. SUFFICES ASSUME b < a PROVE FALSE
  BY <1>1 DEF a, b
<1>3. b + 1 <= a
  BY <1>1, <1>2
<1>4. (b + 1) * c <= a * c
  BY <1>1, <1>3
<1>5. (b + 1) * c \in Nat /\ a * c \in Nat
  BY <1>1
<1>6. QED
  BY <1>1, <1>4, <1>5

\* A slot of a multiple of a period begins with a slot of that period.
LEMMA SlotOfMultiple ==
  ASSUME NEW t \in Nat, NEW n \in Nat, NEW m \in Nat \ {0}, NEW k \in Nat \ {0},
         t \div (k * m) < n \div (k * m)
  PROVE  t \div m < n \div m
<1> DEFINE a == t \div m
           b == n \div m
           q == n \div (k * m)
           p == t \div (k * m)
<1>1. k * m \in Nat \ {0}
  OBVIOUS
<1>2. /\ a \in Nat /\ b \in Nat /\ q \in Nat /\ p \in Nat
      /\ a * m <= t /\ n < (b + 1) * m
      /\ q * (k * m) <= n /\ t < (p + 1) * (k * m)
  BY <1>1, SlotOfTime
<1>3. p < q
  OBVIOUS
<1> HIDE DEF a, b, p, q
<1>4. SUFFICES ASSUME b <= a PROVE FALSE
  BY <1>2 DEF a, b
<1>5. (q * k) * m = q * (k * m)
  BY <1>2
<1>6. q * k \in Nat
  BY <1>2
<1>7. q * k <= b
  <2>1. SUFFICES ASSUME b + 1 <= q * k PROVE FALSE
    BY <1>2, <1>6
  <2> DEFINE x == q * k
  <2>2. x \in Nat /\ b + 1 \in Nat /\ b + 1 <= x
    BY <1>2, <1>6, <2>1
  <2> HIDE DEF x
  <2>3. (b + 1) * m <= x * m
    BY <2>2
  <2>4. (b + 1) * m \in Nat /\ x * m \in Nat
    BY <2>2
  <2>5. x * m <= n
    BY <1>2, <1>5 DEF x
  <2>6. QED
    BY <1>2, <2>3, <2>4, <2>5
<1>8. (q * k) * m <= a * m
  <2> DEFINE x == q * k
  <2>1. x \in Nat /\ x <= a
    BY <1>2, <1>4, <1>6, <1>7
  <2> HIDE DEF x
  <2>2. x * m <= a * m
    BY <1>2, <2>1
  <2>3. QED
    BY <2>2 DEF x
<1>9. q * (k * m) <= t
  BY <1>2, <1>5, <1>6, <1>8
<1>10. (p + 1) * (k * m) <= q * (k * m)
  <2> DEFINE c == k * m
  <2>1. c \in Nat
    BY <1>1
  <2> HIDE DEF c
  <2>2. p + 1 <= q /\ p + 1 \in Nat
    BY <1>2, <1>3
  <2>3. (p + 1) * c <= q * c
    BY <1>2, <2>1, <2>2
  <2>4. QED
    BY <2>3 DEF c
<1>11. QED
  <2> DEFINE u == (p + 1) * (k * m)
             v == q * (k * m)
  <2>1. u \in Nat /\ v \in Nat
    BY <1>1, <1>2
  <2>2. u <= v /\ v <= t /\ t < u
    BY <1>2, <1>9, <1>10
  <2> HIDE DEF u, v
  <2>3. QED
    BY <2>1, <2>2

\* A longer period has fewer slots.
LEMMA SlotOfLonger ==
  ASSUME NEW t \in Nat, NEW m \in Nat \ {0}, NEW k \in Nat \ {0}
  PROVE  t \div (k * m) <= t \div m
<1> DEFINE a == t \div m
           q == t \div (k * m)
<1>1. k * m \in Nat \ {0}
  OBVIOUS
<1>2. /\ a \in Nat /\ q \in Nat /\ t < (a + 1) * m /\ q * (k * m) <= t
  BY <1>1, SlotOfTime
<1> HIDE DEF a, q
<1>3. SUFFICES ASSUME a + 1 <= q PROVE FALSE
  BY <1>2 DEF a, q
<1>4. (a + 1) * m <= q * m
  <2> DEFINE x == a + 1
  <2>1. x \in Nat /\ x <= q
    BY <1>2, <1>3
  <2> HIDE DEF x
  <2>2. x * m <= q * m
    BY <1>2, <2>1
  <2>3. QED
    BY <2>2 DEF x
<1>5. q * m <= q * (k * m)
  <2> DEFINE c == k * m
  <2>1. m <= c /\ c \in Nat
    OBVIOUS
  <2> HIDE DEF c
  <2>2. q * m <= q * c
    BY <1>2, <2>1
  <2>3. QED
    BY <2>2 DEF c
<1>6. QED
  <2> DEFINE u == (a + 1) * m
             v == q * m
             x == q * (k * m)
  <2>1. u \in Nat /\ v \in Nat /\ x \in Nat /\ u <= v /\ v <= x /\ x <= t /\ t < u
    BY <1>1, <1>2, <1>4, <1>5
  <2> HIDE DEF u, v, x
  <2>2. QED
    BY <2>1

-----------------------------------------------------------------------------
(* The slots of a schedule and the receipts of its ticks *)

Phases == {"RECOVERY", "MANAGEMENT", "ENTRY", "PROBE", "DISCOVERY"}
Steps == {"down", "loop", "chosen", "starting", "started", "working", "clearing",
          "scanning"}
AnySlot == [job : Cycle!Jobs, index : Int]

CycleTypes ==
  /\ now \in Nat
  /\ \E owner : schedule = [owner |-> owner, slots |-> schedule.slots,
                            pending |-> schedule.pending]
  /\ schedule.slots \in [Cycle!Jobs -> Int] /\ schedule.pending \subseteq AnySlot
  /\ receipts = [started |-> receipts.started, ended |-> receipts.ended,
                 aborted |-> receipts.aborted, unresolved |-> receipts.unresolved,
                 reconciled |-> receipts.reconciled]
  /\ \E name : worker = [pc |-> worker.pc, session |-> name, blocked |-> worker.blocked,
                         due |-> worker.due, todo |-> worker.todo]
  /\ worker.pc \in Steps /\ worker.blocked \in BOOLEAN
  /\ worker.due \subseteq AnySlot /\ worker.todo \subseteq Phases

\* The slot that a job counted last.
Last(job) == [job |-> job, index |-> schedule.slots[job]]

\* The counters of all jobs were taken at the same time, if they were.
Together ==
  \/ \A job \in Cycle!Jobs : schedule.slots[job] = -1
  \/ \E t \in 0 .. now : \A job \in Cycle!Jobs : schedule.slots[job] = t \div Cadence[job]

\* What is pending or worked on was counted last.
Current(slots) ==
  \A s \in slots : s = Last(s.job) /\ s.index >= 0

Missed(s) == \E t \in Nat \ Hours[s.job] : s.index = t \div Cadence[s.job]
Receipt == [id |-> Cycle!Mine, slots |-> worker.due]

\* What a worker does at each step with the slots that it has chosen.
Follows ==
  /\ worker.pc = "chosen" =>
       worker.due \subseteq schedule.pending
       /\ \A s \in schedule.pending \ worker.due : Missed(s)
  /\ worker.pc \in {"starting", "started"} => schedule.pending \subseteq worker.due
  /\ worker.pc \in {"starting", "started"} \/ Cycle!AtBroker => worker.due # {}
  /\ worker.pc = "started" \/ Cycle!AtBroker => Receipt \in receipts.started
  /\ Cycle!AtBroker => schedule.pending = {}
  /\ worker.pc \notin {"down", "loop"} => Current(worker.due)

Witness(s) == s \in schedule.pending \/ \E r \in receipts.started : s \in r.slots
Whole(s) ==
  s.index >= 0
  /\ (s.index * Cadence[s.job] .. (s.index + 1) * Cadence[s.job] - 1) \subseteq Hours[s.job]

Witnessed == \A job \in Cycle!Jobs : Whole(Last(job)) => Witness(Last(job))

SlotInv ==
  CycleTypes /\ Together /\ Current(schedule.pending) /\ Follows /\ Witnessed

\* A slot of which some time was not allowed is not whole.
LEMMA MissedIsNotWhole ==
  ASSUME Cycle!CycleAssumption, NEW s \in AnySlot, Missed(s)
  PROVE  ~Whole(s)
<1>1. PICK t \in Nat \ Hours[s.job] : s.index = t \div Cadence[s.job]
  BY DEF Missed
<1>2. Cadence[s.job] \in Nat \ {0}
  BY DEF Cycle!CycleAssumption, AnySlot
<1> DEFINE c == Cadence[s.job]
           i == s.index
<1>3. i \in Nat /\ i * c <= t /\ t < (i + 1) * c
  BY <1>1, <1>2, SlotOfTime
<1>4. i * c \in Nat /\ (i + 1) * c \in Nat
  BY <1>2, <1>3
<1>5. t \in i * c .. (i + 1) * c - 1
  <2> DEFINE u == i * c
             v == (i + 1) * c
  <2>1. u \in Nat /\ v \in Nat /\ u <= t /\ t < v
    BY <1>3, <1>4
  <2> HIDE DEF u, v, c, i
  <2>2. t \in u .. v - 1
    BY <1>1, <2>1
  <2>3. QED
    BY <2>2 DEF u, v
<1>6. QED
  BY <1>1, <1>5 DEF Whole

\* What changing the step of a worker leaves as it was.
LEMMA GoesTo ==
  ASSUME CycleTypes, NEW pc, Cycle!Goes(pc)
  PROVE  /\ \E name : worker' = [pc |-> pc, session |-> name, blocked |-> worker.blocked,
                                 due |-> worker.due, todo |-> worker.todo]
         /\ worker'.pc = pc /\ worker'.session = worker.session
         /\ worker'.blocked = worker.blocked /\ worker'.due = worker.due
         /\ worker'.todo = worker.todo
<1>1. PICK name : worker = [pc |-> worker.pc, session |-> name, blocked |-> worker.blocked,
                            due |-> worker.due, todo |-> worker.todo]
  BY DEF CycleTypes
<1>2. worker' = [worker EXCEPT !.pc = pc]
  BY DEF Cycle!Goes
<1>3. worker' = [pc |-> pc, session |-> name, blocked |-> worker.blocked,
                 due |-> worker.due, todo |-> worker.todo]
  BY <1>1, <1>2
<1>4. /\ worker'.pc = pc /\ worker'.session = name /\ worker.session = name
      /\ worker'.blocked = worker.blocked /\ worker'.due = worker.due
      /\ worker'.todo = worker.todo
  BY <1>1, <1>3
<1>5. QED
  BY <1>3, <1>4

\* The name of a tick depends on its session and its slots.
LEMMA SameTick ==
  ASSUME worker'.session = worker.session, worker'.due = worker.due
  PROVE  Cycle!Mine' = Cycle!Mine /\ Receipt' = Receipt
<1>1. QED
  BY DEF Cycle!Mine, Cycle!TickId, Receipt

\* Steps that move no slot.
LEMMA SlotKept ==
  ASSUME SlotInv, CycleTypes', schedule' = schedule, now <= now',
         receipts.started \subseteq receipts.started',
         \/ worker'.pc \in {"down", "loop"}
         \/ /\ worker'.due = worker.due /\ worker'.session = worker.session
            /\ worker'.pc = worker.pc \/ (Cycle!AtBroker /\ Cycle!AtBroker')
  PROVE  SlotInv'
<1>1. Together' /\ Current(schedule.pending)'
  <2>1. now \in Nat /\ now' \in Nat
    BY DEF SlotInv, CycleTypes
  <2>2. 0 .. now \subseteq 0 .. now'
    BY <2>1
  <2>3. Together'
    BY <2>2 DEF SlotInv, Together
  <2>4. Current(schedule.pending)'
    BY DEF SlotInv, Current, Last
  <2>5. QED
    BY <2>3, <2>4
<1>2. Witnessed'
  BY DEF SlotInv, Witnessed, Witness, Whole, Last
<1>3. Follows'
  <2>1. CASE worker'.pc \in {"down", "loop"}
    BY <2>1 DEF Follows, Cycle!AtBroker
  <2>2. CASE /\ worker'.due = worker.due /\ worker'.session = worker.session
             /\ worker'.pc = worker.pc \/ (Cycle!AtBroker /\ Cycle!AtBroker')
    <3>1. Receipt' = Receipt
      BY <2>2, SameTick
    <3>2. Current(worker.due)' <=> Current(worker.due)
      BY <2>2 DEF Current, Last
    <3>3. \A s : Missed(s)' <=> Missed(s)
      BY DEF Missed
    <3>4. Follows
      BY DEF SlotInv
    <3>5. CASE worker'.pc = worker.pc
      <4>1. /\ worker'.pc = "chosen" =>
                 worker'.due \subseteq schedule'.pending
                 /\ \A s \in schedule'.pending \ worker'.due : Missed(s)'
        BY <2>2, <3>3, <3>4, <3>5 DEF Follows
      <4>2. /\ worker'.pc \in {"starting", "started"} => schedule'.pending \subseteq worker'.due
            /\ worker'.pc \in {"starting", "started"} \/ Cycle!AtBroker' => worker'.due # {}
            /\ worker'.pc = "started" \/ Cycle!AtBroker' => Receipt' \in receipts'.started
            /\ Cycle!AtBroker' => schedule'.pending = {}
        BY <2>2, <3>1, <3>4, <3>5 DEF Follows, Cycle!AtBroker
      <4>3. worker'.pc \notin {"down", "loop"} => Current(worker.due)'
        BY <3>2, <3>4, <3>5 DEF Follows
      <4>4. QED
        BY <4>1, <4>2, <4>3, Zenon DEF Follows
    <3>6. CASE Cycle!AtBroker /\ Cycle!AtBroker'
      BY <2>2, <3>1, <3>2, <3>4, <3>6 DEF Follows, Cycle!AtBroker
    <3>7. QED
      BY <2>2, <3>5, <3>6
  <2>3. QED
    BY <2>1, <2>2
<1>4. QED
  BY <1>1, <1>2, <1>3 DEF SlotInv

\* A worker at the broker takes a phase off its list, or changes its step.
BrokerStep(pc) ==
  /\ Cycle!AtBroker
  /\ \E todo \in SUBSET worker.todo : \E blocked \in BOOLEAN :
       worker' = [worker EXCEPT !.pc = pc, !.todo = todo, !.blocked = blocked]

LEMMA BrokerTyped ==
  ASSUME CycleTypes, NEW pc \in Steps, BrokerStep(pc),
         schedule' = schedule, now' \in Nat,
         receipts' = [started |-> receipts'.started, ended |-> receipts'.ended,
                      aborted |-> receipts'.aborted, unresolved |-> receipts'.unresolved,
                      reconciled |-> receipts'.reconciled]
  PROVE  /\ CycleTypes'
         /\ worker'.pc = pc /\ worker'.due = worker.due /\ worker'.session = worker.session
         /\ worker'.todo \subseteq worker.todo
<1>1. PICK todo \in SUBSET worker.todo, blocked \in BOOLEAN :
        worker' = [worker EXCEPT !.pc = pc, !.todo = todo, !.blocked = blocked]
  BY DEF BrokerStep
<1>2. PICK a, name, c, d, e :
        worker = [pc |-> a, session |-> name, blocked |-> c, due |-> d, todo |-> e]
  BY DEF CycleTypes
<1>3. worker' = [pc |-> pc, session |-> name, blocked |-> blocked, due |-> d,
                 todo |-> todo]
  <2> DEFINE new == [worker EXCEPT !.pc = pc, !.todo = todo, !.blocked = blocked]
  <2>1. DOMAIN worker = {"pc", "session", "blocked", "due", "todo"}
    BY <1>2
  <2>2. new = [f \in {"pc", "session", "blocked", "due", "todo"} |-> new[f]]
    BY <2>1
  <2>3. new.pc = pc /\ new.todo = todo /\ new.blocked = blocked
    BY <2>1
  <2>4. new.session = name /\ new.due = d
    BY <1>2, <2>1
  <2> HIDE DEF new
  <2>5. new = [pc |-> pc, session |-> name, blocked |-> blocked, due |-> d, todo |-> todo]
    BY <2>2, <2>3, <2>4
  <2>6. QED
    BY <1>1, <2>5 DEF new
<1>4. /\ worker'.pc = pc /\ worker'.session = name /\ worker.session = name
      /\ worker'.blocked = blocked /\ worker'.due = worker.due /\ worker'.todo = todo
  BY <1>2, <1>3
<1>5. \E n : worker' = [pc |-> worker'.pc, session |-> n, blocked |-> worker'.blocked,
                        due |-> worker'.due, todo |-> worker'.todo]
  BY <1>3, <1>4
<1>6. worker'.due \subseteq AnySlot /\ worker'.todo \subseteq Phases
      /\ worker'.pc \in Steps /\ worker'.blocked \in BOOLEAN
  BY <1>4 DEF CycleTypes
<1>7. /\ \E owner : schedule' = [owner |-> owner, slots |-> schedule'.slots,
                                 pending |-> schedule'.pending]
      /\ schedule'.slots \in [Cycle!Jobs -> Int] /\ schedule'.pending \subseteq AnySlot
  BY DEF CycleTypes
<1>8. CycleTypes'
  BY <1>5, <1>6, <1>7, Zenon DEF CycleTypes
<1>9. QED
  BY <1>4, <1>8

\* Every step of a worker at the broker, and what it changes beside the worker.
Untouched == schedule' = schedule /\ now' = now

LEMMA BrokerSteps ==
  ASSUME CycleTypes, Follows
  PROVE  /\ (Cycle!RecoveryRefused \/ Cycle!Management \/ Cycle!Entry) =>
              BrokerStep("working") /\ Untouched /\ receipts' = receipts
         /\ Cycle!Reconcile => BrokerStep("clearing") /\ Untouched /\ receipts' = receipts
         /\ (\E phase \in {"PROBE", "DISCOVERY"} : Cycle!ScanStarted(phase)) =>
              BrokerStep("scanning") /\ Untouched /\ receipts' = receipts
         /\ Cycle!ScanEnded => BrokerStep("working") /\ Untouched /\ receipts' = receipts
         /\ Cycle!ReconcileTick =>
              BrokerStep("clearing") /\ Untouched
              /\ \E id : receipts' = [receipts EXCEPT !.reconciled = @ \cup {id}]
         /\ Cycle!ClearRecovery =>
              BrokerStep("working") /\ Untouched /\ receipts' = receipts
         /\ Cycle!TickUnresolved =>
              BrokerStep("loop") /\ Untouched
              /\ receipts' = [receipts EXCEPT !.unresolved = @ \cup {Cycle!Mine}]
         /\ Cycle!TickFinished =>
              BrokerStep("loop") /\ Untouched
              /\ receipts' = [receipts EXCEPT !.ended = @ \cup {Cycle!Mine}]
<1>1. PICK name : worker = [pc |-> worker.pc, session |-> name, blocked |-> worker.blocked,
                            due |-> worker.due, todo |-> worker.todo]
  BY DEF CycleTypes
<1>2. worker.blocked \in BOOLEAN
  BY DEF CycleTypes
<1>3. ASSUME NEW pc, NEW phase,
             worker' = [worker EXCEPT !.pc = pc, !.todo = worker.todo \ {phase}],
             Cycle!AtBroker
      PROVE  BrokerStep(pc)
  <2>1. worker' = [worker EXCEPT !.pc = pc, !.todo = worker.todo \ {phase},
                                 !.blocked = worker.blocked]
    BY <1>1, <1>3
  <2>2. worker.todo \ {phase} \in SUBSET worker.todo
    OBVIOUS
  <2>3. QED
    BY <1>2, <1>3, <2>1, <2>2 DEF BrokerStep
<1>4. ASSUME NEW pc, Cycle!Goes(pc), Cycle!AtBroker
      PROVE  BrokerStep(pc)
  <2>1. worker' = [worker EXCEPT !.pc = pc, !.todo = worker.todo,
                                 !.blocked = worker.blocked]
    BY <1>1, <1>4 DEF Cycle!Goes
  <2>2. worker.todo \in SUBSET worker.todo
    OBVIOUS
  <2>3. QED
    BY <1>2, <1>4, <2>1, <2>2 DEF BrokerStep
<1>5. ASSUME NEW phase, Cycle!Turn(phase), Cycle!Done(phase) PROVE BrokerStep("working")
  <2>1. worker.pc = "working" /\ worker' = [worker EXCEPT !.todo = worker.todo \ {phase}]
    BY <1>5, Zenon DEF Cycle!Turn, Cycle!Done, Cycle!Is
  <2>2. worker' = [worker EXCEPT !.pc = "working", !.todo = worker.todo \ {phase}]
    BY <1>1, <2>1
  <2>3. QED
    BY <1>3, <2>1, <2>2 DEF Cycle!AtBroker
<1>6. (Cycle!RecoveryRefused \/ Cycle!Management \/ Cycle!Entry) =>
         BrokerStep("working") /\ Untouched /\ receipts' = receipts
  BY <1>5, Zenon DEF Cycle!RecoveryRefused, Cycle!Management, Cycle!Entry, Untouched,
                     Cycle!environment
<1>7. Cycle!Reconcile => BrokerStep("clearing") /\ Untouched /\ receipts' = receipts
  <2>1. SUFFICES ASSUME Cycle!Reconcile
                 PROVE  BrokerStep("clearing") /\ Untouched /\ receipts' = receipts
    OBVIOUS
  <2>2. /\ worker.pc = "working" /\ Cycle!Goes("clearing")
        /\ schedule' = [schedule EXCEPT !.pending = {}] /\ now' = now
        /\ receipts' = receipts
    BY <2>1, Zenon DEF Cycle!Reconcile, Cycle!Turn, Cycle!Is, Cycle!environment
  <2>3. schedule' = schedule
    <3>1. PICK owner : schedule = [owner |-> owner, slots |-> schedule.slots,
                                   pending |-> schedule.pending]
      BY DEF CycleTypes
    <3>2. schedule.pending = {}
      BY <2>2 DEF Follows, Cycle!AtBroker
    <3>3. QED
      BY <2>2, <3>1, <3>2
  <2>4. QED
    BY <1>4, <2>2, <2>3 DEF Cycle!AtBroker, Untouched
<1>8. (\E phase \in {"PROBE", "DISCOVERY"} : Cycle!ScanStarted(phase)) =>
         BrokerStep("scanning") /\ Untouched /\ receipts' = receipts
  <2>1. SUFFICES ASSUME NEW phase \in {"PROBE", "DISCOVERY"}, Cycle!ScanStarted(phase)
                 PROVE  BrokerStep("scanning") /\ Untouched /\ receipts' = receipts
    OBVIOUS
  <2>2. /\ worker.pc = "working"
        /\ worker' = [worker EXCEPT !.pc = "scanning", !.todo = worker.todo \ {phase}]
        /\ schedule' = schedule /\ now' = now /\ receipts' = receipts
    BY <2>1, Zenon DEF Cycle!ScanStarted, Cycle!Turn, Cycle!Is, Cycle!environment
  <2>3. QED
    BY <1>3, <2>2 DEF Cycle!AtBroker, Untouched
<1>9. Cycle!ScanEnded => BrokerStep("working") /\ Untouched /\ receipts' = receipts
  <2>1. SUFFICES ASSUME Cycle!ScanEnded
                 PROVE  BrokerStep("working") /\ Untouched /\ receipts' = receipts
    OBVIOUS
  <2>2. /\ worker.pc = "scanning" /\ Cycle!Goes("working")
        /\ schedule' = schedule /\ now' = now /\ receipts' = receipts
    BY <2>1, Zenon DEF Cycle!ScanEnded, Cycle!Is, Cycle!environment
  <2>3. QED
    BY <1>4, <2>2 DEF Cycle!AtBroker, Untouched
<1>10. Cycle!ClearRecovery =>
         BrokerStep("working") /\ Untouched /\ receipts' = receipts
  <2>1. SUFFICES ASSUME Cycle!ClearRecovery
                 PROVE  BrokerStep("working") /\ Untouched /\ receipts' = receipts
    OBVIOUS
  <2>2. /\ worker.pc = "clearing" /\ schedule' = schedule
        /\ worker' = [worker EXCEPT !.pc = "working", !.todo = worker.todo \ {"RECOVERY"},
                                    !.blocked = FALSE]
        /\ now' = now /\ receipts' = receipts
    BY <2>1, Zenon DEF Cycle!ClearRecovery, Cycle!Is, Cycle!environment
  <2>3. worker.todo \ {"RECOVERY"} \in SUBSET worker.todo
    OBVIOUS
  <2>4. QED
    BY <2>2, <2>3 DEF BrokerStep, Cycle!AtBroker, Untouched
<1>14. Cycle!ReconcileTick =>
         BrokerStep("clearing") /\ Untouched
         /\ \E id : receipts' = [receipts EXCEPT !.reconciled = @ \cup {id}]
  <2>1. SUFFICES ASSUME Cycle!ReconcileTick
                 PROVE  BrokerStep("clearing") /\ Untouched
                        /\ \E id : receipts' = [receipts EXCEPT !.reconciled = @ \cup {id}]
    OBVIOUS
  <2>2. /\ worker.pc = "clearing" /\ worker' = worker /\ schedule' = schedule /\ now' = now
        /\ \E id : receipts' = [receipts EXCEPT !.reconciled = @ \cup {id}]
    BY <2>1, Zenon DEF Cycle!ReconcileTick, Cycle!Is, Cycle!environment
  <2>3. Cycle!Goes("clearing")
    BY <1>1, <2>2 DEF Cycle!Goes
  <2>4. QED
    BY <1>4, <2>2, <2>3 DEF Cycle!AtBroker, Untouched
<1>11. Cycle!TickUnresolved =>
         BrokerStep("loop") /\ Untouched
         /\ receipts' = [receipts EXCEPT !.unresolved = @ \cup {Cycle!Mine}]
  <2>1. SUFFICES ASSUME Cycle!TickUnresolved
                 PROVE  BrokerStep("loop") /\ Untouched
                        /\ receipts' = [receipts EXCEPT !.unresolved = @ \cup {Cycle!Mine}]
    OBVIOUS
  <2>2. /\ Cycle!AtBroker /\ schedule' = schedule /\ now' = now
        /\ worker' = [worker EXCEPT !.pc = "loop", !.blocked = TRUE, !.todo = {}]
        /\ receipts' = [receipts EXCEPT !.unresolved = @ \cup {Cycle!Mine}]
    BY <2>1, Zenon DEF Cycle!TickUnresolved, Cycle!environment
  <2>3. worker' = [worker EXCEPT !.pc = "loop", !.todo = {}, !.blocked = TRUE]
    BY <1>1, <2>2
  <2>4. {} \in SUBSET worker.todo
    OBVIOUS
  <2>5. QED
    BY <2>2, <2>3, <2>4 DEF BrokerStep, Untouched
<1>12. Cycle!TickFinished =>
         BrokerStep("loop") /\ Untouched
         /\ receipts' = [receipts EXCEPT !.ended = @ \cup {Cycle!Mine}]
  <2>1. SUFFICES ASSUME Cycle!TickFinished
                 PROVE  BrokerStep("loop") /\ Untouched
                        /\ receipts' = [receipts EXCEPT !.ended = @ \cup {Cycle!Mine}]
    OBVIOUS
  <2>2. /\ worker.pc = "working" /\ schedule' = schedule /\ now' = now
        /\ worker' = [worker EXCEPT !.pc = "loop"]
        /\ receipts' = [receipts EXCEPT !.ended = @ \cup {Cycle!Mine}]
    BY <2>1, Zenon DEF Cycle!TickFinished, Cycle!Is, Cycle!environment, Cycle!Goes
  <2>3. QED
    BY <1>4, <2>2 DEF Cycle!AtBroker, Untouched, Cycle!Goes
<1>13. QED
  BY <1>6, <1>7, <1>8, <1>9, <1>10, <1>11, <1>12, <1>14

\* A worker that starts, stops or dies.
LEMMA StartTyped ==
  ASSUME SlotInv, Cycle!StartWorker \/ Cycle!Stop \/ Cycle!Die
  PROVE  /\ SlotInv' /\ schedule' = schedule /\ receipts' = receipts
         /\ worker'.pc \in {"down", "loop"} /\ worker'.todo = {}
<1>1. schedule' = schedule /\ receipts' = receipts /\ now' = now
  BY Zenon DEF Cycle!StartWorker, Cycle!Stop, Cycle!Die, Cycle!environment
<1>2. worker' = Cycle!Down \/
      worker' = [Cycle!Down EXCEPT !.pc = "loop", !.session = session,
                   !.blocked = Cycle!Unmatched # {} \/ schedule.pending # {}]
  BY Zenon DEF Cycle!StartWorker, Cycle!Stop, Cycle!Die
<1>3. \E name, blocked, pc :
        /\ blocked \in BOOLEAN /\ pc \in {"down", "loop"}
        /\ worker' =
             [pc |-> pc, session |-> name, blocked |-> blocked, due |-> {}, todo |-> {}]
  <2>1. CASE worker' = Cycle!Down
    BY <2>1 DEF Cycle!Down
  <2>2. CASE worker' = [Cycle!Down EXCEPT !.pc = "loop", !.session = session,
                          !.blocked = Cycle!Unmatched # {} \/ schedule.pending # {}]
    <3> DEFINE blocked == Cycle!Unmatched # {} \/ schedule.pending # {}
    <3>1. blocked \in BOOLEAN
      OBVIOUS
    <3>2. worker' = [Cycle!Down EXCEPT !.pc = "loop", !.session = session,
                                       !.blocked = blocked]
      BY <2>2
    <3> HIDE DEF blocked
    <3>3. worker' = [pc |-> "loop", session |-> session, blocked |-> blocked,
                     due |-> {}, todo |-> {}]
      BY <3>2 DEF Cycle!Down
    <3>4. QED
      BY <3>1, <3>3
  <2>3. QED
    BY <1>2, <2>1, <2>2
<1>4. PICK name, blocked, pc :
        /\ blocked \in BOOLEAN /\ pc \in {"down", "loop"}
        /\ worker' =
             [pc |-> pc, session |-> name, blocked |-> blocked, due |-> {}, todo |-> {}]
  BY <1>3
<1>5. /\ worker'.pc \in {"down", "loop"} /\ worker'.blocked \in BOOLEAN
      /\ worker'.due = {} /\ worker'.todo = {}
      /\ \E n : worker' = [pc |-> worker'.pc, session |-> n, blocked |-> worker'.blocked,
                           due |-> worker'.due, todo |-> worker'.todo]
  BY <1>4
<1>6. CycleTypes'
  BY <1>1, <1>5 DEF SlotInv, CycleTypes, Steps
<1>7. now <= now'
  BY <1>1 DEF SlotInv, CycleTypes
<1>8. QED
  BY <1>1, <1>5, <1>6, <1>7, SlotKept

\* What choosing changes of a worker.
LEMMA ChosenIs ==
  ASSUME CycleTypes, NEW blocked, NEW due,
         worker' = [worker EXCEPT !.blocked = blocked, !.due = due, !.pc = "chosen"]
  PROVE  /\ worker'.pc = "chosen" /\ worker'.due = due /\ worker'.blocked = blocked
         /\ worker'.todo = worker.todo
         /\ \E name : worker' = [pc |-> worker'.pc, session |-> name,
                                 blocked |-> worker'.blocked, due |-> worker'.due,
                                 todo |-> worker'.todo]
<1>1. PICK a, name, c, d, e :
        worker = [pc |-> a, session |-> name, blocked |-> c, due |-> d, todo |-> e]
  BY DEF CycleTypes
<1>2. DOMAIN worker = {"pc", "session", "blocked", "due", "todo"}
  BY <1>1
<1>3. worker' = [f \in {"pc", "session", "blocked", "due", "todo"} |-> worker'[f]]
  BY <1>2
<1>4. worker'.pc = "chosen" /\ worker'.due = due /\ worker'.blocked = blocked
  BY <1>2
<1>5. worker'.session = worker.session /\ worker'.todo = worker.todo
  BY <1>2
<1>6. worker' = [pc |-> worker'.pc, session |-> worker.session,
                 blocked |-> worker'.blocked, due |-> worker'.due, todo |-> worker'.todo]
  BY <1>3, <1>5
<1>7. QED
  BY <1>4, <1>5, <1>6

\* The slots that the time has reached become the ones counted last.
LEMMA ChooseKeepsSlots ==
  ASSUME Cycle!CycleAssumption, SlotInv, Cycle!Choose, schedule.pending = {}
  PROVE  /\ SlotInv'
         /\ schedule'.pending = Cycle!Due(now) /\ schedule'.pending # {}
         /\ worker'.due = Cycle!Allowed(Cycle!Due(now), now)
         /\ worker'.pc = "chosen"
         /\ \A job \in Cycle!Jobs : schedule'.slots[job] = now \div Cadence[job]
         /\ \A job \in Cycle!Jobs : schedule.slots[job] <= now \div Cadence[job]
<1> DEFINE slots == Cycle!Due(now)
           allowed == Cycle!Allowed(slots, now)
           n(job) == now \div Cadence[job]
<1>1. /\ slots # {} /\ now' = now /\ receipts' = receipts
      /\ schedule' = [owner |-> worker.session, slots |-> Cycle!Advanced(slots),
                      pending |-> slots]
      /\ worker' = [worker EXCEPT !.blocked = worker.blocked \/ Cycle!RecoveryRequired,
                                  !.due = allowed, !.pc = "chosen"]
  BY DEF Cycle!Choose, Cycle!Selected, Cycle!environment
<1>2. /\ now \in Nat /\ schedule.slots \in [Cycle!Jobs -> Int] /\ Cadence \in [Cycle!Jobs -> Nat \ {0}]
  BY DEF SlotInv, CycleTypes, Cycle!CycleAssumption
<1>3. ASSUME NEW job \in Cycle!Jobs
      PROVE  n(job) \in Nat /\ schedule.slots[job] <= n(job)
  <2>1. n(job) \in Nat
    BY <1>2, SlotOfTime
  <2>2. CASE schedule.slots[job] = -1
    BY <2>1, <2>2
  <2>3. CASE \E t \in 0 .. now : schedule.slots[job] = t \div Cadence[job]
    <3>1. PICK t \in 0 .. now : schedule.slots[job] = t \div Cadence[job]
      BY <2>3
    <3>2. t \in Nat /\ t <= now
      BY <1>2
    <3>3. QED
      BY <1>2, <2>1, <3>1, <3>2, LaterSlot
  <2>4. QED
    BY <2>2, <2>3 DEF SlotInv, Together
<1>4. slots = {s \in AnySlot : s.index = n(s.job) /\ n(s.job) > schedule.slots[s.job]}
  <2>1. \A job \in Cycle!Jobs : n(job) \in Int
    BY <1>3
  <2> HIDE DEF n
  <2>2. slots = {[job |-> j, index |-> n(j)] : j \in {k \in Cycle!Jobs : n(k) > schedule.slots[k]}}
    BY DEF n, Cycle!Due
  <2>3. ASSUME NEW s \in AnySlot, s.index = n(s.job), n(s.job) > schedule.slots[s.job]
        PROVE  s \in slots
    <3>1. s = [job |-> s.job, index |-> n(s.job)] /\ s.job \in Cycle!Jobs
      BY <2>3 DEF AnySlot
    <3> HIDE DEF slots
    <3>2. QED
      BY <2>2, <2>3, <3>1
  <2>4. ASSUME NEW s \in slots
        PROVE  s \in AnySlot /\ s.index = n(s.job) /\ n(s.job) > schedule.slots[s.job]
    <3>1. PICK j \in Cycle!Jobs :
            n(j) > schedule.slots[j] /\ s = [job |-> j, index |-> n(j)]
      BY <2>2
    <3>2. QED
      BY <2>1, <3>1 DEF AnySlot
  <2> HIDE DEF slots
  <2>5. QED
    BY <2>3, <2>4
<1>5. ASSUME NEW job \in Cycle!Jobs PROVE Cycle!Advanced(slots)[job] = n(job)
  <2>1. CASE \E s \in slots : s.job = job
    <3>1. \A s \in slots : s.job = job => s.index = n(job)
      BY <1>4
    <3>2. (CHOOSE s \in slots : s.job = job) \in slots
          /\ (CHOOSE s \in slots : s.job = job).job = job
      BY <2>1
    <3>3. Cycle!Advanced(slots)[job] = (CHOOSE s \in slots : s.job = job).index
      BY <2>1 DEF Cycle!Advanced
    <3>4. QED
      BY <3>1, <3>2, <3>3
  <2>2. CASE ~\E s \in slots : s.job = job
    <3>1. Cycle!Advanced(slots)[job] = schedule.slots[job]
      BY <2>2 DEF Cycle!Advanced
    <3>2. ~(n(job) > schedule.slots[job])
      <4>1. n(job) \in Int
        BY <1>3
      <4>2. [job |-> job, index |-> n(job)] \in AnySlot
        BY <4>1 DEF AnySlot
      <4> HIDE DEF slots, n
      <4>3. QED
        BY <1>4, <2>2, <4>2
    <3>3. QED
      BY <1>2, <1>3, <3>1, <3>2
  <2>3. QED
    BY <2>1, <2>2
<1>6. /\ schedule'.slots = Cycle!Advanced(slots) /\ schedule'.pending = slots
      /\ \E owner : schedule' = [owner |-> owner, slots |-> schedule'.slots,
                                 pending |-> schedule'.pending]
  BY <1>1
<1>7. schedule'.slots \in [Cycle!Jobs -> Int]
  <2>1. schedule'.slots = [j \in Cycle!Jobs |-> schedule'.slots[j]]
    BY <1>6 DEF Cycle!Advanced
  <2>2. \A j \in Cycle!Jobs : schedule'.slots[j] \in Int
    BY <1>3, <1>5, <1>6
  <2>3. QED
    BY <2>1, <2>2
<1>8. allowed = {s \in slots : now \in Hours[s.job]}
  BY DEF Cycle!Allowed
<1> HIDE DEF slots, allowed, n
<1> DEFINE blocks == worker.blocked \/ Cycle!RecoveryRequired
<1>9. worker' = [worker EXCEPT !.blocked = blocks, !.due = allowed, !.pc = "chosen"]
  BY <1>1
<1>10. blocks \in BOOLEAN
  OBVIOUS
<1> HIDE DEF blocks
<1>11. CycleTypes
  BY DEF SlotInv
<1>12. /\ worker'.pc = "chosen" /\ worker'.due = allowed /\ worker'.blocked = blocks
       /\ worker'.todo = worker.todo
       /\ \E n2 : worker' = [pc |-> worker'.pc, session |-> n2, blocked |-> worker'.blocked,
                             due |-> worker'.due, todo |-> worker'.todo]
  BY <1>9, <1>11, ChosenIs
<1>13. slots \subseteq AnySlot
  BY <1>4
<1>14. CycleTypes'
  <2>1. worker'.pc \in Steps /\ worker'.blocked \in BOOLEAN
        /\ worker'.due \subseteq AnySlot /\ worker'.todo \subseteq Phases
    BY <1>8, <1>10, <1>12, <1>13 DEF SlotInv, CycleTypes, Steps
  <2>2. now' \in Nat /\ schedule'.pending \subseteq AnySlot
    BY <1>1, <1>2, <1>6, <1>13
  <2>3. receipts' = [started |-> receipts'.started, ended |-> receipts'.ended,
                     aborted |-> receipts'.aborted,
                     unresolved |-> receipts'.unresolved,
                     reconciled |-> receipts'.reconciled]
    BY <1>1 DEF SlotInv, CycleTypes
  <2>4. QED
    BY <1>6, <1>7, <1>12, <2>1, <2>2, <2>3, Zenon DEF CycleTypes
<1>15. \A job \in Cycle!Jobs : schedule'.slots[job] = now \div Cadence[job]
  BY <1>5, <1>6 DEF n
<1>16. Together'
  <2>1. now \in 0 .. now'
    BY <1>1, <1>2
  <2>2. QED
    BY <1>15, <2>1 DEF Together
<1>17. ASSUME NEW s \in slots
       PROVE  s = [job |-> s.job, index |-> schedule'.slots[s.job]] /\ s.index >= 0
  <2>1. s \in AnySlot /\ s.index = n(s.job) /\ s.job \in Cycle!Jobs
    BY <1>4 DEF AnySlot
  <2>2. schedule'.slots[s.job] = n(s.job) /\ n(s.job) >= 0
    BY <1>3, <1>15, <2>1 DEF n
  <2>3. s = [job |-> s.job, index |-> s.index]
    BY <2>1 DEF AnySlot
  <2>4. QED
    BY <2>1, <2>2, <2>3
<1>18. Current(schedule.pending)'
  BY <1>6, <1>17 DEF Current, Last
<1>19. Follows'
  <2>1. worker'.due \subseteq schedule'.pending
    BY <1>6, <1>8, <1>12
  <2>2. ASSUME NEW s \in schedule'.pending \ worker'.due PROVE Missed(s)'
    <3>1. s \in slots /\ now \notin Hours[s.job]
      BY <1>6, <1>8, <1>12, <2>2
    <3>2. s.index = now \div Cadence[s.job]
      BY <1>4, <3>1 DEF n
    <3>3. now \in Nat \ Hours[s.job]
      BY <1>2, <3>1
    <3>4. QED
      BY <3>2, <3>3 DEF Missed
  <2>3. Current(worker.due)'
    BY <1>8, <1>12, <1>17 DEF Current, Last
  <2>4. ~Cycle!AtBroker' /\ worker'.pc = "chosen"
    BY <1>12 DEF Cycle!AtBroker
  <2>5. QED
    BY <2>1, <2>2, <2>3, <2>4 DEF Follows
<1>20. Witnessed'
  <2>1. SUFFICES ASSUME NEW job \in Cycle!Jobs, Whole(Last(job))' PROVE Witness(Last(job))'
    BY DEF Witnessed
  <2>2. Last(job)' = [job |-> job, index |-> n(job)]
    BY <1>15 DEF Last, n
  <2>3. CASE n(job) > schedule.slots[job]
    <3>1. Last(job)' \in AnySlot /\ Last(job)'.job = job /\ Last(job)'.index = n(job)
      BY <1>3, <2>2 DEF AnySlot
    <3>2. Last(job)' \in slots
      BY <1>4, <2>3, <3>1
    <3>3. QED
      BY <1>6, <3>2 DEF Witness
  <2>4. CASE ~(n(job) > schedule.slots[job])
    <3>1. schedule.slots[job] = n(job)
      BY <1>2, <1>3, <2>4
    <3>2. Last(job)' = Last(job)
      BY <2>2, <3>1 DEF Last
    <3>3. Whole(Last(job))
      BY <2>1, <3>2 DEF Whole
    <3>4. \E r \in receipts.started : Last(job) \in r.slots
      BY <3>3 DEF SlotInv, Witnessed, Witness
    <3>5. QED
      BY <1>1, <3>2, <3>4 DEF Witness
  <2>5. QED
    BY <2>3, <2>4
<1>21. \A job \in Cycle!Jobs : schedule.slots[job] <= now \div Cadence[job]
  BY <1>3 DEF n
<1>22. schedule'.pending = Cycle!Due(now) /\ schedule'.pending # {}
       /\ worker'.due = Cycle!Allowed(Cycle!Due(now), now)
  BY <1>1, <1>6, <1>12 DEF slots, allowed
<1>23. SlotInv'
  BY <1>14, <1>16, <1>18, <1>19, <1>20 DEF SlotInv
<1>24. QED
  BY <1>12, <1>15, <1>21, <1>22, <1>23

\* Slots that an earlier process left pending are taken as they are.
LEMMA RetakeKeepsSlots ==
  ASSUME SlotInv, Cycle!Choose, schedule.pending # {}
  PROVE  /\ SlotInv' /\ schedule' = schedule
         /\ worker'.due = schedule.pending /\ worker'.pc = "chosen"
<1> DEFINE blocks == worker.blocked \/ Cycle!RecoveryRequired
<1>1. /\ now' = now /\ receipts' = receipts /\ schedule' = schedule
      /\ worker' = [worker EXCEPT !.blocked = blocks, !.due = schedule.pending,
                                  !.pc = "chosen"]
  BY DEF Cycle!Choose, Cycle!environment
<1>2. blocks \in BOOLEAN
  OBVIOUS
<1> HIDE DEF blocks
<1>3. CycleTypes
  BY DEF SlotInv
<1>4. /\ worker'.pc = "chosen" /\ worker'.due = schedule.pending /\ worker'.blocked = blocks
      /\ worker'.todo = worker.todo
      /\ \E name : worker' = [pc |-> worker'.pc, session |-> name,
                              blocked |-> worker'.blocked, due |-> worker'.due,
                              todo |-> worker'.todo]
  BY <1>1, <1>3, ChosenIs
<1>5. CycleTypes'
  <2>1. worker'.pc \in Steps /\ worker'.blocked \in BOOLEAN
        /\ worker'.due \subseteq AnySlot /\ worker'.todo \subseteq Phases
    BY <1>2, <1>3, <1>4 DEF CycleTypes, Steps
  <2>2. QED
    BY <1>1, <1>3, <1>4, <2>1 DEF CycleTypes
<1>6. Together' /\ Current(schedule.pending)' /\ Witnessed'
  BY <1>1 DEF SlotInv, Together, Current, Last, Witnessed, Witness, Whole
<1>7. Current(schedule.pending)
  BY DEF SlotInv
<1>8. Follows'
  <2>1. Current(worker.due)'
    BY <1>1, <1>4, <1>7 DEF Current, Last
  <2>2. ~Cycle!AtBroker'
    BY <1>4 DEF Cycle!AtBroker
  <2>3. QED
    BY <1>1, <1>4, <2>1, <2>2 DEF Follows
<1>9. QED
  BY <1>1, <1>4, <1>5, <1>6, <1>8 DEF SlotInv

\* Slots outside their window are given up.
LEMMA SkipKeepsSlots ==
  ASSUME Cycle!CycleAssumption, SlotInv, Cycle!Skip
  PROVE  /\ SlotInv' /\ schedule'.slots = schedule.slots
         /\ worker'.due = worker.due /\ worker'.pc \in {"loop", "starting"}
         /\ schedule'.pending = worker.due
<1> DEFINE next == IF worker.due = {} THEN "loop" ELSE "starting"
<1>1. /\ worker.pc = "chosen" /\ now' = now /\ receipts' = receipts
      /\ schedule' = [schedule EXCEPT !.pending = schedule.pending \cap worker.due]
      /\ Cycle!Goes(next)
  BY DEF Cycle!Skip, Cycle!environment, Cycle!Is
<1>2. CycleTypes /\ Follows
  BY DEF SlotInv
<1>3. worker.due \subseteq schedule.pending
  BY <1>1, <1>2 DEF Follows
<1>4. /\ schedule'.slots = schedule.slots /\ schedule'.pending = worker.due
      /\ \E owner : schedule' = [owner |-> owner, slots |-> schedule'.slots,
                                 pending |-> schedule'.pending]
  <2>1. PICK owner, slots, waiting :
          schedule = [owner |-> owner, slots |-> slots, pending |-> waiting]
    BY <1>2 DEF CycleTypes
  <2> DEFINE kept == schedule.pending \cap worker.due
  <2>3. kept = worker.due
    BY <1>3
  <2> HIDE DEF kept
  <2>4. schedule' = [schedule EXCEPT !.pending = kept]
    BY <1>1 DEF kept
  <2>5. schedule' = [owner |-> owner, slots |-> slots, pending |-> kept]
    BY <2>1, <2>4
  <2>6. QED
    BY <2>1, <2>3, <2>5
<1>5. next \in Steps /\ (next = "loop" \/ next = "starting") /\ (next = "loop" <=> worker.due = {})
  BY DEF Steps
<1>6. /\ worker'.pc = next /\ worker'.due = worker.due /\ worker'.blocked = worker.blocked
      /\ worker'.todo = worker.todo
      /\ \E name : worker' = [pc |-> worker'.pc, session |-> name,
                              blocked |-> worker'.blocked, due |-> worker'.due,
                              todo |-> worker'.todo]
  BY <1>1, <1>2, GoesTo
<1> HIDE DEF next
<1>7. CycleTypes'
  <2>1. worker'.pc \in Steps /\ worker'.blocked \in BOOLEAN
        /\ worker'.due \subseteq AnySlot /\ worker'.todo \subseteq Phases
    BY <1>2, <1>5, <1>6 DEF CycleTypes
  <2>2. schedule'.slots \in [Cycle!Jobs -> Int] /\ schedule'.pending \subseteq AnySlot
        /\ now' \in Nat
    BY <1>1, <1>2, <1>4 DEF CycleTypes
  <2>3. receipts' = [started |-> receipts'.started, ended |-> receipts'.ended,
                     aborted |-> receipts'.aborted,
                     unresolved |-> receipts'.unresolved,
                     reconciled |-> receipts'.reconciled]
    BY <1>1, <1>2 DEF CycleTypes
  <2>4. QED
    BY <1>4, <1>6, <2>1, <2>2, <2>3, Zenon DEF CycleTypes
<1>8. Together'
  BY <1>1, <1>4 DEF SlotInv, Together
<1>9. Current(worker.due)
  BY <1>1, <1>2 DEF Follows
<1>10. Current(schedule.pending)' /\ Current(worker.due)'
  BY <1>4, <1>6, <1>9 DEF Current, Last
<1>11. Follows'
  <2>1. ~Cycle!AtBroker' /\ worker'.pc # "chosen" /\ worker'.pc # "started"
    BY <1>5, <1>6 DEF Cycle!AtBroker
  <2>2. worker'.pc \in {"starting", "started"} => worker'.due # {}
    BY <1>5, <1>6
  <2>3. QED
    BY <1>4, <1>6, <1>10, <2>1, <2>2 DEF Follows
<1>12. Witnessed'
  <2>1. SUFFICES ASSUME NEW job \in Cycle!Jobs, Whole(Last(job))' PROVE Witness(Last(job))'
    BY DEF Witnessed
  <2>2. Last(job)' = Last(job)
    BY <1>4 DEF Last
  <2>3. Whole(Last(job))
    BY <2>1, <2>2 DEF Whole
  <2>4. Witness(Last(job))
    BY <2>3 DEF SlotInv, Witnessed
  <2>5. CASE Last(job) \in schedule.pending
    <3>1. Last(job) \in AnySlot
      BY <1>2, <2>5 DEF CycleTypes
    <3>2. ~Missed(Last(job))
      BY <2>3, <3>1, MissedIsNotWhole
    <3>3. Last(job) \in worker.due
      BY <1>1, <1>2, <2>5, <3>2 DEF Follows
    <3>4. QED
      BY <1>4, <2>2, <3>3 DEF Witness
  <2>6. CASE \E r \in receipts.started : Last(job) \in r.slots
    BY <1>1, <2>2, <2>6 DEF Witness
  <2>7. QED
    BY <2>4, <2>5, <2>6 DEF Witness
<1>13. worker'.pc \in {"loop", "starting"}
  BY <1>5, <1>6
<1>14. QED
  BY <1>4, <1>6, <1>7, <1>8, <1>10, <1>11, <1>12, <1>13 DEF SlotInv

\* The receipt of a tick is written before its slots are given up.
LEMMA BeginKeepsSlots ==
  ASSUME SlotInv, Cycle!TickStarted
  PROVE  /\ SlotInv' /\ schedule' = schedule /\ worker'.due = worker.due
         /\ worker.pc = "starting" /\ worker'.pc = "started"
         /\ receipts' = [receipts EXCEPT !.started = receipts.started \cup {Receipt}]
<1>1. /\ worker.pc = "starting" /\ Cycle!Goes("started")
      /\ schedule' = schedule /\ now' = now
      /\ receipts' = [receipts EXCEPT !.started = receipts.started \cup {Receipt}]
  BY DEF Cycle!TickStarted, Cycle!Is, Cycle!environment, Receipt
<1>2. CycleTypes /\ Follows
  BY DEF SlotInv
<1>3. /\ worker'.pc = "started" /\ worker'.due = worker.due /\ worker'.blocked = worker.blocked
      /\ worker'.todo = worker.todo /\ worker'.session = worker.session
      /\ \E name : worker' = [pc |-> worker'.pc, session |-> name,
                              blocked |-> worker'.blocked, due |-> worker'.due,
                              todo |-> worker'.todo]
  BY <1>1, <1>2, GoesTo
<1>4. /\ receipts'.started = receipts.started \cup {Receipt}
      /\ receipts' = [started |-> receipts'.started, ended |-> receipts'.ended,
                      aborted |-> receipts'.aborted, unresolved |-> receipts'.unresolved,
                      reconciled |-> receipts'.reconciled]
  <2>1. PICK a, b, g, c, d :
          receipts = [started |-> a, ended |-> b, aborted |-> g, unresolved |-> c,
                      reconciled |-> d]
    BY <1>2 DEF CycleTypes
  <2>2. receipts' = [started |-> a \cup {Receipt}, ended |-> b, aborted |-> g,
                     unresolved |-> c, reconciled |-> d]
    BY <1>1, <2>1
  <2>3. QED
    BY <2>1, <2>2
<1>5. CycleTypes'
  <2>1. worker'.pc \in Steps /\ worker'.blocked \in BOOLEAN
        /\ worker'.due \subseteq AnySlot /\ worker'.todo \subseteq Phases
    BY <1>2, <1>3 DEF CycleTypes, Steps
  <2>2. QED
    BY <1>1, <1>2, <1>3, <1>4, <2>1 DEF CycleTypes
<1>6. Together' /\ Current(schedule.pending)' /\ Witnessed'
  BY <1>1, <1>4 DEF SlotInv, Together, Current, Last, Witnessed, Witness, Whole
<1>7. Follows'
  <2>1. Receipt' = Receipt
    BY <1>3, SameTick
  <2>2. Current(worker.due)' /\ worker'.due # {} /\ schedule'.pending \subseteq worker'.due
    BY <1>1, <1>2, <1>3 DEF Follows, Current, Last
  <2>3. ~Cycle!AtBroker'
    BY <1>3 DEF Cycle!AtBroker
  <2>4. QED
    BY <1>3, <1>4, <2>1, <2>2, <2>3 DEF Follows
<1>8. QED
  BY <1>1, <1>3, <1>5, <1>6, <1>7 DEF SlotInv

\* A tick whose start is on disk gives up its slots.
LEMMA AcknowledgeKeepsSlots ==
  ASSUME SlotInv, Cycle!Acknowledge
  PROVE  /\ SlotInv' /\ receipts' = receipts
         /\ schedule'.slots = schedule.slots /\ schedule'.pending = {}
         /\ worker.pc = "started" /\ worker'.pc = "working"
         /\ worker'.due = worker.due /\ worker'.blocked = worker.blocked
         /\ worker'.todo = Cycle!PhasesOf(worker.due, worker.blocked)
<1> DEFINE todo == Cycle!PhasesOf(worker.due, worker.blocked)
<1>1. /\ worker.pc = "started" /\ now' = now /\ receipts' = receipts
      /\ schedule' = [schedule EXCEPT !.pending = {}]
      /\ worker' = [worker EXCEPT !.pc = "working", !.todo = todo]
  BY DEF Cycle!Acknowledge, Cycle!Is, Cycle!environment
<1>2. CycleTypes /\ Follows
  BY DEF SlotInv
<1>3. todo \subseteq Phases
  BY <1>2 DEF Cycle!PhasesOf, CycleTypes, AnySlot, Phases, Cycle!Jobs
<1> HIDE DEF todo
<1>4. /\ schedule'.slots = schedule.slots /\ schedule'.pending = {}
      /\ \E owner : schedule' = [owner |-> owner, slots |-> schedule'.slots,
                                 pending |-> schedule'.pending]
  <2>1. PICK owner, slots, waiting :
          schedule = [owner |-> owner, slots |-> slots, pending |-> waiting]
    BY <1>2 DEF CycleTypes
  <2>2. schedule' = [owner |-> owner, slots |-> slots, pending |-> {}]
    BY <1>1, <2>1
  <2>3. QED
    BY <2>1, <2>2
<1>5. /\ worker'.pc = "working" /\ worker'.due = worker.due /\ worker'.blocked = worker.blocked
      /\ worker'.todo = todo /\ worker'.session = worker.session
      /\ \E name : worker' = [pc |-> worker'.pc, session |-> name,
                              blocked |-> worker'.blocked, due |-> worker'.due,
                              todo |-> worker'.todo]
  <2>1. PICK a, name, c, d, e :
          worker = [pc |-> a, session |-> name, blocked |-> c, due |-> d, todo |-> e]
    BY <1>2 DEF CycleTypes
  <2>2. worker' = [pc |-> "working", session |-> name, blocked |-> c, due |-> d,
                   todo |-> todo]
    BY <1>1, <2>1
  <2>3. QED
    BY <2>1, <2>2
<1>6. CycleTypes'
  <2>1. worker'.pc \in Steps /\ worker'.blocked \in BOOLEAN
        /\ worker'.due \subseteq AnySlot /\ worker'.todo \subseteq Phases
    BY <1>2, <1>3, <1>5 DEF CycleTypes, Steps
  <2>2. schedule'.slots \in [Cycle!Jobs -> Int] /\ schedule'.pending \subseteq AnySlot
        /\ now' \in Nat
    BY <1>1, <1>2, <1>4 DEF CycleTypes
  <2>3. receipts' = [started |-> receipts'.started, ended |-> receipts'.ended,
                     aborted |-> receipts'.aborted,
                     unresolved |-> receipts'.unresolved,
                     reconciled |-> receipts'.reconciled]
    BY <1>1, <1>2 DEF CycleTypes
  <2>4. QED
    BY <1>4, <1>5, <2>1, <2>2, <2>3, Zenon DEF CycleTypes
<1>7. Together' /\ Current(schedule.pending)'
  BY <1>1, <1>4 DEF SlotInv, Together, Current
<1>8. Follows'
  <2>1. Receipt' = Receipt /\ Receipt \in receipts.started
    BY <1>1, <1>2, <1>5, SameTick DEF Follows
  <2>2. Current(worker.due)' /\ worker'.due # {}
    BY <1>1, <1>2, <1>4, <1>5 DEF Follows, Current, Last
  <2>3. QED
    BY <1>1, <1>4, <1>5, <2>1, <2>2 DEF Follows
<1>9. Witnessed'
  <2>1. SUFFICES ASSUME NEW job \in Cycle!Jobs, Whole(Last(job))' PROVE Witness(Last(job))'
    BY DEF Witnessed
  <2>2. Last(job)' = Last(job)
    BY <1>4 DEF Last
  <2>3. Witness(Last(job))
    BY <2>1, <2>2 DEF SlotInv, Witnessed, Whole
  <2>4. schedule.pending \subseteq worker.due /\ Receipt \in receipts.started
    BY <1>1, <1>2 DEF Follows
  <2>5. Receipt.slots = worker.due
    BY DEF Receipt
  <2>6. QED
    BY <1>1, <2>2, <2>3, <2>4, <2>5 DEF Witness
<1>10. QED
  BY <1>1, <1>4, <1>5, <1>6, <1>7, <1>8, <1>9 DEF SlotInv, todo

\* A tick that is aborted before the broker is in use keeps its slots.
LEMMA AbortKeepsSlots ==
  ASSUME SlotInv, Cycle!TickAborted
  PROVE  /\ SlotInv' /\ schedule' = schedule /\ now' = now /\ suspect' = suspect
         /\ worker'.pc = "loop" /\ worker'.blocked = worker.blocked
         /\ receipts'.started = receipts.started /\ receipts'.ended = receipts.ended
         /\ receipts'.aborted = receipts.aborted \cup {Cycle!Mine}
         /\ receipts'.unresolved = receipts.unresolved
         /\ receipts'.reconciled = receipts.reconciled
         /\ worker'.due = worker.due /\ worker'.todo = worker.todo
         /\ worker'.session = worker.session
<1>1. CycleTypes
  BY DEF SlotInv
<1>2. /\ worker.pc = "started" /\ schedule' = schedule /\ now' = now /\ suspect' = suspect
      /\ receipts' = [receipts EXCEPT !.aborted = @ \cup {Cycle!Mine}]
      /\ Cycle!Goes("loop")
  BY Zenon DEF Cycle!TickAborted, Cycle!Is, Cycle!environment
<1>3. /\ \E name : worker' = [pc |-> "loop", session |-> name, blocked |-> worker.blocked,
                              due |-> worker.due, todo |-> worker.todo]
      /\ worker'.pc = "loop" /\ worker'.session = worker.session
      /\ worker'.blocked = worker.blocked /\ worker'.due = worker.due
      /\ worker'.todo = worker.todo
  BY <1>1, <1>2, GoesTo
<1>4. PICK a, b, g, c, d :
        receipts = [started |-> a, ended |-> b, aborted |-> g, unresolved |-> c,
                    reconciled |-> d]
  BY <1>1 DEF CycleTypes
<1>5. receipts' = [started |-> a, ended |-> b, aborted |-> g \cup {Cycle!Mine},
                   unresolved |-> c, reconciled |-> d]
  BY <1>2, <1>4
<1>6. /\ receipts'.started = receipts.started /\ receipts'.ended = receipts.ended
      /\ receipts'.aborted = receipts.aborted \cup {Cycle!Mine}
      /\ receipts'.unresolved = receipts.unresolved
      /\ receipts'.reconciled = receipts.reconciled
  BY <1>4, <1>5
<1>7. CycleTypes'
  <2>1. receipts' = [started |-> receipts'.started, ended |-> receipts'.ended,
                     aborted |-> receipts'.aborted, unresolved |-> receipts'.unresolved,
                     reconciled |-> receipts'.reconciled]
    BY <1>5
  <2>2. worker'.pc \in Steps /\ worker'.blocked \in BOOLEAN
        /\ worker'.due \subseteq AnySlot /\ worker'.todo \subseteq Phases
    BY <1>1, <1>3 DEF CycleTypes, Steps
  <2>3. \E name : worker' = [pc |-> worker'.pc, session |-> name, blocked |-> worker'.blocked,
                            due |-> worker'.due, todo |-> worker'.todo]
    BY <1>3
  <2>4. /\ now' \in Nat
        /\ \E owner : schedule' = [owner |-> owner, slots |-> schedule'.slots,
                                   pending |-> schedule'.pending]
        /\ schedule'.slots \in [Cycle!Jobs -> Int] /\ schedule'.pending \subseteq AnySlot
    BY <1>1, <1>2 DEF CycleTypes
  <2>5. QED
    BY <2>1, <2>2, <2>3, <2>4, Zenon DEF CycleTypes
<1>8. SlotInv'
  <2>1. now <= now'
    BY <1>1, <1>2 DEF CycleTypes
  <2>2. QED
    BY <1>2, <1>3, <1>6, <1>7, <2>1, SlotKept
<1>9. QED
  BY <1>2, <1>3, <1>6, <1>8

\* A step of a worker at the broker.
AtWork ==
  \/ Cycle!RecoveryRefused \/ Cycle!Reconcile \/ Cycle!ReconcileTick
  \/ Cycle!ClearRecovery \/ Cycle!Management \/ Cycle!Entry
  \/ \E phase \in {"PROBE", "DISCOVERY"} : Cycle!ScanStarted(phase)
  \/ Cycle!ScanEnded \/ Cycle!TickUnresolved \/ Cycle!TickFinished

\* At the broker a tick moves no slot and starts no other tick.
LEMMA WorkKeepsSlots ==
  ASSUME SlotInv, AtWork
  PROVE  /\ SlotInv' /\ Untouched /\ Cycle!AtBroker
         /\ worker'.due = worker.due /\ worker'.session = worker.session
         /\ worker'.todo \subseteq worker.todo
         /\ worker'.pc \in {"loop", "working", "clearing", "scanning"}
         /\ receipts'.started = receipts.started
<1>1. CycleTypes /\ Follows
  BY DEF SlotInv
<1>2. PICK a, b, g, c, d :
        receipts = [started |-> a, ended |-> b, aborted |-> g, unresolved |-> c,
                    reconciled |-> d]
  BY <1>1 DEF CycleTypes
<1>3. ASSUME NEW x, \/ receipts' = receipts
                    \/ receipts' = [receipts EXCEPT !.reconciled = @ \cup x]
                    \/ receipts' = [receipts EXCEPT !.unresolved = @ \cup x]
                    \/ receipts' = [receipts EXCEPT !.ended = @ \cup x]
      PROVE  /\ receipts' = [started |-> receipts'.started, ended |-> receipts'.ended,
                             aborted |-> receipts'.aborted,
                             unresolved |-> receipts'.unresolved,
                             reconciled |-> receipts'.reconciled]
             /\ receipts'.started = receipts.started
  <2>1. \E b2, c2, d2 :
          receipts' = [started |-> a, ended |-> b2, aborted |-> g, unresolved |-> c2,
                       reconciled |-> d2]
    <3>1. CASE receipts' = receipts
      BY <1>2, <3>1
    <3>2. CASE receipts' = [receipts EXCEPT !.reconciled = @ \cup x]
      <4>1. receipts' = [started |-> a, ended |-> b, aborted |-> g,
                           unresolved |-> c, reconciled |-> d \cup x]
        BY <1>2, <3>2
      <4>2. QED
        BY <4>1
    <3>3. CASE receipts' = [receipts EXCEPT !.unresolved = @ \cup x]
      <4>1. receipts' = [started |-> a, ended |-> b, aborted |-> g,
                           unresolved |-> c \cup x, reconciled |-> d]
        BY <1>2, <3>3
      <4>2. QED
        BY <4>1
    <3>4. CASE receipts' = [receipts EXCEPT !.ended = @ \cup x]
      <4>1. receipts' = [started |-> a, ended |-> b \cup x, aborted |-> g,
                           unresolved |-> c, reconciled |-> d]
        BY <1>2, <3>4
      <4>2. QED
        BY <4>1
    <3>5. QED
      BY <1>3, <3>1, <3>2, <3>3, <3>4
  <2>2. PICK b2, c2, d2 :
          receipts' = [started |-> a, ended |-> b2, aborted |-> g, unresolved |-> c2,
                       reconciled |-> d2]
    BY <2>1
  <2>3. QED
    BY <1>2, <2>2
<1>4. ASSUME NEW pc \in {"loop", "working", "clearing", "scanning"}, BrokerStep(pc), Untouched,
             receipts' = [started |-> receipts'.started, ended |-> receipts'.ended,
                          aborted |-> receipts'.aborted,
                          unresolved |-> receipts'.unresolved,
                          reconciled |-> receipts'.reconciled],
             receipts'.started = receipts.started
      PROVE  /\ SlotInv' /\ Cycle!AtBroker
             /\ worker'.due = worker.due /\ worker'.session = worker.session
             /\ worker'.todo \subseteq worker.todo
             /\ worker'.pc = pc
  <2>1. now' \in Nat /\ now <= now' /\ pc \in Steps
    BY <1>1, <1>4 DEF CycleTypes, Untouched, Steps
  <2>2. /\ CycleTypes' /\ worker'.pc = pc /\ worker'.due = worker.due
        /\ worker'.session = worker.session /\ worker'.todo \subseteq worker.todo
    BY <1>1, <1>4, <2>1, BrokerTyped DEF Untouched
  <2>3. Cycle!AtBroker
    BY <1>4 DEF BrokerStep
  <2>4. worker'.pc \in {"down", "loop"} \/ Cycle!AtBroker'
    BY <1>4, <2>2 DEF Cycle!AtBroker
  <2>5. SlotInv'
    BY <1>4, <2>1, <2>2, <2>3, <2>4, SlotKept DEF Untouched
  <2>6. QED
    BY <2>2, <2>3, <2>5
<1>5. \E pc \in {"loop", "working", "clearing", "scanning"} : \E x :
        /\ BrokerStep(pc) /\ Untouched
        /\ \/ receipts' = receipts
           \/ receipts' = [receipts EXCEPT !.reconciled = @ \cup x]
           \/ receipts' = [receipts EXCEPT !.unresolved = @ \cup x]
           \/ receipts' = [receipts EXCEPT !.ended = @ \cup x]
  <2>1. CASE Cycle!RecoveryRefused \/ Cycle!Management \/ Cycle!Entry
    BY <1>1, <2>1, BrokerSteps
  <2>2. CASE Cycle!Reconcile
    BY <1>1, <2>2, BrokerSteps
  <2>3. CASE \E phase \in {"PROBE", "DISCOVERY"} : Cycle!ScanStarted(phase)
    BY <1>1, <2>3, BrokerSteps
  <2>4. CASE Cycle!ScanEnded
    BY <1>1, <2>4, BrokerSteps
  <2>5. CASE Cycle!ReconcileTick \/ Cycle!ClearRecovery
    BY <1>1, <2>5, BrokerSteps
  <2>6. CASE Cycle!TickUnresolved
    BY <1>1, <2>6, BrokerSteps
  <2>7. CASE Cycle!TickFinished
    BY <1>1, <2>7, BrokerSteps
  <2>8. QED
    BY <2>1, <2>2, <2>3, <2>4, <2>5, <2>6, <2>7 DEF AtWork
<1>6. PICK pc \in {"loop", "working", "clearing", "scanning"} : \E x :
        /\ BrokerStep(pc) /\ Untouched
        /\ \/ receipts' = receipts
           \/ receipts' = [receipts EXCEPT !.reconciled = @ \cup x]
           \/ receipts' = [receipts EXCEPT !.unresolved = @ \cup x]
           \/ receipts' = [receipts EXCEPT !.ended = @ \cup x]
  BY <1>5
<1>7. /\ receipts' = [started |-> receipts'.started, ended |-> receipts'.ended,
                      aborted |-> receipts'.aborted, unresolved |-> receipts'.unresolved,
                      reconciled |-> receipts'.reconciled]
      /\ receipts'.started = receipts.started
  BY <1>3, <1>6
<1>8. QED
  BY <1>4, <1>6, <1>7

\* What happens outside a worker.
Outside == Cycle!OutboxResolved \/ Cycle!NextSession \/ Cycle!Tick

LEMMA OutsideKeepsSlots ==
  ASSUME SlotInv, Outside \/ UNCHANGED Cycle!vars
  PROVE  /\ SlotInv' /\ schedule' = schedule /\ receipts' = receipts
         /\ worker' = worker /\ suspect' = suspect
<1>1. CycleTypes
  BY DEF SlotInv
<1>2. /\ schedule' = schedule /\ receipts' = receipts /\ worker' = worker
      /\ suspect' = suspect /\ (now' = now \/ now' = now + 1)
  BY DEF Outside, Cycle!OutboxResolved, Cycle!NextSession, Cycle!Tick, Cycle!vars,
         Cycle!environment
<1>3. now' \in Nat /\ now <= now'
  BY <1>1, <1>2 DEF CycleTypes
<1>4. CycleTypes'
  BY <1>1, <1>2, <1>3 DEF CycleTypes
<1>5. QED
  BY <1>2, <1>3, <1>4, SlotKept

\* Every step keeps the slots.
LEMMA SlotStep ==
  ASSUME Cycle!CycleAssumption, SlotInv, [Cycle!Next]_Cycle!vars
  PROVE  SlotInv'
<1>1. CASE Cycle!StartWorker \/ Cycle!Stop \/ Cycle!Die
  BY <1>1, StartTyped
<1>2. CASE Cycle!Choose
  BY <1>2, ChooseKeepsSlots, RetakeKeepsSlots
<1>3. CASE Cycle!Skip
  BY <1>3, SkipKeepsSlots
<1>4. CASE Cycle!TickStarted
  BY <1>4, BeginKeepsSlots
<1>5. CASE Cycle!Acknowledge
  BY <1>5, AcknowledgeKeepsSlots
<1>6. CASE AtWork
  BY <1>6, WorkKeepsSlots
<1>7. CASE Outside \/ UNCHANGED Cycle!vars
  BY <1>7, OutsideKeepsSlots
<1>8. CASE Cycle!TickAborted
  BY <1>8, AbortKeepsSlots
<1>9. QED
  BY <1>1, <1>2, <1>3, <1>4, <1>5, <1>6, <1>7, <1>8, Zenon DEF Cycle!Next, AtWork, Outside

\* A session begins with no slot counted.
LEMMA SlotBegins == Cycle!Init => SlotInv
<1>1. SUFFICES ASSUME Cycle!Init PROVE SlotInv
  OBVIOUS
<1>2. /\ now = 0 /\ worker = Cycle!Down
      /\ schedule = [owner |-> 0, slots |-> [j \in Cycle!Jobs |-> -1], pending |-> {}]
      /\ receipts = [started |-> {}, ended |-> {}, aborted |-> {}, unresolved |-> {},
                     reconciled |-> {}]
  BY <1>1 DEF Cycle!Init
<1>3. worker = [pc |-> "down", session |-> 0, blocked |-> FALSE, due |-> {}, todo |-> {}]
  BY <1>2 DEF Cycle!Down
<1>4. schedule.pending = {} /\ schedule.slots = [j \in Cycle!Jobs |-> -1]
  BY <1>2
<1>5. CycleTypes
  <2>1. schedule = [owner |-> 0, slots |-> schedule.slots, pending |-> schedule.pending]
    BY <1>2
  <2>2. worker = [pc |-> worker.pc, session |-> 0, blocked |-> worker.blocked,
                  due |-> worker.due, todo |-> worker.todo]
    BY <1>3
  <2>3. receipts = [started |-> receipts.started, ended |-> receipts.ended,
                    aborted |-> receipts.aborted, unresolved |-> receipts.unresolved,
                    reconciled |-> receipts.reconciled]
    BY <1>2
  <2>4. worker.pc \in Steps /\ worker.blocked \in BOOLEAN /\ worker.due \subseteq AnySlot
        /\ worker.todo \subseteq Phases
    BY <1>3 DEF Steps
  <2>5. now \in Nat /\ schedule.slots \in [Cycle!Jobs -> Int] /\ schedule.pending \subseteq AnySlot
    BY <1>2, <1>4
  <2>6. QED
    BY <2>1, <2>2, <2>3, <2>4, <2>5, Zenon DEF CycleTypes
<1>6. Together
  BY <1>4 DEF Together
<1>7. Current(schedule.pending)
  BY <1>4 DEF Current
<1>8. Follows
  BY <1>3 DEF Follows, Cycle!AtBroker
<1>9. Witnessed
  BY <1>4 DEF Witnessed, Whole, Last
<1>10. QED
  BY <1>5, <1>6, <1>7, <1>8, <1>9 DEF SlotInv

\* No crash consumes a slot silently, whatever the cadences and windows: one that the
\* counters have passed while its job was allowed throughout is pending or in the
\* receipt of a tick that started (FixedRateSchedule, run_tick).
THEOREM SlotsStayWitnessed == MCSpec => [](part = "cycle" => Cycle!SlotsAreWitnessed)
<1>1. Cycle!CycleAssumption
  BY SessionAssumption
<1>2. MCInit => (part = "cycle" => SlotInv)
  BY SlotBegins DEF MCInit
<1>3. (part = "cycle" => SlotInv) /\ [MCNext]_everything => (part = "cycle" => SlotInv)'
  <2>1. SUFFICES ASSUME part = "cycle" => SlotInv, [MCNext]_everything, part' = "cycle"
                 PROVE  SlotInv'
    OBVIOUS
  <2>2. part = "cycle" /\ [Cycle!Next]_Cycle!vars
    BY <2>1 DEF MCNext, everything, autoCycle, Cycle!vars
  <2>3. QED
    BY <1>1, <2>1, <2>2, SlotStep
<1>4. SlotInv => Cycle!SlotsAreWitnessed
  BY DEF SlotInv, Witnessed, Witness, Whole, Last, Cycle!SlotsAreWitnessed
<1>5. QED
  BY <1>2, <1>3, <1>4, PTL DEF MCSpec

-----------------------------------------------------------------------------
(* The names of the ticks *)

\* A tick is named after its highest slot.  The names of a session differ when
\* management has the shortest period, all periods are multiples of its own, it is
\* allowed whenever probes and entries are, and a discovery outside its hours is the
\* first one.
NamesDiffer ==
  /\ \A job \in Cycle!Jobs : Cadence[job] % Cadence["MANAGEMENT"] = 0
  /\ Hours["PROBE"] \cup Hours["ENTRY"] \subseteq Hours["MANAGEMENT"]
  /\ \A t \in Hours["DISCOVERY"] : t \in Hours["MANAGEMENT"] \/ t < Cadence["DISCOVERY"]

Past == receipts.ended \cup suspect

\* A slot above the names of all ticks that have come to an end.
Above(slots) == \A id \in Past : \E s \in slots : id[2] < s.index
Fresh(slots) == slots # {} => Above(slots)

NameInv ==
  /\ \A id \in Past : id[2] \in Nat /\ id[2] <= schedule.slots["MANAGEMENT"]
  /\ Fresh(schedule.pending)
  /\ worker.pc \notin {"down", "loop"} => Fresh(worker.due)

\* Every period is a multiple of management's.
LEMMA Multiples ==
  ASSUME Cycle!CycleAssumption, NamesDiffer, NEW job \in Cycle!Jobs
  PROVE  /\ Cadence["MANAGEMENT"] \in Nat \ {0}
         /\ \E k \in Nat \ {0} : Cadence[job] = k * Cadence["MANAGEMENT"]
<1> DEFINE m == Cadence["MANAGEMENT"]
           c == Cadence[job]
<1>1. m \in Nat \ {0} /\ c \in Nat \ {0} /\ c % m = 0
  BY DEF Cycle!CycleAssumption, Cycle!Jobs, NamesDiffer
<1> DEFINE k == c \div m
<1>2. c = m * k + (c % m) /\ k \in Nat
  <2> HIDE DEF m, c
  <2>1. m \in Int /\ m > 0
    BY <1>1
  <2>2. QED
    BY <1>1, <2>1
<1>3. c = k * m
  <2> HIDE DEF m, c, k
  <2>1. m * k = k * m
    BY <1>1, <1>2
  <2>2. c = m * k
    BY <1>1, <1>2
  <2>3. QED
    BY <2>1, <2>2
<1>4. k # 0
  <2> HIDE DEF m, c, k
  <2>1. SUFFICES ASSUME k = 0 PROVE FALSE
    OBVIOUS
  <2>2. 0 * m = 0
    BY <1>1
  <2>3. QED
    BY <1>1, <1>3, <2>1, <2>2
<1>5. QED
  BY <1>1, <1>2, <1>3, <1>4

\* Some number among four is the highest.
LEMMA HighestOf ==
  ASSUME NEW I, NEW a \in Int, NEW b \in Int, NEW c \in Int, NEW d \in Int,
         I \subseteq {a, b, c, d}, I # {}
  PROVE  \E x \in I : \A y \in I : x >= y
<1> DEFINE Top(J) == J # {} => \E x \in J : \A y \in J : x >= y
<1>1. I \subseteq Int
  OBVIOUS
<1>2. ASSUME NEW J \in SUBSET Int, Top(J), NEW z \in Int
      PROVE  Top(J \cup {z})
  <2>1. CASE J = {}
    BY <2>1
  <2>2. CASE J # {}
    <3>1. PICK x \in J : \A y \in J : x >= y
      BY <1>2, <2>2
    <3>2. CASE x >= z
      BY <3>1, <3>2
    <3>3. CASE ~(x >= z)
      BY <3>1, <3>3
    <3>4. QED
      BY <3>2, <3>3
  <2>3. QED
    BY <2>1, <2>2
<1> DEFINE K(z) == I \cap {z}
<1> HIDE DEF Top
<1>3. ASSUME NEW J \in SUBSET Int, Top(J), NEW z \in Int
      PROVE  Top(J \cup K(z))
  <2>1. K(z) = {} \/ K(z) = {z}
    OBVIOUS
  <2>2. CASE K(z) = {}
    <3>1. J \cup K(z) = J
      BY <2>2
    <3>2. QED
      BY <1>3, <3>1
  <2>3. CASE K(z) = {z}
    BY <1>2, <1>3, <2>3
  <2>4. QED
    BY <2>1, <2>2, <2>3
<1>4. Top({})
  BY DEF Top
<1>5. Top({} \cup K(a))
  BY <1>3, <1>4
<1>6. Top(({} \cup K(a)) \cup K(b))
  BY <1>3, <1>5
<1>7. Top((({} \cup K(a)) \cup K(b)) \cup K(c))
  BY <1>3, <1>6
<1>8. Top(((({} \cup K(a)) \cup K(b)) \cup K(c)) \cup K(d))
  BY <1>3, <1>7
<1>9. ((({} \cup K(a)) \cup K(b)) \cup K(c)) \cup K(d) = I
  OBVIOUS
<1>10. QED
  BY <1>8, <1>9 DEF Top

\* What a tick is named after.
LEMMA MineIsHighest ==
  ASSUME SlotInv, Current(worker.due), worker.due # {}
  PROVE  /\ \E s \in worker.due : Cycle!Mine[2] = s.index
         /\ \A s \in worker.due : s.index <= Cycle!Mine[2]
         /\ Cycle!Mine[2] \in Nat
<1> DEFINE I == {s.index : s \in worker.due}
           n(job) == schedule.slots[job]
<1>1. CycleTypes
  BY DEF SlotInv
<1>2. ASSUME NEW job \in Cycle!Jobs PROVE n(job) \in Int
  BY <1>1 DEF CycleTypes
<1>3. ASSUME NEW s \in worker.due
      PROVE  s.index = n(s.job) /\ s.job \in Cycle!Jobs /\ s.index \in Nat
  <2>1. s \in AnySlot /\ s = Last(s.job) /\ s.index >= 0
    BY <1>1 DEF CycleTypes, Current
  <2>2. Last(s.job).index = schedule.slots[s.job]
    BY DEF Last
  <2>3. s.job \in Cycle!Jobs /\ s.index \in Int
    BY <2>1 DEF AnySlot
  <2>4. QED
    BY <2>1, <2>2, <2>3
<1>4. I \subseteq {n("MANAGEMENT"), n("DISCOVERY"), n("PROBE"), n("ENTRY")} /\ I # {}
  BY <1>3 DEF Cycle!Jobs
<1>5. \E x \in I : \A y \in I : x >= y
  <2>1. /\ n("MANAGEMENT") \in Int /\ n("DISCOVERY") \in Int
        /\ n("PROBE") \in Int /\ n("ENTRY") \in Int
    BY <1>2 DEF Cycle!Jobs
  <2> HIDE DEF n, I
  <2>2. QED
    BY <1>4, <2>1, HighestOf
<1>6. Cycle!Mine[2] = CHOOSE x \in I : \A y \in I : x >= y
  BY DEF Cycle!Mine, Cycle!TickId, Cycle!Max
<1>7. Cycle!Mine[2] \in I /\ \A y \in I : Cycle!Mine[2] >= y
  BY <1>5, <1>6
<1>8. I \subseteq Nat
  BY <1>3
<1>9. QED
  BY <1>3, <1>7, <1>8

\* No job has counted more slots than management.
LEMMA ManagementLeads ==
  ASSUME Cycle!CycleAssumption, NamesDiffer, SlotInv, NEW job \in Cycle!Jobs
  PROVE  schedule.slots[job] <= schedule.slots["MANAGEMENT"]
<1>1. "MANAGEMENT" \in Cycle!Jobs
  BY DEF Cycle!Jobs
<1>2. CASE \A j \in Cycle!Jobs : schedule.slots[j] = -1
  BY <1>1, <1>2
<1>3. CASE \E t \in 0 .. now : \A j \in Cycle!Jobs : schedule.slots[j] = t \div Cadence[j]
  <2>1. PICK t \in 0 .. now : \A j \in Cycle!Jobs : schedule.slots[j] = t \div Cadence[j]
    BY <1>3
  <2>2. t \in Nat
    BY <2>1
  <2>3. PICK k \in Nat \ {0} : Cadence[job] = k * Cadence["MANAGEMENT"]
    BY Multiples
  <2>4. Cadence["MANAGEMENT"] \in Nat \ {0}
    BY Multiples
  <2>5. t \div (k * Cadence["MANAGEMENT"]) <= t \div Cadence["MANAGEMENT"]
    BY <2>2, <2>4, SlotOfLonger
  <2>6. QED
    BY <1>1, <2>1, <2>3, <2>5
<1>4. QED
  BY <1>2, <1>3 DEF SlotInv, Together

\* Steps that end no tick and take no slot.
LEMMA NamesKept ==
  ASSUME NameInv, Past' \subseteq Past, schedule'.slots = schedule.slots,
         schedule'.pending = {} \/ schedule'.pending = schedule.pending
           \/ Fresh(schedule'.pending),
         worker'.pc \in {"down", "loop"} \/ Fresh(worker'.due)
  PROVE  NameInv'
<1>1. \A id \in Past' : id[2] \in Nat /\ id[2] <= schedule'.slots["MANAGEMENT"]
  BY DEF NameInv
<1>2. Fresh(schedule'.pending)
  BY DEF NameInv, Fresh
<1>3. ASSUME NEW slots, Fresh(slots)
      PROVE  slots # {} => \A id \in Past' : \E s \in slots : id[2] < s.index
  BY <1>3 DEF Fresh, Above
<1>4. schedule'.pending # {} => Above(schedule.pending)'
  BY <1>2, <1>3 DEF Above
<1>5. worker'.pc \notin {"down", "loop"} => (worker'.due # {} => Above(worker.due)')
  BY <1>3 DEF Above
<1>6. QED
  BY <1>1, <1>4, <1>5 DEF NameInv, Fresh

\* The name of the tick of a worker at the broker is above those of the ticks before.
LEMMA MineIsAbove ==
  ASSUME SlotInv, NameInv, Cycle!AtBroker
  PROVE  /\ \A id \in Past : id[2] < Cycle!Mine[2]
         /\ Cycle!Mine \notin Past
<1>1. worker.due # {} /\ Current(worker.due) /\ worker.pc \notin {"down", "loop"}
  BY DEF SlotInv, Follows, Cycle!AtBroker
<1>2. CycleTypes
  BY DEF SlotInv
<1>3. Above(worker.due)
  BY <1>1 DEF NameInv, Fresh
<1>4. ASSUME NEW id \in Past PROVE id[2] < Cycle!Mine[2]
  <2>1. PICK s \in worker.due : id[2] < s.index
    BY <1>3 DEF Above
  <2>2. s.index <= Cycle!Mine[2] /\ Cycle!Mine[2] \in Nat
    BY <1>1, MineIsHighest
  <2>3. s.index \in Int
    BY <1>2 DEF CycleTypes, AnySlot
  <2>4. id[2] \in Nat
    BY DEF NameInv
  <2>5. QED
    BY <2>1, <2>2, <2>3, <2>4
<1>5. Cycle!Mine \notin Past
  <2>1. SUFFICES ASSUME Cycle!Mine \in Past PROVE FALSE
    OBVIOUS
  <2>2. Cycle!Mine[2] < Cycle!Mine[2] /\ Cycle!Mine[2] \in Nat
    BY <1>1, <1>4, <2>1, MineIsHighest
  <2>3. QED
    BY <2>2
<1>6. QED
  BY <1>4, <1>5

\* A tick that comes to an end has a name that management has counted.
LEMMA NamesGrow ==
  ASSUME Cycle!CycleAssumption, NamesDiffer, SlotInv, NameInv, Cycle!AtBroker,
         Past' \subseteq Past \cup {Cycle!Mine}, schedule' = schedule,
         worker'.pc \in {"down", "loop"}
  PROVE  NameInv'
<1>1. worker.due # {} /\ Current(worker.due) /\ schedule.pending = {}
  BY DEF SlotInv, Follows, Cycle!AtBroker
<1>2. CycleTypes
  BY DEF SlotInv
<1>3. PICK s \in worker.due : Cycle!Mine[2] = s.index
  BY <1>1, MineIsHighest
<1>4. Cycle!Mine[2] \in Nat
  BY <1>1, MineIsHighest
<1>5. s.index = schedule.slots[s.job] /\ s.job \in Cycle!Jobs
  <2>1. s = Last(s.job) /\ s \in AnySlot
    BY <1>1, <1>2 DEF Current, CycleTypes
  <2>2. Last(s.job).index = schedule.slots[s.job]
    BY DEF Last
  <2>3. s.job \in Cycle!Jobs
    BY <2>1 DEF AnySlot
  <2>4. QED
    BY <2>1, <2>2, <2>3
<1>6. Cycle!Mine[2] <= schedule.slots["MANAGEMENT"]
  BY <1>3, <1>5, ManagementLeads
<1>7. \A id \in Past' : id[2] \in Nat /\ id[2] <= schedule'.slots["MANAGEMENT"]
  BY <1>4, <1>6 DEF NameInv
<1>8. Fresh(schedule.pending)'
  BY <1>1 DEF Fresh
<1>9. QED
  BY <1>7, <1>8 DEF NameInv

\* Slots that the time has just reached are above every name.
LEMMA ChooseKeepsNames ==
  ASSUME Cycle!CycleAssumption, NamesDiffer, SlotInv, NameInv, Cycle!Choose,
         schedule.pending = {}
  PROVE  NameInv'
<1> DEFINE top(job) == now \div Cadence[job]
           slots == Cycle!Due(now)
           lead == [job |-> "MANAGEMENT", index |-> top("MANAGEMENT")]
<1>1. CycleTypes /\ "MANAGEMENT" \in Cycle!Jobs
  BY DEF SlotInv, Cycle!Jobs
<1>2. /\ schedule'.pending = slots /\ slots # {}
      /\ worker'.due = Cycle!Allowed(slots, now) /\ worker'.pc = "chosen"
      /\ \A job \in Cycle!Jobs : schedule'.slots[job] = top(job)
      /\ \A job \in Cycle!Jobs : schedule.slots[job] <= top(job)
  BY ChooseKeepsSlots
<1>3. Past' = Past
  BY DEF Cycle!Choose, Past
<1>4. ASSUME NEW job \in Cycle!Jobs
      PROVE  schedule.slots[job] \in Int /\ top(job) \in Nat
  <2>1. now \in Nat /\ Cadence[job] \in Nat \ {0} /\ schedule.slots[job] \in Int
    BY <1>1 DEF CycleTypes, Cycle!CycleAssumption
  <2>2. QED
    BY <2>1, SlotOfTime
<1>5. ASSUME NEW s \in slots
      PROVE  /\ s.job \in Cycle!Jobs /\ s.index = top(s.job)
             /\ s.index > schedule.slots[s.job]
  BY DEF Cycle!Due
<1>6. CASE \A job \in Cycle!Jobs : schedule.slots[job] = -1
  <2>1. Past = {}
    BY <1>1, <1>6 DEF NameInv
  <2>2. QED
    BY <1>3, <2>1 DEF NameInv, Fresh, Above
<1>7. CASE \E t \in 0 .. now : \A job \in Cycle!Jobs : schedule.slots[job] = t \div Cadence[job]
  <2>1. PICK t \in 0 .. now : \A job \in Cycle!Jobs : schedule.slots[job] = t \div Cadence[job]
    BY <1>7
  <2>2. t \in Nat /\ now \in Nat
    BY <1>1, <2>1 DEF CycleTypes
  <2>3. schedule.slots["MANAGEMENT"] < top("MANAGEMENT")
    <3>1. PICK s : s \in slots
      BY <1>2
    <3>2. PICK k \in Nat \ {0} : Cadence[s.job] = k * Cadence["MANAGEMENT"]
      BY <1>5, <3>1, Multiples
    <3>3. t \div Cadence[s.job] < now \div Cadence[s.job]
      BY <1>4, <1>5, <2>1, <3>1
    <3>4. Cadence["MANAGEMENT"] \in Nat \ {0}
      BY <1>1, Multiples
    <3>5. t \div Cadence["MANAGEMENT"] < now \div Cadence["MANAGEMENT"]
      BY <2>2, <3>2, <3>3, <3>4, SlotOfMultiple
    <3>6. QED
      BY <1>1, <2>1, <3>5
  <2>4. lead \in slots
    BY <1>1, <1>4, <2>3 DEF Cycle!Due
  <2>5. ASSUME NEW id \in Past PROVE id[2] \in Nat /\ id[2] < top("MANAGEMENT")
    BY <1>1, <1>4, <2>3 DEF NameInv
  <2>6. ASSUME NEW some, lead \in some
        PROVE  \A id \in Past : \E s \in some : id[2] < s.index
    <3>1. lead.index = top("MANAGEMENT")
      OBVIOUS
    <3> HIDE DEF lead, top
    <3>2. QED
      BY <2>5, <2>6, <3>1
  <2>7. Cycle!Allowed(slots, now) # {} => lead \in Cycle!Allowed(slots, now)
    <3>1. SUFFICES ASSUME NEW s \in Cycle!Allowed(slots, now)
                   PROVE  lead \in Cycle!Allowed(slots, now)
      OBVIOUS
    <3>2. s \in slots /\ now \in Hours[s.job]
      BY <3>1 DEF Cycle!Allowed
    <3>3. s.job \in Cycle!Jobs /\ s.index = top(s.job) /\ s.index > schedule.slots[s.job]
      BY <1>5, <3>2
    <3>4. now \in Hours["MANAGEMENT"]
      <4>1. SUFFICES ASSUME now \notin Hours["MANAGEMENT"] PROVE FALSE
        OBVIOUS
      <4>2. s.job = "DISCOVERY" /\ now < Cadence["DISCOVERY"]
        BY <3>2, <3>3, <4>1 DEF NamesDiffer, Cycle!Jobs
      <4>3. Cadence["DISCOVERY"] \in Nat \ {0}
        BY <3>3, <4>2 DEF Cycle!CycleAssumption
      <4> DEFINE c == Cadence["DISCOVERY"]
      <4>4. now \div c = 0
        <5>1. /\ now \div c \in Nat /\ (now \div c) * c <= now
          BY <2>2, <4>3, SlotOfTime
        <5> DEFINE q == now \div c
        <5>2. q \in Nat /\ c \in Nat \ {0} /\ now < c /\ q * c <= now
          BY <4>2, <4>3, <5>1
        <5> HIDE DEF q, c
        <5>3. SUFFICES ASSUME q >= 1 PROVE FALSE
          BY <5>2 DEF q
        <5>4. 1 * c <= q * c
          BY <5>2, <5>3
        <5>5. QED
          BY <2>2, <5>2, <5>4
      <4>5. t \div c \in Nat
        BY <2>2, <4>3, SlotOfTime
      <4>6. t \div c < 0
        BY <2>1, <3>3, <4>2, <4>4
      <4>7. QED
        BY <4>5, <4>6
    <3>5. QED
      BY <2>4, <3>4 DEF Cycle!Allowed
  <2>8. Above(schedule.pending)'
    BY <1>2, <1>3, <2>4, <2>6 DEF Above
  <2>9. Fresh(worker.due)'
    BY <1>2, <1>3, <2>6, <2>7 DEF Fresh, Above
  <2>10. \A id \in Past' : id[2] \in Nat /\ id[2] <= schedule'.slots["MANAGEMENT"]
    BY <1>1, <1>2, <1>3, <1>4, <2>5
  <2>11. QED
    BY <2>8, <2>9, <2>10 DEF NameInv, Fresh
<1>8. QED
  BY <1>6, <1>7 DEF SlotInv, Together

\* What the steps at the broker change of a worker's verdict and of the receipts.
LEMMA WorkEffects ==
  ASSUME CycleTypes
  PROVE  /\ \/ Cycle!RecoveryRefused \/ Cycle!Management \/ Cycle!Entry \/ Cycle!ScanEnded
            \/ \E phase \in {"PROBE", "DISCOVERY"} : Cycle!ScanStarted(phase)
            => /\ worker'.pc \in {"working", "scanning"} /\ worker'.blocked = worker.blocked
               /\ suspect' = suspect /\ receipts' = receipts
         /\ Cycle!Reconcile =>
              /\ worker'.blocked = worker.blocked
              /\ suspect' = {} /\ receipts' = receipts
         /\ Cycle!ReconcileTick =>
              /\ worker.pc = "clearing" /\ worker' = worker
              /\ suspect' = suspect /\ receipts'.ended = receipts.ended
         /\ Cycle!ClearRecovery =>
              /\ worker.pc = "clearing" /\ worker'.pc = "working"
              /\ suspect' = suspect /\ receipts' = receipts
         /\ Cycle!TickUnresolved =>
              /\ worker'.pc = "loop" /\ worker'.blocked = TRUE
              /\ suspect' = suspect \cup {Cycle!Mine}
              /\ receipts'.started = receipts.started /\ receipts'.ended = receipts.ended
              /\ receipts'.reconciled = receipts.reconciled
              /\ receipts'.aborted = receipts.aborted
              /\ receipts'.unresolved = receipts.unresolved \cup {Cycle!Mine}
         /\ Cycle!TickFinished =>
              /\ worker'.pc = "loop" /\ worker'.blocked = worker.blocked
              /\ suspect' = suspect
              /\ receipts'.started = receipts.started
              /\ receipts'.ended = receipts.ended \cup {Cycle!Mine}
              /\ receipts'.reconciled = receipts.reconciled
              /\ receipts'.aborted = receipts.aborted
              /\ receipts'.unresolved = receipts.unresolved
<1>1. PICK a, name, c, d, e :
        worker = [pc |-> a, session |-> name, blocked |-> c, due |-> d, todo |-> e]
  BY DEF CycleTypes
<1>2. PICK started, ended, aborted, unresolved, reconciled :
        receipts = [started |-> started, ended |-> ended, aborted |-> aborted,
                    unresolved |-> unresolved, reconciled |-> reconciled]
  BY DEF CycleTypes
<1>3. worker.pc = a /\ worker.blocked = c /\ worker.todo = e
  BY <1>1
<1>4. ASSUME NEW phase, Cycle!Turn(phase), Cycle!Done(phase)
      PROVE  worker'.pc = "working" /\ worker'.blocked = worker.blocked
  <2>1. worker.pc = "working" /\ worker' = [worker EXCEPT !.todo = worker.todo \ {phase}]
    BY <1>4, Zenon DEF Cycle!Turn, Cycle!Done, Cycle!Is
  <2>2. QED
    BY <1>1, <2>1
<1>5. ASSUME NEW pc, Cycle!Goes(pc) PROVE worker'.pc = pc /\ worker'.blocked = worker.blocked
  BY <1>1, <1>5 DEF Cycle!Goes
<1>6. Cycle!RecoveryRefused \/ Cycle!Management \/ Cycle!Entry =>
        worker'.pc = "working" /\ worker'.blocked = worker.blocked
        /\ suspect' = suspect /\ receipts' = receipts
  BY <1>4, Zenon DEF Cycle!RecoveryRefused, Cycle!Management, Cycle!Entry
<1>7. Cycle!ScanEnded =>
        worker'.pc = "working" /\ worker'.blocked = worker.blocked
        /\ suspect' = suspect /\ receipts' = receipts
  BY <1>5, Zenon DEF Cycle!ScanEnded
<1>8. ASSUME NEW phase \in {"PROBE", "DISCOVERY"}, Cycle!ScanStarted(phase)
      PROVE  /\ worker'.pc = "scanning" /\ worker'.blocked = worker.blocked
             /\ suspect' = suspect /\ receipts' = receipts
  <2>1. /\ worker' = [worker EXCEPT !.pc = "scanning", !.todo = worker.todo \ {phase}]
        /\ suspect' = suspect /\ receipts' = receipts
    BY <1>8, Zenon DEF Cycle!ScanStarted
  <2>2. QED
    BY <1>1, <2>1
<1>9. Cycle!Reconcile =>
        worker'.blocked = worker.blocked /\ suspect' = {} /\ receipts' = receipts
  BY <1>5, Zenon DEF Cycle!Reconcile
<1>10. ASSUME Cycle!ClearRecovery
       PROVE  /\ worker.pc = "clearing" /\ worker'.pc = "working"
              /\ suspect' = suspect /\ receipts' = receipts
  <2>1. /\ worker.pc = "clearing"
        /\ worker' = [worker EXCEPT !.pc = "working", !.todo = worker.todo \ {"RECOVERY"},
                                    !.blocked = FALSE]
        /\ suspect' = suspect /\ receipts' = receipts
    BY <1>10, Zenon DEF Cycle!ClearRecovery, Cycle!Is
  <2>2. QED
    BY <1>1, <2>1
<1>14. ASSUME Cycle!ReconcileTick
       PROVE  /\ worker.pc = "clearing" /\ worker' = worker
              /\ suspect' = suspect /\ receipts'.ended = receipts.ended
  <2>1. /\ worker.pc = "clearing" /\ worker' = worker /\ suspect' = suspect
        /\ \E id : receipts' = [receipts EXCEPT !.reconciled = @ \cup {id}]
    BY <1>14, Zenon DEF Cycle!ReconcileTick, Cycle!Is
  <2>2. PICK id : receipts' = [receipts EXCEPT !.reconciled = @ \cup {id}]
    BY <2>1
  <2>3. receipts'.ended = receipts.ended
    BY <1>2, <2>2
  <2>4. QED
    BY <2>1, <2>3
<1>11. ASSUME Cycle!TickUnresolved
       PROVE  /\ worker'.pc = "loop" /\ worker'.blocked = TRUE
              /\ suspect' = suspect \cup {Cycle!Mine}
              /\ receipts'.started = receipts.started /\ receipts'.ended = receipts.ended
              /\ receipts'.reconciled = receipts.reconciled
              /\ receipts'.aborted = receipts.aborted
              /\ receipts'.unresolved = receipts.unresolved \cup {Cycle!Mine}
  <2>1. /\ worker' = [worker EXCEPT !.pc = "loop", !.blocked = TRUE, !.todo = {}]
        /\ suspect' = suspect \cup {Cycle!Mine}
        /\ receipts' = [receipts EXCEPT !.unresolved = @ \cup {Cycle!Mine}]
    BY <1>11, Zenon DEF Cycle!TickUnresolved
  <2>2. worker'.pc = "loop" /\ worker'.blocked = TRUE
    BY <1>1, <2>1
  <2>3. QED
    BY <1>2, <2>1, <2>2
<1>12. ASSUME Cycle!TickFinished
       PROVE  /\ worker'.pc = "loop" /\ worker'.blocked = worker.blocked
              /\ suspect' = suspect
              /\ receipts'.started = receipts.started
              /\ receipts'.ended = receipts.ended \cup {Cycle!Mine}
              /\ receipts'.reconciled = receipts.reconciled
              /\ receipts'.aborted = receipts.aborted
              /\ receipts'.unresolved = receipts.unresolved
  <2>1. /\ worker' = [worker EXCEPT !.pc = "loop"]
        /\ suspect' = suspect
        /\ receipts' = [receipts EXCEPT !.ended = @ \cup {Cycle!Mine}]
    BY <1>12, Zenon DEF Cycle!TickFinished
  <2>2. worker'.pc = "loop" /\ worker'.blocked = worker.blocked
    BY <1>1, <2>1
  <2>3. QED
    BY <1>2, <2>1, <2>2
<1>13. QED
  BY <1>6, <1>7, <1>8, <1>9, <1>10, <1>11, <1>12, <1>14

\* Every step keeps the names apart.
LEMMA NameStep ==
  ASSUME Cycle!CycleAssumption, NamesDiffer, SlotInv, NameInv, [Cycle!Next]_Cycle!vars
  PROVE  NameInv'
<1>1. CycleTypes
  BY DEF SlotInv
<1>2. CASE Cycle!StartWorker \/ Cycle!Stop
  <2>1. schedule' = schedule /\ receipts' = receipts /\ worker'.pc \in {"down", "loop"}
    BY <1>2, StartTyped
  <2>2. suspect' = suspect
    BY <1>2, Zenon DEF Cycle!StartWorker, Cycle!Stop
  <2>3. Past' \subseteq Past
    BY <2>1, <2>2 DEF Past
  <2>4. QED
    BY <2>1, <2>3, NamesKept
<1>3. CASE Cycle!Die
  <2>1. schedule' = schedule /\ receipts' = receipts /\ worker'.pc \in {"down", "loop"}
    BY <1>3, StartTyped
  <2>2. suspect' = IF Cycle!AtBroker THEN suspect \cup {Cycle!Mine} ELSE suspect
    BY <1>3, Zenon DEF Cycle!Die
  <2>3. CASE Cycle!AtBroker
    <3>1. Past' \subseteq Past \cup {Cycle!Mine}
      BY <2>1, <2>2, <2>3 DEF Past
    <3>2. QED
      BY <2>1, <2>3, <3>1, NamesGrow
  <2>4. CASE ~Cycle!AtBroker
    <3>1. Past' \subseteq Past
      BY <2>1, <2>2, <2>4 DEF Past
    <3>2. QED
      BY <2>1, <3>1, NamesKept
  <2>5. QED
    BY <2>3, <2>4
<1>4. CASE Cycle!Choose
  <2>1. CASE schedule.pending = {}
    BY <1>4, <2>1, ChooseKeepsNames
  <2>2. CASE schedule.pending # {}
    <3>1. schedule' = schedule /\ worker'.due = schedule.pending
      BY <1>4, <2>2, RetakeKeepsSlots
    <3>2. Past' \subseteq Past
      BY <1>4 DEF Cycle!Choose, Past
    <3>3. Fresh(worker'.due)
      BY <3>1 DEF NameInv
    <3>4. QED
      BY <3>1, <3>2, <3>3, NamesKept
  <2>3. QED
    BY <2>1, <2>2
<1>5. CASE Cycle!Skip
  <2>1. /\ schedule'.slots = schedule.slots /\ schedule'.pending = worker.due
        /\ worker'.due = worker.due
    BY <1>5, SkipKeepsSlots
  <2>2. Past' \subseteq Past /\ worker.pc = "chosen"
    BY <1>5 DEF Cycle!Skip, Cycle!Is, Past
  <2>3. Fresh(worker.due)
    BY <2>2 DEF NameInv
  <2>4. QED
    BY <2>1, <2>2, <2>3, NamesKept
<1>6. CASE Cycle!TickStarted
  <2>1. /\ schedule' = schedule /\ worker'.due = worker.due /\ worker.pc = "starting"
        /\ receipts' = [receipts EXCEPT !.started = receipts.started \cup {Receipt}]
    BY <1>6, BeginKeepsSlots
  <2>2. receipts'.ended = receipts.ended
    BY <1>1, <2>1 DEF CycleTypes
  <2>3. Past' \subseteq Past
    BY <1>6, <2>2 DEF Cycle!TickStarted, Past
  <2>4. Fresh(worker.due)
    BY <2>1 DEF NameInv
  <2>5. QED
    BY <2>1, <2>3, <2>4, NamesKept
<1>7. CASE Cycle!Acknowledge
  <2>1. /\ receipts' = receipts /\ schedule'.slots = schedule.slots
        /\ schedule'.pending = {} /\ worker.pc = "started" /\ worker'.due = worker.due
    BY <1>7, AcknowledgeKeepsSlots
  <2>2. Past' \subseteq Past
    BY <1>7, <2>1 DEF Cycle!Acknowledge, Past
  <2>3. Fresh(worker.due)
    BY <2>1 DEF NameInv
  <2>4. QED
    BY <2>1, <2>2, <2>3, NamesKept
<1>8. CASE AtWork
  <2>1. schedule' = schedule /\ Cycle!AtBroker /\ worker'.due = worker.due
    BY <1>8, WorkKeepsSlots DEF Untouched
  <2>2. Fresh(worker.due)
    BY <2>1 DEF NameInv, Cycle!AtBroker
  <2>3. CASE Cycle!TickUnresolved \/ Cycle!TickFinished
    <3>1. Past' \subseteq Past \cup {Cycle!Mine} /\ worker'.pc = "loop"
      BY <1>1, <2>3, WorkEffects DEF Past
    <3>2. QED
      BY <2>1, <3>1, NamesGrow
  <2>4. CASE Cycle!ReconcileTick \/ Cycle!ClearRecovery
    <3>1. Past' \subseteq Past
      BY <1>1, <2>4, WorkEffects DEF Past
    <3>2. QED
      BY <2>1, <2>2, <3>1, NamesKept
  <2>5. CASE Cycle!Reconcile
    <3>1. Past' \subseteq Past
      BY <1>1, <2>5, WorkEffects DEF Past
    <3>2. QED
      BY <2>1, <2>2, <3>1, NamesKept
  <2>6. CASE \/ Cycle!RecoveryRefused \/ Cycle!Management \/ Cycle!Entry \/ Cycle!ScanEnded
             \/ \E phase \in {"PROBE", "DISCOVERY"} : Cycle!ScanStarted(phase)
    <3>1. suspect' = suspect /\ receipts' = receipts
      BY <1>1, <2>6, WorkEffects
    <3>2. Past' \subseteq Past
      BY <3>1 DEF Past
    <3>3. QED
      BY <2>1, <2>2, <3>2, NamesKept
  <2>7. QED
    BY <1>8, <2>3, <2>4, <2>5, <2>6 DEF AtWork
<1>9. CASE Outside \/ UNCHANGED Cycle!vars
  <2>1. schedule' = schedule /\ receipts' = receipts /\ worker' = worker /\ suspect' = suspect
    BY <1>9, OutsideKeepsSlots
  <2>2. QED
    BY <2>1 DEF NameInv, Fresh, Above, Past
<1>10. CASE Cycle!TickAborted
  <2>1. /\ schedule' = schedule /\ suspect' = suspect /\ worker'.pc = "loop"
        /\ receipts'.ended = receipts.ended
    BY <1>10, AbortKeepsSlots
  <2>2. Past' \subseteq Past
    BY <2>1 DEF Past
  <2>3. QED
    BY <2>1, <2>2, NamesKept
<1>11. QED
  BY <1>2, <1>3, <1>4, <1>5, <1>6, <1>7, <1>8, <1>9, <1>10, Zenon
     DEF Cycle!Next, AtWork, Outside

-----------------------------------------------------------------------------
(* The ticks that broke off *)

\* A tick that broke off is unmatched until it is reconciled, unless an earlier attempt
\* under its name was aborted; a worker that holds nothing against itself has none left.
Cleared == receipts.reconciled \cup receipts.aborted

DoneInv ==
  /\ suspect \subseteq Cleared \cup Cycle!Unmatched
  /\ worker.pc # "down" /\ ~worker.blocked => suspect \subseteq Cleared
  /\ worker.pc = "clearing" => suspect = {}
  /\ Cycle!AtBroker /\ "ENTRY" \in worker.todo => ~worker.blocked

\* Steps that settle no tick.
LEMMA SettledKept ==
  ASSUME DoneInv, suspect' \subseteq suspect,
         receipts.started \subseteq receipts'.started,
         receipts'.ended = receipts.ended, receipts'.reconciled = receipts.reconciled,
         receipts.aborted \subseteq receipts'.aborted,
         receipts.unresolved \subseteq receipts'.unresolved
  PROVE  suspect' \subseteq Cleared' \cup Cycle!Unmatched'
<1>1. ASSUME NEW id \in suspect', id \notin Cleared'
      PROVE  id \in Cycle!Unmatched'
  <2>1. id \in Cycle!Unmatched
    BY <1>1 DEF DoneInv, Cleared
  <2>2. id \in Cycle!StartedIds /\ id \notin receipts.ended \ receipts.unresolved
    BY <2>1 DEF Cycle!Unmatched
  <2>3. id \in Cycle!StartedIds'
    BY <2>2 DEF Cycle!StartedIds
  <2>4. QED
    BY <1>1, <2>2, <2>3 DEF Cycle!Unmatched, Cleared
<1>2. QED
  BY <1>1

\* A tick at the broker has its start on disk.
LEMMA MineIsStarted ==
  ASSUME SlotInv, Cycle!AtBroker
  PROVE  Cycle!Mine \in Cycle!StartedIds
<1>1. Receipt \in receipts.started
  BY DEF SlotInv, Follows
<1>2. Receipt.id = Cycle!Mine
  BY DEF Receipt
<1>3. QED
  BY <1>1, <1>2 DEF Cycle!StartedIds

\* Every step keeps account of the ticks that broke off.
LEMMA DoneStep ==
  ASSUME SlotInv, NameInv, DoneInv, [Cycle!Next]_Cycle!vars
  PROVE  DoneInv'
<1>1. CycleTypes
  BY DEF SlotInv
<1>2. CASE Cycle!StartWorker
  <2>1. /\ receipts' = receipts /\ suspect' = suspect
        /\ worker' = [Cycle!Down EXCEPT !.pc = "loop", !.session = session,
                        !.blocked = Cycle!Unmatched # {} \/ schedule.pending # {}]
    BY <1>2, StartTyped, Zenon DEF Cycle!StartWorker
  <2>2. worker'.pc = "loop" /\ (~worker'.blocked => Cycle!Unmatched = {})
    <3> DEFINE blocks == Cycle!Unmatched # {} \/ schedule.pending # {}
    <3>1. worker' = [Cycle!Down EXCEPT !.pc = "loop", !.session = session, !.blocked = blocks]
      BY <2>1
    <3> HIDE DEF blocks
    <3>2. worker'.pc = "loop" /\ worker'.blocked = blocks
      BY <3>1 DEF Cycle!Down
    <3>3. QED
      BY <3>2 DEF blocks
  <2>3. suspect' \subseteq Cleared' \cup Cycle!Unmatched'
    BY <2>1, SettledKept
  <2>4. QED
    BY <2>1, <2>2, <2>3 DEF DoneInv, Cleared, Cycle!AtBroker
<1>3. CASE Cycle!Stop
  <2>1. receipts' = receipts /\ suspect' = suspect /\ worker' = Cycle!Down
    BY <1>3, StartTyped, Zenon DEF Cycle!Stop
  <2>2. worker'.pc = "down"
    BY <2>1 DEF Cycle!Down
  <2>3. suspect' \subseteq Cleared' \cup Cycle!Unmatched'
    BY <2>1, SettledKept
  <2>4. QED
    BY <2>2, <2>3 DEF DoneInv, Cleared, Cycle!AtBroker
<1>4. CASE Cycle!Die
  <2>1. /\ receipts' = receipts /\ worker' = Cycle!Down
        /\ suspect' = IF Cycle!AtBroker THEN suspect \cup {Cycle!Mine} ELSE suspect
    BY <1>4, StartTyped, Zenon DEF Cycle!Die
  <2>2. worker'.pc = "down"
    BY <2>1 DEF Cycle!Down
  <2>3. suspect \subseteq Cleared \cup Cycle!Unmatched
    BY DEF DoneInv
  <2>4. Cycle!Unmatched' = Cycle!Unmatched
    BY <2>1 DEF Cycle!Unmatched, Cycle!StartedIds
  <2>5. Cycle!AtBroker => Cycle!Mine \in Cleared \cup Cycle!Unmatched
    BY MineIsStarted, MineIsAbove DEF Cleared, Cycle!Unmatched, Past
  <2>6. suspect' \subseteq Cleared' \cup Cycle!Unmatched'
    BY <2>1, <2>3, <2>4, <2>5 DEF Cleared
  <2>7. QED
    BY <2>2, <2>6 DEF DoneInv, Cleared, Cycle!AtBroker
<1>5. CASE Cycle!Choose
  <2>1. /\ receipts' = receipts /\ suspect' = suspect /\ worker.pc = "loop"
        /\ worker'.pc = "chosen" /\ (~worker'.blocked => ~worker.blocked)
    <3> DEFINE blocks == worker.blocked \/ Cycle!RecoveryRequired
               slots == IF schedule.pending # {} THEN schedule.pending ELSE Cycle!Due(now)
               due == IF schedule.pending # {} THEN slots ELSE Cycle!Allowed(slots, now)
    <3>1. /\ receipts' = receipts /\ suspect' = suspect /\ worker.pc = "loop"
          /\ worker' = [worker EXCEPT !.blocked = blocks, !.due = due, !.pc = "chosen"]
      BY <1>5 DEF Cycle!Choose, Cycle!Is
    <3> HIDE DEF blocks, due
    <3>2. worker'.pc = "chosen" /\ worker'.blocked = blocks
      BY <1>1, <3>1, ChosenIs
    <3>3. QED
      BY <3>1, <3>2 DEF blocks
  <2>2. suspect' \subseteq Cleared' \cup Cycle!Unmatched'
    BY <2>1, SettledKept
  <2>3. QED
    BY <2>1, <2>2 DEF DoneInv, Cleared, Cycle!AtBroker
<1>6. CASE Cycle!Skip
  <2>1. /\ worker.pc = "chosen" /\ suspect' = suspect /\ receipts' = receipts
        /\ Cycle!Goes(IF worker.due = {} THEN "loop" ELSE "starting")
    BY <1>6 DEF Cycle!Skip, Cycle!Is
  <2>2. worker'.blocked = worker.blocked /\ worker'.pc \in {"loop", "starting"}
    BY <1>1, <1>6, <2>1, GoesTo, SkipKeepsSlots
  <2>3. suspect' \subseteq Cleared' \cup Cycle!Unmatched'
    BY <2>1, SettledKept
  <2>4. QED
    BY <2>1, <2>2, <2>3 DEF DoneInv, Cleared, Cycle!AtBroker
<1>7. CASE Cycle!TickStarted
  <2>1. /\ worker.pc = "starting" /\ suspect' = suspect /\ Cycle!Goes("started")
        /\ receipts' = [receipts EXCEPT !.started = receipts.started \cup {Receipt}]
    BY <1>7 DEF Cycle!TickStarted, Cycle!Is, Receipt
  <2>2. worker'.blocked = worker.blocked /\ worker'.pc = "started"
    BY <1>1, <2>1, GoesTo
  <2>3. /\ receipts.started \subseteq receipts'.started
        /\ receipts'.ended = receipts.ended /\ receipts'.reconciled = receipts.reconciled
        /\ receipts'.aborted = receipts.aborted
        /\ receipts'.unresolved = receipts.unresolved
    BY <1>1, <2>1 DEF CycleTypes
  <2>4. suspect' \subseteq Cleared' \cup Cycle!Unmatched'
    BY <2>1, <2>3, SettledKept
  <2>5. QED
    BY <2>1, <2>2, <2>3, <2>4 DEF DoneInv, Cleared, Cycle!AtBroker
<1>8. CASE Cycle!Acknowledge
  <2>1. /\ receipts' = receipts /\ worker.pc = "started" /\ worker'.pc = "working"
        /\ worker'.blocked = worker.blocked
        /\ worker'.todo = Cycle!PhasesOf(worker.due, worker.blocked)
    BY <1>8, AcknowledgeKeepsSlots
  <2>2. suspect' = suspect
    BY <1>8 DEF Cycle!Acknowledge
  <2>3. "ENTRY" \in worker'.todo => ~worker.blocked
    BY <2>1 DEF Cycle!PhasesOf
  <2>4. suspect' \subseteq Cleared' \cup Cycle!Unmatched'
    BY <2>1, <2>2, SettledKept
  <2>5. QED
    BY <2>1, <2>2, <2>3, <2>4 DEF DoneInv, Cleared, Cycle!AtBroker
<1>9. CASE AtWork
  <2>1. /\ Cycle!AtBroker /\ worker'.todo \subseteq worker.todo
        /\ receipts'.started = receipts.started
    BY <1>9, WorkKeepsSlots
  <2>2. CASE \/ Cycle!RecoveryRefused \/ Cycle!Management \/ Cycle!Entry \/ Cycle!ScanEnded
             \/ \E phase \in {"PROBE", "DISCOVERY"} : Cycle!ScanStarted(phase)
    <3>1. /\ worker'.pc \in {"working", "scanning"} /\ worker'.blocked = worker.blocked
          /\ suspect' = suspect /\ receipts' = receipts
      BY <1>1, <2>2, WorkEffects
    <3>2. suspect' \subseteq Cleared' \cup Cycle!Unmatched'
      BY <3>1, SettledKept
    <3>3. QED
      BY <2>1, <3>1, <3>2 DEF DoneInv, Cleared, Cycle!AtBroker
  <2>3. CASE Cycle!Reconcile
    <3>1. worker'.blocked = worker.blocked /\ suspect' = {} /\ receipts' = receipts
      BY <1>1, <2>3, WorkEffects
    <3>2. QED
      BY <2>1, <3>1 DEF DoneInv, Cleared, Cycle!AtBroker
  <2>4. CASE Cycle!ClearRecovery
    <3>1. suspect' = {} /\ worker'.pc = "working"
      BY <1>1, <2>4, WorkEffects DEF DoneInv
    <3>2. worker'.blocked = FALSE
      <4>1. worker' = [worker EXCEPT !.pc = "working", !.todo = worker.todo \ {"RECOVERY"},
                                     !.blocked = FALSE]
        BY <2>4, Zenon DEF Cycle!ClearRecovery
      <4>2. PICK a, name, c, d, e :
              worker = [pc |-> a, session |-> name, blocked |-> c, due |-> d, todo |-> e]
        BY <1>1 DEF CycleTypes
      <4>3. QED
        BY <4>1, <4>2
    <3>3. QED
      BY <3>1, <3>2 DEF DoneInv
  <2>5. CASE Cycle!TickUnresolved
    <3>1. /\ worker'.pc = "loop" /\ worker'.blocked = TRUE
          /\ suspect' = suspect \cup {Cycle!Mine}
          /\ receipts'.ended = receipts.ended
          /\ receipts'.reconciled = receipts.reconciled
          /\ receipts'.aborted = receipts.aborted
          /\ receipts'.unresolved = receipts.unresolved \cup {Cycle!Mine}
      BY <1>1, <2>5, WorkEffects
    <3>2. Cycle!StartedIds' = Cycle!StartedIds /\ Cycle!Mine \in Cycle!StartedIds
      BY <2>1, MineIsStarted DEF Cycle!StartedIds
    <3>3. suspect \subseteq Cleared \cup Cycle!Unmatched
      BY DEF DoneInv
    <3>4. /\ Cycle!Unmatched \subseteq Cleared' \cup Cycle!Unmatched'
          /\ Cycle!Mine \in Cleared' \cup Cycle!Unmatched'
      BY <3>1, <3>2 DEF Cycle!Unmatched, Cleared
    <3>5. suspect' \subseteq Cleared' \cup Cycle!Unmatched'
      BY <3>1, <3>3, <3>4 DEF Cleared
    <3>6. QED
      BY <3>1, <3>5 DEF DoneInv, Cleared, Cycle!AtBroker
  <2>6. CASE Cycle!TickFinished
    <3>1. /\ worker'.pc = "loop" /\ worker'.blocked = worker.blocked
          /\ suspect' = suspect
          /\ receipts'.ended = receipts.ended \cup {Cycle!Mine}
          /\ receipts'.reconciled = receipts.reconciled
          /\ receipts'.aborted = receipts.aborted
          /\ receipts'.unresolved = receipts.unresolved
      BY <1>1, <2>6, WorkEffects
    <3>2. Cycle!StartedIds' = Cycle!StartedIds /\ Cycle!Mine \notin suspect
      BY <2>1, MineIsAbove DEF Cycle!StartedIds, Past
    <3>3. suspect \subseteq Cleared \cup Cycle!Unmatched
      BY DEF DoneInv
    <3>4. suspect' \subseteq Cleared' \cup Cycle!Unmatched'
      BY <3>1, <3>2, <3>3 DEF Cycle!Unmatched, Cleared
    <3>5. worker.pc # "down"
      BY <2>1 DEF Cycle!AtBroker
    <3>6. QED
      BY <3>1, <3>4, <3>5 DEF DoneInv, Cleared, Cycle!AtBroker
  <2>7. CASE Cycle!ReconcileTick
    <3>1. suspect' = {} /\ worker' = worker
      BY <1>1, <2>7, WorkEffects DEF DoneInv
    <3>2. QED
      BY <3>1 DEF DoneInv, Cycle!AtBroker
  <2>8. QED
    BY <1>9, <2>2, <2>3, <2>4, <2>5, <2>6, <2>7 DEF AtWork
<1>10. CASE Outside \/ UNCHANGED Cycle!vars
  <2>1. schedule' = schedule /\ receipts' = receipts /\ worker' = worker /\ suspect' = suspect
    BY <1>10, OutsideKeepsSlots
  <2>2. QED
    BY <2>1 DEF DoneInv, Cleared, Cycle!AtBroker, Cycle!Unmatched, Cycle!StartedIds
<1>11. CASE Cycle!TickAborted
  <2>1. /\ suspect' = suspect /\ worker'.pc = "loop" /\ worker'.blocked = worker.blocked
        /\ receipts'.started = receipts.started /\ receipts'.ended = receipts.ended
        /\ receipts'.aborted = receipts.aborted \cup {Cycle!Mine}
        /\ receipts'.unresolved = receipts.unresolved
        /\ receipts'.reconciled = receipts.reconciled
    BY <1>11, AbortKeepsSlots
  <2>2. suspect' \subseteq Cleared' \cup Cycle!Unmatched'
    BY <2>1, SettledKept
  <2>3. worker.pc = "started"
    BY <1>11 DEF Cycle!TickAborted, Cycle!Is
  <2>4. QED
    BY <2>1, <2>2, <2>3 DEF DoneInv, Cleared, Cycle!AtBroker
<1>12. QED
  BY <1>2, <1>3, <1>4, <1>5, <1>6, <1>7, <1>8, <1>9, <1>10, <1>11, Zenon
     DEF Cycle!Next, AtWork, Outside

\* A session begins without a tick.
LEMMA TicksBegin == Cycle!Init => NameInv /\ DoneInv
<1>1. SUFFICES ASSUME Cycle!Init PROVE NameInv /\ DoneInv
  OBVIOUS
<1>2. /\ suspect = {} /\ worker = Cycle!Down
      /\ schedule = [owner |-> 0, slots |-> [j \in Cycle!Jobs |-> -1], pending |-> {}]
      /\ receipts = [started |-> {}, ended |-> {}, aborted |-> {}, unresolved |-> {},
                     reconciled |-> {}]
  BY <1>1 DEF Cycle!Init
<1>3. worker.pc = "down" /\ Past = {} /\ schedule.pending = {}
  BY <1>2 DEF Cycle!Down, Past
<1>4. QED
  BY <1>2, <1>3 DEF NameInv, DoneInv, Fresh, Cycle!AtBroker

\* A worker enters no position while a tick that broke off, in whatever process, waits
\* for the agreement of its books with the broker's, unless an earlier attempt under its
\* name was aborted, for any number of sessions, deaths and units of time, provided that
\* the names of the ticks differ (run_tick, clear_recovery, __init__).
THEOREM TicksStayAccounted ==
  ASSUME NamesDiffer
  PROVE  MCSpec => []TicksAreAccounted
<1> DEFINE TickInv == part = "cycle" => SlotInv /\ NameInv /\ DoneInv
<1>1. Cycle!CycleAssumption
  BY SessionAssumption
<1>2. MCInit => TickInv
  BY SlotBegins, TicksBegin DEF MCInit
<1>3. TickInv /\ [MCNext]_everything => TickInv'
  <2>1. SUFFICES ASSUME TickInv, [MCNext]_everything, part' = "cycle"
                 PROVE  (SlotInv /\ NameInv /\ DoneInv)'
    OBVIOUS
  <2>2. part = "cycle" /\ [Cycle!Next]_Cycle!vars
    BY <2>1 DEF MCNext, everything, autoCycle, Cycle!vars
  <2>3. QED
    BY <1>1, <2>1, <2>2, SlotStep, NameStep, DoneStep
<1>4. TickInv => TicksAreAccounted
  <2>1. SUFFICES ASSUME SlotInv, DoneInv PROVE Cycle!TicksAreAccounted
    BY DEF TicksAreAccounted
  <2>2. Cycle!SlotsAreWitnessed
    BY <2>1 DEF SlotInv, Witnessed, Witness, Whole, Last, Cycle!SlotsAreWitnessed
  <2>3. Cycle!EntryIsReconciled
    <3>1. SUFFICES ASSUME Cycle!Turn("ENTRY") PROVE suspect \subseteq Cleared
      BY DEF Cycle!EntryIsReconciled, Cleared
    <3>2. worker.pc = "working" /\ "ENTRY" \in worker.todo
      BY <3>1, Zenon DEF Cycle!Turn, Cycle!Is
    <3>3. QED
      BY <2>1, <3>2 DEF DoneInv, Cycle!AtBroker
  <2>4. QED
    BY <2>2, <2>3 DEF Cycle!TicksAreAccounted
<1>5. QED
  BY <1>2, <1>3, <1>4, PTL DEF MCSpec

-----------------------------------------------------------------------------
\* The types of the three parts.

\* What the records of a session name exists: sessions that began, ticks that started,
\* slots of the day.
Sessions == 1 .. MaxSessions
TickRecords == [id : Cycle!Ids, slots : SUBSET Cycle!Slot]
Ended == receipts.ended \cup receipts.aborted \cup receipts.unresolved
           \cup receipts.reconciled

TickTypes ==
  /\ receipts.started \subseteq TickRecords
  /\ Ended \cup suspect \subseteq Cycle!StartedIds

CountTypes ==
  /\ now <= MaxUnits /\ session \in Sessions /\ deaths \in 0 .. MaxDeaths
  /\ schedule.owner \in Sessions \cup {0}
  /\ worker.pc # "down" => worker.session \in Sessions
  /\ scans \subseteq Sessions

\* No slot is counted beyond the day.
LEMMA SlotsAreOfTheDay ==
  ASSUME Cycle!CycleAssumption, SlotInv, now <= MaxUnits
  PROVE  /\ schedule.slots \in [Cycle!Jobs -> -1 .. MaxUnits]
         /\ \A due \in SUBSET AnySlot : Current(due) => due \subseteq Cycle!Slot
<1>1. /\ now \in Nat /\ MaxUnits \in Nat /\ Cadence \in [Cycle!Jobs -> Nat \ {0}]
      /\ schedule.slots \in [Cycle!Jobs -> Int]
  BY DEF SlotInv, CycleTypes, Cycle!CycleAssumption
<1>2. ASSUME NEW job \in Cycle!Jobs PROVE schedule.slots[job] \in -1 .. MaxUnits
  <2>1. CASE schedule.slots[job] = -1
    BY <1>1, <2>1
  <2>2. CASE schedule.slots[job] # -1
    <3>1. PICK t \in 0 .. now : schedule.slots[job] = t \div Cadence[job]
      BY <2>2 DEF SlotInv, Together
    <3>2. t \in Nat /\ t <= MaxUnits /\ Cadence[job] \in Nat \ {0}
      BY <1>1
    <3> DEFINE i == t \div Cadence[job]
               c == Cadence[job]
    <3>3. i \in Nat /\ i * c <= t
      BY <3>2, SlotOfTime
    <3> HIDE DEF i
    <3>4. i <= i * c
      BY <3>2, <3>3
    <3>5. i \in 0 .. MaxUnits
      BY <1>1, <3>2, <3>3, <3>4
    <3>6. QED
      BY <1>1, <3>1, <3>5 DEF i
  <2>3. QED
    BY <2>1, <2>2
<1>3. ASSUME NEW due \in SUBSET AnySlot, Current(due), NEW s \in due PROVE s \in Cycle!Slot
  <2>1. s.job \in Cycle!Jobs /\ s = Last(s.job) /\ s.index >= 0
    BY <1>3 DEF Current, AnySlot
  <2>2. s.index = schedule.slots[s.job]
    BY <2>1 DEF Last
  <2>3. s.index \in 0 .. MaxUnits
    BY <1>1, <1>2, <2>1, <2>2
  <2>4. s = [job |-> s.job, index |-> s.index]
    BY <2>1, <2>2 DEF Last
  <2>5. QED
    BY <2>1, <2>3, <2>4 DEF Cycle!Slot
<1>4. QED
  BY <1>1, <1>2, <1>3

\* The session a worker works for is one that began.
LEMMA WorkersSession ==
  ASSUME SlotInv, CountTypes, [Cycle!Next]_Cycle!vars
  PROVE  worker'.pc # "down" => worker'.session \in Sessions
<1>0. CycleTypes
  BY DEF SlotInv
<1>1. PICK name : worker = [pc |-> worker.pc, session |-> name, blocked |-> worker.blocked,
                            due |-> worker.due, todo |-> worker.todo]
  BY <1>0 DEF CycleTypes
<1>2. CASE Cycle!StartWorker
  <2> DEFINE blocked == Cycle!Unmatched # {} \/ schedule.pending # {}
  <2>1. worker' = [Cycle!Down EXCEPT !.pc = "loop", !.session = session, !.blocked = blocked]
    BY <1>2 DEF Cycle!StartWorker
  <2> HIDE DEF blocked
  <2>2. worker'.session = session
    BY <2>1 DEF Cycle!Down
  <2>3. QED
    BY <2>2 DEF CountTypes
<1>3. CASE Cycle!Stop \/ Cycle!Die
  <2>1. worker' = Cycle!Down
    BY <1>3, Zenon DEF Cycle!Stop, Cycle!Die
  <2>2. QED
    BY <2>1 DEF Cycle!Down
<1>4. CASE worker' = worker
  BY <1>4 DEF CountTypes
<1>5. CASE worker.pc # "down" /\ worker'.session = worker.session
  BY <1>5 DEF CountTypes
<1>6. CASE Cycle!Choose
  <2> DEFINE blocked == worker.blocked \/ Cycle!RecoveryRequired
             due == IF schedule.pending # {}
                    THEN IF schedule.pending # {} THEN schedule.pending ELSE Cycle!Due(now)
                    ELSE Cycle!Allowed(Cycle!Due(now), now)
  <2>1. worker.pc = "loop"
        /\ worker' = [worker EXCEPT !.blocked = blocked, !.due = due, !.pc = "chosen"]
    BY <1>6 DEF Cycle!Choose, Cycle!Is
  <2> HIDE DEF blocked, due
  <2>2. worker'.session = worker.session
    BY <1>1, <2>1
  <2>3. QED
    BY <1>5, <2>1, <2>2
<1>7. ASSUME NEW pc, Cycle!Goes(pc), worker.pc # "down"
      PROVE  worker'.session \in Sessions
  BY <1>0, <1>7, GoesTo DEF CountTypes
<1>8. CASE Cycle!Skip
  <2> DEFINE next == IF worker.due = {} THEN "loop" ELSE "starting"
  <2>1. Cycle!Goes(next) /\ worker.pc # "down"
    BY <1>8 DEF Cycle!Skip, Cycle!Is
  <2>2. QED
    BY <1>7, <2>1
<1>9. CASE Cycle!TickStarted
  <2>1. Cycle!Goes("started") /\ worker.pc # "down"
    BY <1>9 DEF Cycle!TickStarted, Cycle!Is
  <2>2. QED
    BY <1>7, <2>1
<1>10. CASE Cycle!Acknowledge
  <2> DEFINE todo == Cycle!PhasesOf(worker.due, worker.blocked)
  <2>1. worker.pc = "started" /\ worker' = [worker EXCEPT !.pc = "working", !.todo = todo]
    BY <1>10 DEF Cycle!Acknowledge, Cycle!Is
  <2> HIDE DEF todo
  <2>2. worker'.session = worker.session
    BY <1>1, <2>1
  <2>3. QED
    BY <1>5, <2>1, <2>2
<1>11. CASE AtWork
  <2>1. worker'.session = worker.session /\ worker.pc # "down"
    BY <1>11, WorkKeepsSlots DEF Cycle!AtBroker
  <2>2. QED
    BY <2>1 DEF CountTypes
<1>12. CASE Outside \/ UNCHANGED Cycle!vars
  BY <1>4, <1>12, OutsideKeepsSlots
<1>13. CASE Cycle!TickAborted
  <2>1. worker'.session = worker.session /\ worker.pc # "down"
    BY <1>13, AbortKeepsSlots DEF Cycle!TickAborted, Cycle!Is
  <2>2. QED
    BY <2>1 DEF CountTypes
<1>14. QED
  BY <1>2, <1>3, <1>6, <1>8, <1>9, <1>10, <1>11, <1>12, <1>13, Zenon DEF Cycle!Next, AtWork,
     Outside

\* Every step keeps the sessions and the bounds.
LEMMA CountStep ==
  ASSUME Cycle!CycleAssumption, SlotInv, CountTypes, [Cycle!Next]_Cycle!vars
  PROVE  CountTypes'
<1>1. /\ {MaxUnits, MaxSessions, MaxDeaths} \subseteq Nat
      /\ now \in Nat /\ now <= MaxUnits /\ session \in Sessions /\ deaths \in 0 .. MaxDeaths
  BY DEF Cycle!CycleAssumption, SlotInv, CycleTypes, CountTypes
<1>2. now' <= MaxUnits /\ session' \in Sessions /\ deaths' \in 0 .. MaxDeaths
  <2>1. \/ now' = now /\ session' = session /\ deaths' = deaths
        \/ Cycle!Tick \/ Cycle!NextSession \/ Cycle!Die
    BY Zenon DEF Cycle!Next, Cycle!vars, Cycle!environment, Cycle!StartWorker, Cycle!Stop,
       Cycle!Choose, Cycle!Skip, Cycle!TickStarted, Cycle!Acknowledge,
       Cycle!TickAborted, Cycle!RecoveryRefused, Cycle!Reconcile, Cycle!ReconcileTick,
       Cycle!ClearRecovery, Cycle!Management,
       Cycle!Entry, Cycle!ScanStarted, Cycle!ScanEnded, Cycle!TickUnresolved,
       Cycle!TickFinished, Cycle!OutboxResolved
  <2>2. CASE now' = now /\ session' = session /\ deaths' = deaths
    BY <1>1, <2>2
  <2>3. CASE Cycle!Tick
    <3>1. now < MaxUnits /\ now' = now + 1 /\ session' = session /\ deaths' = deaths
      BY <2>3, Zenon DEF Cycle!Tick
    <3>2. QED
      BY <1>1, <3>1
  <2>4. CASE Cycle!NextSession
    <3>1. session < MaxSessions /\ session' = session + 1 /\ now' = now /\ deaths' = deaths
      BY <2>4, Zenon DEF Cycle!NextSession
    <3>2. QED
      BY <1>1, <3>1 DEF Sessions
  <2>5. CASE Cycle!Die
    <3>1. deaths < MaxDeaths /\ deaths' = deaths + 1 /\ now' = now /\ session' = session
      BY <2>5, Zenon DEF Cycle!Die
    <3>2. QED
      BY <1>1, <3>1
  <2>6. QED
    BY <2>1, <2>2, <2>3, <2>4, <2>5
<1>3. schedule'.owner \in Sessions \cup {0}
  <2>1. \/ schedule' = schedule
        \/ \E x : schedule' = [schedule EXCEPT !.pending = x]
        \/ \E x : schedule' = Cycle!Selected(x) /\ worker.pc # "down"
    BY Zenon DEF Cycle!Next, Cycle!vars, Cycle!environment, Cycle!StartWorker, Cycle!Stop,
       Cycle!Choose, Cycle!Skip, Cycle!TickStarted, Cycle!Acknowledge,
       Cycle!TickAborted, Cycle!RecoveryRefused, Cycle!Reconcile, Cycle!ReconcileTick,
       Cycle!ClearRecovery, Cycle!Management,
       Cycle!Entry, Cycle!ScanStarted, Cycle!ScanEnded, Cycle!TickUnresolved,
       Cycle!TickFinished, Cycle!OutboxResolved, Cycle!Tick, Cycle!NextSession, Cycle!Die,
       Cycle!Is
  <2>2. \A x : [schedule EXCEPT !.pending = x].owner = schedule.owner
    BY DEF SlotInv, CycleTypes
  <2>3. \A x : Cycle!Selected(x).owner = worker.session
    BY DEF Cycle!Selected
  <2>4. QED
    BY <2>1, <2>2, <2>3 DEF CountTypes
<1>4. scans' \subseteq Sessions
  <2>1. scans' \subseteq scans \/ (scans' = scans \cup {worker.session} /\ worker.pc # "down")
    BY DEF Cycle!Next, Cycle!vars, Cycle!environment, Cycle!StartWorker, Cycle!Stop,
       Cycle!Choose, Cycle!Skip, Cycle!TickStarted, Cycle!Acknowledge,
       Cycle!TickAborted, Cycle!RecoveryRefused, Cycle!Reconcile, Cycle!ReconcileTick,
       Cycle!ClearRecovery, Cycle!Management,
       Cycle!Entry, Cycle!ScanStarted, Cycle!ScanEnded, Cycle!TickUnresolved,
       Cycle!TickFinished, Cycle!OutboxResolved, Cycle!Tick, Cycle!NextSession, Cycle!Die,
       Cycle!Is, Cycle!Turn
  <2>2. QED
    BY <2>1 DEF CountTypes
<1>5. QED
  BY <1>2, <1>3, <1>4, WorkersSession DEF CountTypes

\* Of a tick that ended in any way, or broke off, there is a receipt that it started.
LEMMA TickTypesKept ==
  ASSUME TickTypes, receipts'.started = receipts.started,
         Ended' \cup suspect' \subseteq Ended \cup suspect \cup Cycle!StartedIds
  PROVE  TickTypes'
<1>1. ASSUME NEW id \in Cycle!StartedIds PROVE id \in Cycle!StartedIds'
  BY DEF Cycle!StartedIds
<1>2. Ended \cup suspect \subseteq Cycle!StartedIds
  BY DEF TickTypes
<1>3. Ended' \cup suspect' \subseteq Cycle!StartedIds'
  BY <1>1, <1>2
<1>4. receipts'.started \subseteq TickRecords
  BY DEF TickTypes
<1>5. QED
  BY <1>3, <1>4 DEF TickTypes

\* Every step of the cycle keeps the receipts.
LEMMA TickTypesStep ==
  ASSUME Cycle!CycleAssumption, SlotInv, CountTypes, TickTypes, [Cycle!Next]_Cycle!vars
  PROVE  TickTypes'
<1>1. PICK a, b, g, c, d :
        receipts = [started |-> a, ended |-> b, aborted |-> g, unresolved |-> c,
                    reconciled |-> d]
  BY DEF SlotInv, CycleTypes
<1>2. CASE /\ receipts' = receipts
           /\ suspect' \subseteq suspect \/ (Cycle!AtBroker /\ suspect' = suspect \cup {Cycle!Mine})
  <2>1. receipts'.started = receipts.started /\ Ended' = Ended
    BY <1>2 DEF Ended
  <2>2. suspect' \subseteq suspect \cup Cycle!StartedIds
    BY <1>2, MineIsStarted
  <2>3. Ended' \cup suspect' \subseteq Ended \cup suspect \cup Cycle!StartedIds
    BY <2>1, <2>2
  <2>4. QED
    BY <2>1, <2>3, TickTypesKept
<1>3. CASE Cycle!StartWorker \/ Cycle!Stop
  BY <1>2, <1>3, Zenon DEF Cycle!StartWorker, Cycle!Stop
<1>4. CASE Cycle!Die
  <2>1. receipts' = receipts
        /\ suspect' = IF Cycle!AtBroker THEN suspect \cup {Cycle!Mine} ELSE suspect
    BY <1>4, Zenon DEF Cycle!Die
  <2>2. QED
    BY <1>2, <2>1
<1>5. CASE Cycle!Choose \/ Cycle!Skip \/ Cycle!Acknowledge
  <2>1. receipts' = receipts /\ suspect' = suspect
    BY <1>5, Zenon DEF Cycle!Choose, Cycle!Skip, Cycle!Acknowledge
  <2>2. QED
    BY <1>2, <2>1
<1>6. CASE Cycle!TickStarted
  <2>1. /\ receipts' = [receipts EXCEPT !.started =
                          receipts.started \cup {[id |-> Cycle!Mine, slots |-> worker.due]}]
        /\ suspect' = suspect /\ worker.pc = "starting"
    BY <1>6 DEF Cycle!TickStarted, Cycle!Is
  <2>2. /\ receipts'.started = receipts.started \cup {Receipt}
        /\ receipts'.ended = receipts.ended /\ receipts'.unresolved = receipts.unresolved
        /\ receipts'.aborted = receipts.aborted
        /\ receipts'.reconciled = receipts.reconciled
    BY <1>1, <2>1 DEF Receipt
  <2>3. worker.due \subseteq AnySlot /\ worker.due # {} /\ Current(worker.due)
        /\ now <= MaxUnits /\ worker.session \in Sessions /\ MaxUnits \in Nat
    BY <2>1 DEF SlotInv, CycleTypes, Follows, CountTypes, Cycle!CycleAssumption
  <2>4. worker.due \subseteq Cycle!Slot
    BY <2>3, SlotsAreOfTheDay
  <2>5. Cycle!Mine[2] \in 0 .. MaxUnits
    <3>1. PICK s \in worker.due : Cycle!Mine[2] = s.index
      BY <2>3, MineIsHighest
    <3>2. s \in Cycle!Slot
      BY <2>4
    <3>3. QED
      BY <3>1, <3>2 DEF Cycle!Slot
  <2>6. Cycle!Mine = <<worker.session, Cycle!Mine[2]>>
    BY DEF Cycle!Mine, Cycle!TickId
  <2>7. Cycle!Mine \in Cycle!Ids
    BY <2>3, <2>5, <2>6 DEF Cycle!Ids, Sessions
  <2>8. Receipt \in TickRecords
    BY <2>4, <2>7 DEF Receipt, TickRecords
  <2>9. receipts'.started \subseteq TickRecords
    BY <2>2, <2>8 DEF TickTypes
  <2>10. ASSUME NEW id \in Cycle!StartedIds PROVE id \in Cycle!StartedIds'
    BY <2>2 DEF Cycle!StartedIds
  <2>11. Ended' = Ended
    BY <2>2 DEF Ended
  <2>12. QED
    BY <2>1, <2>9, <2>10, <2>11 DEF TickTypes
<1>7. CASE AtWork
  <2>1. receipts'.started = receipts.started /\ Cycle!Mine \in Cycle!StartedIds
    BY <1>7, WorkKeepsSlots, MineIsStarted
  <2>2. Cycle!Unmatched \subseteq Cycle!StartedIds
    BY DEF Cycle!Unmatched
  <2>3. /\ \/ receipts' = receipts
           \/ \E id \in Cycle!Unmatched :
                receipts' = [receipts EXCEPT !.reconciled = receipts.reconciled \cup {id}]
           \/ receipts' = [receipts EXCEPT !.unresolved = receipts.unresolved \cup {Cycle!Mine}]
           \/ receipts' = [receipts EXCEPT !.ended = receipts.ended \cup {Cycle!Mine}]
        /\ suspect' \in {suspect, {}, suspect \cup {Cycle!Mine}}
    BY <1>7, Zenon DEF AtWork, Cycle!RecoveryRefused, Cycle!Reconcile, Cycle!ReconcileTick,
       Cycle!ClearRecovery, Cycle!Management, Cycle!Entry, Cycle!ScanStarted,
       Cycle!ScanEnded, Cycle!TickUnresolved, Cycle!TickFinished
  <2>4. \/ receipts' = receipts
        \/ \E id \in Cycle!StartedIds :
             receipts' = [started |-> a, ended |-> b, aborted |-> g, unresolved |-> c,
                          reconciled |-> d \cup {id}]
        \/ receipts' = [started |-> a, ended |-> b, aborted |-> g,
                        unresolved |-> c \cup {Cycle!Mine}, reconciled |-> d]
        \/ receipts' = [started |-> a, ended |-> b \cup {Cycle!Mine}, aborted |-> g,
                        unresolved |-> c, reconciled |-> d]
    BY <1>1, <2>2, <2>3
  <2>5. Ended = b \cup g \cup c \cup d
    BY <1>1 DEF Ended
  <2>6. \/ Ended' = Ended
        \/ \E id \in Cycle!StartedIds : Ended' = b \cup g \cup c \cup (d \cup {id})
        \/ Ended' = b \cup g \cup (c \cup {Cycle!Mine}) \cup d
        \/ Ended' = (b \cup {Cycle!Mine}) \cup g \cup c \cup d
    BY <2>4 DEF Ended
  <2>7. Ended' \cup suspect' \subseteq Ended \cup suspect \cup Cycle!StartedIds
    BY <2>1, <2>3, <2>5, <2>6
  <2>8. QED
    BY <2>1, <2>7, TickTypesKept
<1>8. CASE Outside \/ UNCHANGED Cycle!vars
  BY <1>2, <1>8, OutsideKeepsSlots
<1>9. CASE Cycle!TickAborted
  <2>1. /\ receipts'.started = receipts.started /\ receipts'.ended = receipts.ended
        /\ receipts'.aborted = receipts.aborted \cup {Cycle!Mine}
        /\ receipts'.unresolved = receipts.unresolved
        /\ receipts'.reconciled = receipts.reconciled /\ suspect' = suspect
    BY <1>9, AbortKeepsSlots
  <2>2. Cycle!Mine \in Cycle!StartedIds
    <3>1. Receipt \in receipts.started
      BY <1>9 DEF Cycle!TickAborted, Cycle!Is, SlotInv, Follows
    <3>2. Receipt.id = Cycle!Mine
      BY DEF Receipt
    <3>3. QED
      BY <3>1, <3>2 DEF Cycle!StartedIds
  <2>3. Ended' \cup suspect' \subseteq Ended \cup suspect \cup Cycle!StartedIds
    BY <2>1, <2>2 DEF Ended
  <2>4. QED
    BY <2>1, <2>3, TickTypesKept
<1>10. QED
  BY <1>3, <1>4, <1>5, <1>6, <1>7, <1>8, <1>9, Zenon DEF Cycle!Next, AtWork, Outside

\* What the invariants say of the types is what the run checks.
LEMMA CycleTyped ==
  Cycle!CycleAssumption /\ SlotInv /\ CountTypes /\ TickTypes => Cycle!TypeOK
<1>1. SUFFICES ASSUME Cycle!CycleAssumption, SlotInv, CountTypes, TickTypes
               PROVE  Cycle!TypeOK
  OBVIOUS
<1>2. /\ now \in Nat /\ schedule.pending \subseteq AnySlot /\ Current(schedule.pending)
      /\ worker.pc \in Steps
      /\ {MaxUnits, MaxSessions, MaxDeaths} \subseteq Nat
  BY <1>1 DEF SlotInv, CycleTypes, Cycle!CycleAssumption
<1>3. now <= MaxUnits /\ session \in Sessions /\ deaths \in 0 .. MaxDeaths
      /\ schedule.owner \in Sessions \cup {0} /\ scans \subseteq Sessions
  BY <1>1 DEF CountTypes
<1>4. now \in 0 .. MaxUnits /\ schedule.owner \in 0 .. MaxSessions
  BY <1>2, <1>3 DEF Sessions
<1>5. schedule.slots \in [Cycle!Jobs -> -1 .. MaxUnits] /\ schedule.pending \subseteq Cycle!Slot
  BY <1>1, <1>2, <1>3, SlotsAreOfTheDay
<1>6. /\ receipts.started \subseteq TickRecords
      /\ Ended \subseteq Cycle!StartedIds /\ suspect \subseteq Cycle!StartedIds
  BY <1>1 DEF TickTypes
<1>7. QED
  BY <1>2, <1>3, <1>4, <1>5, <1>6, Zenon
     DEF Cycle!TypeOK, TickRecords, Ended, Sessions, Steps

\* A new day has them.
LEMMA CycleTypesBegin ==
  Cycle!CycleAssumption /\ Cycle!Init => SlotInv /\ CountTypes /\ TickTypes
<1>1. SUFFICES ASSUME Cycle!CycleAssumption, Cycle!Init PROVE CountTypes /\ TickTypes
  BY SlotBegins
<1>2. /\ MaxUnits \in Nat /\ MaxSessions \in Nat \ {0} /\ MaxDeaths \in Nat
      /\ now = 0 /\ session = 1 /\ deaths = 0 /\ schedule.owner = 0 /\ scans = {}
      /\ worker.pc = "down" /\ suspect = {}
      /\ receipts = [started |-> {}, ended |-> {}, aborted |-> {}, unresolved |-> {},
                     reconciled |-> {}]
  BY <1>1 DEF Cycle!CycleAssumption, Cycle!Init, Cycle!Down
<1>3. CountTypes
  BY <1>2 DEF CountTypes, Sessions
<1>4. TickTypes
  BY <1>2 DEF TickTypes, Ended
<1>5. QED
  BY <1>3, <1>4

\* A process that does nothing holds no reservation.
IdleHoldsNothing == \A w \in Workers : client[w].pc = "idle" => client[w].id = 0
PacingTypes == clock <= MaxClock /\ IdleHoldsNothing

\* One process changes; the others do as before.
LEMMA ClientReleased ==
  ASSUME IdleHoldsNothing, client \in [Workers -> Client], NEW w \in Workers, NEW c,
         client' = [client EXCEPT ![w] = c], c.pc = "idle" => c.id = 0
  PROVE  IdleHoldsNothing'
<1>1. \A v \in Workers : client'[v] = IF v = w THEN c ELSE client[v]
  OBVIOUS
<1>2. QED
  BY <1>1 DEF IdleHoldsNothing

\* Back at its start a process holds no reservation.
LEMMA BackIs ==
  ASSUME client \in [Workers -> Client], NEW w \in Workers
  PROVE  Pacing!Back(w).id = 0
<1>1. client[w] \in Client
  OBVIOUS
<1>2. QED
  BY <1>1 DEF Client, Pacing!Back

\* Every step of the ledger keeps that.
LEMMA PacingTypesStep ==
  ASSUME Pacing!PacingAssumption, QuotaInv, PacingTypes, [Pacing!Next]_Pacing!vars
  PROVE  PacingTypes'
<1>1. /\ clock \in Nat /\ MaxClock \in Nat /\ clock <= MaxClock /\ IdleHoldsNothing
      /\ client \in [Workers -> Client]
  BY QuotaFacts DEF PacingTypes, Pacing!PacingAssumption
<1>2. CASE client' = client /\ (clock' = clock \/ Pacing!Tick)
  <2>1. IdleHoldsNothing'
    BY <1>1, <1>2 DEF IdleHoldsNothing
  <2>2. clock' <= MaxClock
    BY <1>1, <1>2 DEF Pacing!Tick
  <2>3. QED
    BY <2>1, <2>2 DEF PacingTypes
<1>3. ASSUME NEW w \in Workers, NEW c, client' = [client EXCEPT ![w] = c],
             c.pc = "idle" => c.id = 0, clock' = clock
      PROVE  PacingTypes'
  BY <1>1, <1>3, ClientReleased DEF PacingTypes
<1>4. ASSUME NEW w \in Workers,
             \/ Pacing!AcquireShared(w) \/ Pacing!AcquireForScan(w)
      PROVE  PacingTypes'
  <2>1. PICK priority, scanning, t : Pacing!Acquire(w, priority, scanning, t)
    BY <1>4 DEF Pacing!AcquireShared, Pacing!AcquireForScan
  <2>2. /\ clock' = clock
        /\ \/ client' = client
           \/ client' = [client EXCEPT ![w].pc = "waiting", ![w].id = Len(reservations'),
                                       ![w].scans = scanning]
    BY <2>1, Zenon DEF Pacing!Acquire
  <2>3. CASE client' = client
    BY <1>2, <2>2, <2>3
  <2>4. CASE client' = [client EXCEPT ![w].pc = "waiting", ![w].id = Len(reservations'),
                                       ![w].scans = scanning]
    <3> DEFINE c == [client[w] EXCEPT !.pc = "waiting", !.id = Len(reservations'),
                                      !.scans = scanning]
    <3>1. client[w] \in Client
      BY <1>1
    <3>2. c.pc = "waiting"
      BY <3>1 DEF Client
    <3>3. client' = [client EXCEPT ![w] = c]
      BY <1>1, <2>4
    <3> HIDE DEF c
    <3>4. QED
      BY <1>3, <2>2, <3>2, <3>3
  <2>5. QED
    BY <2>2, <2>3, <2>4
<1>5. ASSUME NEW w \in Workers, Pacing!LocalBudgetRefuses(w) \/ Pacing!WriteCommit(w)
      PROVE  PacingTypes'
  <2>1. client' = [client EXCEPT ![w] = Pacing!Back(w)] /\ clock' = clock
    BY <1>5, Zenon DEF Pacing!LocalBudgetRefuses, Pacing!WriteCommit
  <2>2. QED
    BY <1>1, <1>3, <2>1, BackIs
<1>6. ASSUME NEW w \in Workers, Pacing!ReadCommit(w) PROVE PacingTypes'
  <2> DEFINE t == IF client[w].scans THEN client[w].scan ELSE clock
             c == IF Pacing!Reap(reservations, t)[client[w].id].state = "ACTIVE"
                  THEN [client[w] EXCEPT !.pc = "write", !.clock = t]
                  ELSE Pacing!Back(w)
  <2>1. client' = [client EXCEPT ![w] = c] /\ clock' = clock
    BY <1>6 DEF Pacing!ReadCommit
  <2>2. client[w] \in Client
    BY <1>1
  <2>3. [client[w] EXCEPT !.pc = "write", !.clock = t].pc = "write"
    BY <2>2 DEF Client
  <2>4. c.pc = "idle" => c.id = 0
    BY <1>1, <2>3, BackIs
  <2> HIDE DEF c
  <2>5. QED
    BY <1>3, <2>1, <2>4
<1>7. ASSUME NEW w \in Workers, NEW c, client' = [client EXCEPT ![w] = c], clock' = clock,
             c.pc = client[w].pc, c.id = client[w].id
      PROVE  PacingTypes'
  BY <1>1, <1>3, <1>7 DEF IdleHoldsNothing
<1>8. ASSUME NEW w \in Workers,
             \/ Pacing!BeginScan(w) \/ Pacing!EndScan(w) \/ Pacing!PreparePhase2(w)
             \/ Pacing!DrawEstimate(w) \/ Pacing!FinishPhase2(w)
      PROVE  PacingTypes'
  <2>1. /\ clock' = clock
        /\ \/ client' = client
           \/ client' = [client EXCEPT ![w].scan = clock]
           \/ client' = [client EXCEPT ![w].scan = None]
           \/ client' = [client EXCEPT ![w].probe = Len(reservations'), ![w].used = 0]
           \/ client' = [client EXCEPT ![w].used = @ + 1]
           \/ client' = [client EXCEPT ![w].probe = 0, ![w].used = 0]
    BY <1>8, Zenon DEF Pacing!BeginScan, Pacing!EndScan, Pacing!PreparePhase2,
       Pacing!DrawEstimate, Pacing!FinishPhase2
  <2> DEFINE next == {[client[w] EXCEPT !.scan = clock], [client[w] EXCEPT !.scan = None],
                      [client[w] EXCEPT !.probe = Len(reservations'), !.used = 0],
                      [client[w] EXCEPT !.used = client[w].used + 1],
                      [client[w] EXCEPT !.probe = 0, !.used = 0]}
  <2>2. client' = client \/ \E c \in next : client' = [client EXCEPT ![w] = c]
    BY <1>1, <2>1
  <2>3. client[w] \in Client
    BY <1>1
  <2>4. \A c \in next : c.pc = client[w].pc /\ c.id = client[w].id
    BY <2>3 DEF Client
  <2> HIDE DEF next
  <2>5. QED
    BY <1>2, <1>7, <2>1, <2>2, <2>4
<1>9. ASSUME NEW w \in Workers, Pacing!Penalize(w) \/ Pacing!Dies(w) PROVE PacingTypes'
  <2>1. CASE Pacing!Penalize(w)
    BY <1>2, <2>1, Zenon DEF Pacing!Penalize
  <2>2. CASE Pacing!Dies(w)
    <3>1. client' = [client EXCEPT ![w] = Pacing!Idle] /\ clock' = clock
      BY <2>2, Zenon DEF Pacing!Dies
    <3>2. Pacing!Idle.id = 0
      BY DEF Pacing!Idle
    <3>3. QED
      BY <1>3, <3>1, <3>2
  <2>3. QED
    BY <1>9, <2>1, <2>2
<1>10. CASE Pacing!Tick \/ UNCHANGED Pacing!vars
  <2>1. client' = client /\ (clock' = clock \/ Pacing!Tick)
    BY <1>10, Zenon DEF Pacing!Tick, Pacing!vars
  <2>2. QED
    BY <1>2, <2>1
<1>11. QED
  BY <1>4, <1>5, <1>6, <1>8, <1>9, <1>10, Zenon DEF Pacing!Next

\* The invariant has the types of the ledger.
LEMMA PacingTyped == Pacing!PacingAssumption /\ QuotaInv /\ PacingTypes => Pacing!TypeOK
<1>1. SUFFICES ASSUME Pacing!PacingAssumption, QuotaInv, PacingTypes PROVE Pacing!TypeOK
  OBVIOUS
<1>2. /\ clock \in 0 .. MaxClock
      /\ reservations \in Seq(Row) /\ Len(reservations) \in Nat
  BY <1>1, QuotaFacts DEF PacingTypes, Pacing!PacingAssumption
<1>3. ASSUME NEW w \in Workers PROVE client[w].id \in 0 .. Len(reservations)
  <2>1. CASE client[w].pc = "idle"
    BY <1>1, <1>2, <2>1 DEF PacingTypes, IdleHoldsNothing
  <2>2. CASE client[w].pc # "idle"
    BY <1>1, <1>2, <2>2, QuotaFacts DEF ClientInv
  <2>3. QED
    BY <2>1, <2>2
<1>4. QED
  BY <1>2, <1>3 DEF Pacing!TypeOK, Row

\* A new ledger has them.
LEMMA PacingTypesBegin == Pacing!PacingAssumption /\ Pacing!Init => PacingTypes
<1>1. QED
  BY DEF Pacing!PacingAssumption, Pacing!Init, Pacing!Idle, PacingTypes, IdleHoldsNothing

\* The state of each part has its type, for any number of controllers, processes,
\* sessions, starts, stops, timeouts and deaths and any cadences and limits.
THEOREM TypesStayCorrect == MCSpec => []Types
<1> DEFINE CycleInv == SlotInv /\ CountTypes /\ TickTypes
           LimitsInv == QuotaInv /\ PacingTypes
           TypesInv == /\ DayInv
                       /\ part = "cycle" => CycleInv
                       /\ part = "pacing" => LimitsInv
<1>1. Cycle!CycleAssumption /\ Pacing!PacingAssumption
  BY SessionAssumption
<1>2. MCInit => TypesInv
  BY <1>1, DayStarts, CycleTypesBegin, QuotaBegins, PacingTypesBegin DEF MCInit
<1>3. TypesInv /\ [MCNext]_everything => TypesInv'
  <2>1. SUFFICES ASSUME TypesInv, [MCNext]_everything PROVE TypesInv'
    OBVIOUS
  <2>2. [Next]_vars /\ part' = part
    BY <2>1 DEF MCNext, everything
  <2>3. DayInv'
    BY <2>1, <2>2, DayStep
  <2>4. ASSUME part = "cycle" PROVE CycleInv'
    <3>1. [Cycle!Next]_Cycle!vars
      BY <2>1, <2>4 DEF MCNext, everything, autoCycle, Cycle!vars
    <3>2. SlotInv /\ CountTypes /\ TickTypes
      BY <2>1, <2>4
    <3>3. QED
      BY <1>1, <3>1, <3>2, SlotStep, CountStep, TickTypesStep
  <2>5. ASSUME part = "pacing" PROVE LimitsInv'
    <3>1. [Pacing!Next]_Pacing!vars
      BY <2>1, <2>5 DEF MCNext, everything, pacingLedger, Pacing!vars
    <3>2. QuotaInv /\ PacingTypes
      BY <2>1, <2>5
    <3>3. QED
      BY <1>1, <3>1, <3>2, QuotaStep, PacingTypesStep
  <2>6. QED
    BY <2>2, <2>3, <2>4, <2>5
<1>4. TypesInv => Types
  BY <1>1, DayTyped, CycleTyped, PacingTyped DEF Types
<1>5. QED
  BY <1>2, <1>3, <1>4, PTL DEF MCSpec
=============================================================================
