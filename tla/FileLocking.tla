----------------------------- MODULE FileLocking -----------------------------
(***************************************************************************)
(* One lock file of collabkit/locking.py and the processes that want it:   *)
(* FileLock, which waits and breaks a stale lock, or SingletonLock, which  *)
(* never waits.  The file is created with O_EXCL, its owner payload is     *)
(* written afterwards, and every unlink removes whatever is at the path by *)
(* then.                                                                   *)
(***************************************************************************)
EXTENDS Integers, FiniteSets

CONSTANTS
  Process,     \* processes on one path
  Host,        \* the machine of each
  Singleton,   \* TRUE: SingletonLock; FALSE: FileLock
  LongHolds,   \* whether a live holder may stay past the TTL
  MaxCrashes,  \* bound: deaths over the whole run
  MaxStuck,    \* bound: unlinks a sharing violation defeats (Windows)
  NoFile

LockFile == [by : Process, life : 0 .. MaxCrashes, named : BOOLEAN, old : BOOLEAN]

LockingAssumption ==
  /\ Singleton \in BOOLEAN
  /\ LongHolds \in BOOLEAN
  /\ MaxCrashes \in Nat
  /\ MaxStuck \in Nat
  /\ NoFile \notin LockFile

VARIABLES
  file,     \* the lock file: who created it, in which life, whether its payload
            \* parses, whether its mtime is past the TTL
  pc,
  life,     \* pids: a restarted process is another owner
  crashes,
  stuck,
  overtaken,  \* history: processes about to break the lock, at whose path a new file
              \* was created since they looked at it
  robbed      \* history: processes in their critical section whose lock file went by
              \* a name: see Robbed

vars == <<file, pc, life, crashes, stuck, overtaken, robbed>>
history == <<overtaken, robbed>>

PCs == {"down", "idle", "try", "created", "held", "stat", "read", "break",
        "wait", "retry", "truncate", "backdate"}

TypeOK ==
  /\ file \in LockFile \cup {NoFile}
  /\ pc \in [Process -> PCs]
  /\ life \in [Process -> 0 .. MaxCrashes]
  /\ crashes \in 0 .. MaxCrashes
  /\ stuck \in 0 .. MaxStuck
  /\ overtaken \in SUBSET Process
  /\ robbed \in SUBSET Process

Init ==
  /\ file = NoFile
  /\ pc = [p \in Process |-> "idle"]
  /\ life = [p \in Process |-> 0]
  /\ crashes = 0
  /\ stuck = 0
  /\ overtaken = {}
  /\ robbed = {}

Goto(p, to) == pc' = [pc EXCEPT ![p] = to]

\* _pid_alive, of the pid in the payload.
Alive(f) == pc[f.by] # "down" /\ life[f.by] = f.life

Owns(p) == file # NoFile /\ file.by = p /\ file.life = life[p]

\* Who depends on the file at the path: its creator, between open() and release().
Owners == {p \in Process : Owns(p) /\ pc[p] \in {"created", "held"}}

\* Between its look at the file's age and the unlink.
Breaking(p) == pc[p] \in {"read", "break"}

-----------------------------------------------------------------------------
(* Time, deaths and restarts *)

\* The mtime passes the TTL (300 s by default).  A live creator has written its
\* payload long before; whether it may still be in its critical section is up to
\* the caller.
Age ==
  /\ file # NoFile
  /\ ~file.old
  /\ Alive(file) => LongHolds /\ pc[file.by] # "created"
  /\ file' = [file EXCEPT !.old = TRUE]
  /\ UNCHANGED <<pc, life, crashes, stuck, history>>

Crash(p) ==
  /\ pc[p] # "down"
  /\ crashes < MaxCrashes
  /\ crashes' = crashes + 1
  /\ Goto(p, "down")
  /\ overtaken' = overtaken \ {p}
  /\ robbed' = robbed \ {p}
  /\ UNCHANGED <<file, life, stuck>>

Restart(p) ==
  /\ pc[p] = "down"
  /\ life' = [life EXCEPT ![p] = @ + 1]
  /\ Goto(p, "idle")
  /\ UNCHANGED <<file, crashes, stuck, history>>

-----------------------------------------------------------------------------
(* Creating the file *)

Ask(p) ==
  /\ pc[p] = "idle"
  /\ Goto(p, "try")
  /\ UNCHANGED <<file, life, crashes, stuck, history>>

\* _try_acquire: O_CREAT | O_EXCL.  SingletonLock has one more try after it
\* broke a stale lock, and gives up if that fails too.
TryAcquire(p) ==
  /\ pc[p] \in {"try", "retry"}
  /\ IF file = NoFile
     THEN /\ file' = [by |-> p, life |-> life[p], named |-> FALSE, old |-> FALSE]
          /\ overtaken' = {q \in Process : Breaking(q)}
          /\ Goto(p, "created")
     ELSE /\ UNCHANGED <<file, overtaken>>
          /\ Goto(p, IF pc[p] = "retry" THEN "idle"
                     ELSE IF Singleton THEN "read" ELSE "stat")
  /\ UNCHANGED <<life, crashes, stuck, robbed>>

\* os.write of the payload, through the descriptor: it misses the path when the
\* file has been unlinked since.
WritePayload(p) ==
  /\ pc[p] = "created"
  /\ file' = IF Owns(p) THEN [file EXCEPT !.named = TRUE] ELSE file
  /\ Goto(p, "held")
  /\ UNCHANGED <<life, crashes, stuck, history>>

-----------------------------------------------------------------------------
(* Breaking a stale one *)

\* Mutant of Stat: the payload is read whatever the age of the file.
StatOfAnyAge(p) ==
  /\ pc[p] = "stat"
  /\ Goto(p, IF file = NoFile THEN "try" ELSE "read")
  /\ UNCHANGED <<file, life, crashes, stuck, history>>

\* stat: a vanished file is retried at once, a young one waited for.
Stat(p) ==
  /\ pc[p] = "stat"
  /\ Goto(p, IF file = NoFile THEN "try" ELSE IF file.old THEN "read" ELSE "wait")
  /\ UNCHANGED <<file, life, crashes, stuck, history>>

\* Mutant of Stale: a file whose payload does not parse is left alone.
StaleIfNamed(p, f) ==
  f = NoFile \/ (f.named /\ (IF Host[f.by] = Host[p] THEN ~Alive(f) ELSE ~Singleton))

\* Whether the payload a waiter reads is that of a corpse.  FileLock takes a lock
\* of another host for stale once it is past the TTL, SingletonLock never does;
\* both take an unreadable payload for stale.
Stale(p, f) ==
  \/ f = NoFile
  \/ ~f.named
  \/ IF Host[f.by] = Host[p] THEN ~Alive(f) ELSE ~Singleton

ReadOwner(p) ==
  /\ pc[p] = "read"
  /\ IF Stale(p, file)
     THEN /\ Goto(p, "break")
          /\ UNCHANGED overtaken
     ELSE /\ Goto(p, IF Singleton THEN "idle" ELSE "wait")
          /\ overtaken' = overtaken \ {p}
  /\ UNCHANGED <<file, life, crashes, stuck, robbed>>

\* An unlink, a truncation or a back-dating acts on the path: its owner is robbed if
\* that is not the file the process means, because another was created there since, or
\* is one of another machine, whose pids nobody here can probe.
Robbed(p) ==
  IF Breaking(p) /\ p \notin overtaken /\ (file # NoFile => Host[file.by] = Host[p])
  THEN {}
  ELSE Owners \ {p}

\* unlink whatever the path names now.
Break(p) ==
  /\ pc[p] = "break"
  /\ file' = NoFile
  /\ robbed' = robbed \cup Robbed(p)
  /\ overtaken' = overtaken \ {p}
  /\ Goto(p, IF Singleton THEN "retry" ELSE IF file = NoFile THEN "wait" ELSE "try")
  /\ UNCHANGED <<life, crashes, stuck>>

\* Sleep and poll again, or LockTimeout.
Wait(p) ==
  /\ pc[p] = "wait"
  /\ Goto(p, "try") \/ Goto(p, "idle")
  /\ UNCHANGED <<file, life, crashes, stuck, history>>

-----------------------------------------------------------------------------
(* Releasing *)

Release(p) ==
  /\ pc[p] = "held"
  /\ file' = NoFile
  /\ robbed' = (robbed \cup Robbed(p)) \ {p}
  /\ Goto(p, "idle")
  /\ UNCHANGED <<life, crashes, stuck, overtaken>>

\* Mutant of ReleaseStuck: no limit on the unlinks that fail.
ReleaseStuckForever(p) ==
  /\ pc[p] = "held"
  /\ file # NoFile
  /\ stuck' = stuck + 1
  /\ robbed' = robbed \ {p}
  /\ Goto(p, "truncate")
  /\ UNCHANGED <<file, life, crashes, overtaken>>

\* _unlink_with_retry gives up: the file is emptied, then back-dated.
ReleaseStuck(p) ==
  /\ pc[p] = "held"
  /\ file # NoFile
  /\ stuck < MaxStuck
  /\ stuck' = stuck + 1
  /\ robbed' = robbed \ {p}
  /\ Goto(p, "truncate")
  /\ UNCHANGED <<file, life, crashes, overtaken>>

Truncate(p) ==
  /\ pc[p] = "truncate"
  /\ IF file = NoFile
     THEN /\ file' = [by |-> p, life |-> life[p], named |-> FALSE, old |-> FALSE]
          /\ overtaken' = {q \in Process : Breaking(q)}
     ELSE /\ file' = [file EXCEPT !.named = FALSE, !.old = FALSE]
          /\ UNCHANGED overtaken
  /\ robbed' = robbed \cup Robbed(p)
  /\ Goto(p, "backdate")
  /\ UNCHANGED <<life, crashes, stuck>>

Backdate(p) ==
  /\ pc[p] = "backdate"
  /\ file' = IF file = NoFile THEN file ELSE [file EXCEPT !.old = TRUE]
  /\ robbed' = robbed \cup Robbed(p)
  /\ Goto(p, "idle")
  /\ UNCHANGED <<life, crashes, stuck, overtaken>>

-----------------------------------------------------------------------------
Run(p) ==
  \/ Ask(p)
  \/ TryAcquire(p)
  \/ WritePayload(p)
  \/ Stat(p)
  \/ ReadOwner(p)
  \/ Break(p)
  \/ Wait(p)
  \/ Release(p)
  \/ ReleaseStuck(p)
  \/ Truncate(p)
  \/ Backdate(p)

Next == Age \/ \E p \in Process : Run(p) \/ Crash(p) \/ Restart(p)

Spec == Init /\ [][Next]_vars

\* Time passes, a process that wants the lock keeps polling, and one that holds
\* it ends its critical section.
FairSpec == Spec /\ WF_vars(Age) /\ \A p \in Process : WF_vars(Run(p))

-----------------------------------------------------------------------------
(* Properties *)

Holds(p) == pc[p] = "held"

\* "Exclusive advisory lock" (FileLock): through long holds, stale verdicts, deaths,
\* restarts and defeated unlinks there is one holder at a time, but for one whose file
\* another process took by its name: a waiter that judged an earlier file stale, one of
\* another machine that judged it by its age alone, or a process whose own file was gone
\* when it released.  A waiter never takes the lock it looked at from a live holder of
\* its machine, however long the hold.
MutualExclusion ==
  \A p, q \in Process : Holds(p) /\ Holds(q) /\ p # q => {p, q} \cap robbed # {}

\* A lock file nobody holds any more, its owner dead or its unlink defeated, does
\* not stay: "a lock nobody can ever release is worse than no lock".
Abandoned ==
  /\ file # NoFile
  /\ ~ \E p \in Process :
        Owns(p) /\ pc[p] \in {"created", "held", "truncate", "backdate"}

CorpsesAreReclaimed == Abandoned ~> ~Abandoned

=============================================================================
