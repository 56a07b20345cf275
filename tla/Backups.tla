------------------------------- MODULE Backups -------------------------------
(***************************************************************************)
(* BACKUP commands of the job threads (run_job in main.c, kvs_backup in    *)
(* operations.c).  A backup is a forked child.  Job threads count backups  *)
(* in active_backups up to max_backups; from then on each of them reaps a  *)
(* child before it forks the next one, holding the lock while it waits.    *)
(***************************************************************************)
EXTENDS Integers, FiniteSets

CONSTANTS
  Jobs,        \* the job threads (max_threads of them)
  max_backups,
  NoJob

ASSUME JobAssumption    == IsFiniteSet(Jobs) /\ Jobs # {} /\ NoJob \notin Jobs
ASSUME BackupAssumption == max_backups \in Nat \ {0}

VARIABLES
  jpc,            \* where each job thread is
  lock,           \* the holder of n_current_backups_lock
  active_backups,
  running,        \* children at work
  zombies         \* children that ended and were not waited for

vars == <<jpc, lock, active_backups, running, zombies>>

Init ==
  /\ jpc = [j \in Jobs |-> "job"]
  /\ lock = NoJob
  /\ active_backups = 0
  /\ running = 0 /\ zombies = 0

Goto(j, place) == jpc' = [jpc EXCEPT ![j] = place]

\* The job file has a BACKUP command.
Backup(j) ==
  /\ jpc[j] = "job"
  /\ Goto(j, "lock")
  /\ UNCHANGED <<lock, active_backups, running, zombies>>

\* Mutant: the limit is exceeded by one.
BackupLock_OffByOne(j) ==
  /\ jpc[j] = "lock" /\ lock = NoJob
  /\ lock' = j
  /\ IF active_backups > max_backups
     THEN Goto(j, "wait") /\ UNCHANGED active_backups
     ELSE Goto(j, "unlock") /\ active_backups' = active_backups + 1
  /\ UNCHANGED <<running, zombies>>

\* Below the limit a backup is counted; at the limit a child must be reaped.
BackupLock(j) ==
  /\ jpc[j] = "lock" /\ lock = NoJob
  /\ lock' = j
  /\ IF active_backups >= max_backups
     THEN Goto(j, "wait") /\ UNCHANGED active_backups
     ELSE Goto(j, "unlock") /\ active_backups' = active_backups + 1
  /\ UNCHANGED <<running, zombies>>

\* Mutant: WNOHANG, the wait does not wait.
BackupWait_NoHang(j) ==
  /\ jpc[j] = "wait"
  /\ zombies' = IF zombies > 0 THEN zombies - 1 ELSE 0
  /\ Goto(j, "unlock")
  /\ UNCHANGED <<lock, active_backups, running>>

\* wait(NULL) reaps a child that ended, or fails at once when the process has
\* no child at all; its result is not looked at.
BackupWait(j) ==
  /\ jpc[j] = "wait"
  /\ \/ zombies > 0 /\ zombies' = zombies - 1
     \/ zombies = 0 /\ running = 0 /\ UNCHANGED zombies
  /\ Goto(j, "unlock")
  /\ UNCHANGED <<lock, active_backups, running>>

\* Mutant: the unlock is missing.
BackupUnlock_Missing(j) ==
  /\ jpc[j] = "unlock"
  /\ Goto(j, "fork")
  /\ UNCHANGED <<lock, active_backups, running, zombies>>

BackupUnlock(j) ==
  /\ jpc[j] = "unlock"
  /\ lock' = NoJob
  /\ Goto(j, "fork")
  /\ UNCHANGED <<active_backups, running, zombies>>

\* kvs_backup: fork, outside the lock.  A fork that fails is only reported; the
\* count of backups keeps it.
BackupFork(j) ==
  /\ jpc[j] = "fork"
  /\ running' \in {running, running + 1}
  /\ Goto(j, "job")
  /\ UNCHANGED <<lock, active_backups, zombies>>

\* The child has written its copy of the table.
ChildExit ==
  /\ running > 0
  /\ running' = running - 1
  /\ zombies' = zombies + 1
  /\ UNCHANGED <<jpc, lock, active_backups>>

JobStep(j) == BackupLock(j) \/ BackupWait(j) \/ BackupUnlock(j) \/ BackupFork(j)

Next == ChildExit \/ \E j \in Jobs : Backup(j) \/ JobStep(j)

Spec == Init /\ [][Next]_vars

\* A job thread keeps running and gets a mutex that is released again and again;
\* a child ends, its table is finite.  BACKUP commands need not come.
FairSpec == Spec /\ (\A j \in Jobs : SF_vars(JobStep(j))) /\ WF_vars(ChildExit)

-----------------------------------------------------------------------------
(* Correctness.                                                            *)

\* Every variable keeps its type.  active_backups never passes max_backups.
TypeOK ==
  /\ jpc \in [Jobs -> {"job", "lock", "wait", "unlock", "fork"}]
  /\ lock \in Jobs \cup {NoJob}
  /\ active_backups \in 0 .. max_backups
  /\ running \in Nat /\ zombies \in Nat

\* Jobs that may fork without asking again, and the children not reaped yet.
Cleared  == {j \in Jobs : jpc[j] \in {"unlock", "fork"}}
Children == running + zombies

MaxNat(a, b) == IF a >= b THEN a ELSE b

\* The processes the server can have at once.  The limit holds only up to the
\* number of job threads: wait(NULL) does not wait when the backups that reached
\* the limit have not forked yet.
BackupsBounded ==
  Children + Cardinality(Cleared) <= MaxNat(max_backups, Cardinality(Jobs))

\* "Maximum allowed simultaneous backups" (main.c:35).
AtMostMaxBackups == running <= max_backups

\* A BACKUP command gets as far as its fork, although other job threads may
\* hold the lock while they wait for a child.
BackupCompletes == \A j \in Jobs : jpc[j] = "lock" ~> jpc[j] = "job"

\* n_current_backups_lock: who holds it is in the critical section, alone.
LockDiscipline == \A j \in Jobs : jpc[j] \in {"wait", "unlock"} <=> lock = j

\* Until the count reaches the limit it bounds the children and those to come.
CountBounds == active_backups < max_backups =>
                 Children + Cardinality(Cleared) <= active_backups

\* The count never goes down, so a job that waits stays at the limit.
WaitsAtLimit == \A j \in Jobs : jpc[j] = "wait" => active_backups = max_backups

IInv == TypeOK /\ LockDiscipline /\ CountBounds /\ WaitsAtLimit /\ BackupsBounded
=============================================================================
