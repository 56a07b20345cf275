---------------------------- MODULE BackupsProofs ----------------------------
(***************************************************************************)
(* Proofs about Backups for any number of job threads and any limit.       *)
(***************************************************************************)
EXTENDS Backups, FiniteSetTheorems, TLAPS

\* A set of jobs is finite and has at most as many members as there are jobs.
LEMMA JobSets ==
  ASSUME NEW S \in SUBSET Jobs
  PROVE  IsFiniteSet(S) /\ Cardinality(S) \in Nat /\ Cardinality(S) <= Cardinality(Jobs)
         /\ Cardinality(Jobs) \in Nat
  BY JobAssumption, FS_Subset, FS_CardinalityType

\* A job that is let through is added to those that may fork.
LEMMA ClearedGrows ==
  ASSUME TypeOK, NEW j \in Jobs, j \notin Cleared, Goto(j, "unlock")
  PROVE  Cardinality(Cleared') = Cardinality(Cleared) + 1
<1>1. Cleared' = Cleared \cup {j}
  BY DEF TypeOK, Cleared, Goto
<1>2. IsFiniteSet(Cleared)
  BY JobSets DEF Cleared
<1> QED
  BY <1>1, <1>2, FS_AddElement

\* A job that has forked is taken from those that may fork.
LEMMA ClearedShrinks ==
  ASSUME TypeOK, NEW j \in Jobs, j \in Cleared, Goto(j, "job")
  PROVE  Cardinality(Cleared') = Cardinality(Cleared) - 1
<1>1. Cleared' = Cleared \ {j}
  BY DEF TypeOK, Cleared, Goto
<1>2. IsFiniteSet(Cleared)
  BY JobSets DEF Cleared
<1> QED
  BY <1>1, <1>2, FS_RemoveElement

\* run_job and kvs_backup: each step of a job and each exit of a child keeps the
\* invariant.
LEMMA Inductive == IInv /\ [Next]_vars => IInv'
<1> SUFFICES ASSUME IInv, [Next]_vars
             PROVE  IInv'
  OBVIOUS
<1>0. /\ TypeOK /\ LockDiscipline /\ CountBounds /\ WaitsAtLimit /\ BackupsBounded
      /\ Cardinality(Cleared) \in Nat /\ Cardinality(Jobs) \in Nat
      /\ max_backups \in Nat /\ running \in Nat /\ zombies \in Nat
      /\ active_backups \in Nat /\ active_backups <= max_backups
  <2>1. Cleared \in SUBSET Jobs
    BY DEF Cleared
  <2> QED
    BY <2>1, JobSets, BackupAssumption DEF TypeOK, IInv
<1>1. ASSUME NEW j \in Jobs, Backup(j)
      PROVE  IInv'
  <2>1. Cleared' = Cleared
    BY <1>0, <1>1 DEF Backup, Goto, Cleared, TypeOK
  <2>2. TypeOK' /\ LockDiscipline' /\ WaitsAtLimit'
    BY <1>0, <1>1 DEF Backup, Goto, TypeOK, LockDiscipline, WaitsAtLimit
  <2> QED
    BY <1>0, <1>1, <2>1, <2>2 DEF IInv, Backup, CountBounds, BackupsBounded, Children
<1>2. ASSUME NEW j \in Jobs, BackupLock(j)
      PROVE  IInv'
  <2>1. TypeOK' /\ LockDiscipline' /\ WaitsAtLimit'
    BY <1>0, <1>2, JobAssumption
    DEF BackupLock, Goto, TypeOK, LockDiscipline, WaitsAtLimit
  <2>2. CASE active_backups >= max_backups
    <3>1. Cleared' = Cleared
      BY <1>0, <1>2, <2>2 DEF BackupLock, Goto, Cleared, TypeOK
    <3> QED
      BY <1>0, <1>2, <2>1, <2>2, <3>1
      DEF IInv, BackupLock, CountBounds, BackupsBounded, Children
  <2>3. CASE active_backups < max_backups
    <3>1. Cardinality(Cleared') = Cardinality(Cleared) + 1
      BY <1>0, <1>2, <2>3, ClearedGrows DEF BackupLock, Cleared
    <3>2. Children' = Children /\ active_backups' = active_backups + 1
      BY <1>0, <1>2, <2>3 DEF BackupLock, Children
    <3>3. Children + Cardinality(Cleared) <= active_backups
      BY <1>0, <2>3 DEF CountBounds
    <3>4. Children \in Nat
      BY <1>0 DEF Children
    <3> QED
      BY <1>0, <2>1, <2>3, <3>1, <3>2, <3>3, <3>4
      DEF IInv, CountBounds, BackupsBounded, MaxNat
  <2> QED
    BY <1>0, <2>2, <2>3
<1>3. ASSUME NEW j \in Jobs, BackupWait(j)
      PROVE  IInv'
  <2>1. TypeOK' /\ LockDiscipline' /\ WaitsAtLimit'
    BY <1>0, <1>3 DEF BackupWait, Goto, TypeOK, LockDiscipline, WaitsAtLimit
  <2>2. Cardinality(Cleared') = Cardinality(Cleared) + 1
    BY <1>0, <1>3, ClearedGrows DEF BackupWait, Cleared
  <2>3. active_backups' = active_backups /\ active_backups = max_backups
    BY <1>0, <1>3 DEF BackupWait, WaitsAtLimit
  <2>4. BackupsBounded'
    <3>1. CASE zombies > 0
      <4>1. Children' = Children - 1 /\ Children \in Nat
        BY <1>0, <1>3, <3>1 DEF BackupWait, Children
      <4> QED
        BY <1>0, <2>2, <4>1 DEF BackupsBounded, MaxNat
    <3>2. CASE zombies = 0
      <4>1. Children' = 0
        BY <1>0, <1>3, <3>2 DEF BackupWait, Children
      <4>2. Cardinality(Cleared') <= Cardinality(Jobs)
        BY JobSets DEF Cleared
      <4> QED
        BY <1>0, <2>2, <4>1, <4>2 DEF BackupsBounded, MaxNat
    <3> QED
      BY <1>0, <3>1, <3>2
  <2> QED
    BY <1>0, <2>1, <2>3, <2>4 DEF IInv, CountBounds
<1>4. ASSUME NEW j \in Jobs, BackupUnlock(j)
      PROVE  IInv'
  <2>1. Cleared' = Cleared
    BY <1>0, <1>4 DEF BackupUnlock, Goto, Cleared, TypeOK
  <2>2. TypeOK' /\ LockDiscipline' /\ WaitsAtLimit'
    BY <1>0, <1>4, JobAssumption
    DEF BackupUnlock, Goto, TypeOK, LockDiscipline, WaitsAtLimit
  <2> QED
    BY <1>0, <1>4, <2>1, <2>2 DEF IInv, BackupUnlock, CountBounds, BackupsBounded, Children
<1>5. ASSUME NEW j \in Jobs, BackupFork(j)
      PROVE  IInv'
  <2>1. TypeOK' /\ LockDiscipline' /\ WaitsAtLimit'
    BY <1>0, <1>5 DEF BackupFork, Goto, TypeOK, LockDiscipline, WaitsAtLimit
  <2>2. Cardinality(Cleared') = Cardinality(Cleared) - 1
    BY <1>0, <1>5, ClearedShrinks DEF BackupFork, Cleared
  <2>3. Children' \in {Children, Children + 1} /\ Children \in Nat
        /\ active_backups' = active_backups
    <3>1. running' = running \/ running' = running + 1
      BY <1>5 DEF BackupFork
    <3>2. zombies' = zombies /\ active_backups' = active_backups
      BY <1>5 DEF BackupFork
    <3> QED
      BY <1>0, <3>1, <3>2 DEF Children
  <2>4. Children' + Cardinality(Cleared') <= Children + Cardinality(Cleared)
    BY <1>0, <2>2, <2>3
  <2>5. Children' + Cardinality(Cleared') \in Int
    BY <1>0, <2>2, <2>3
  <2>6. CountBounds'
    BY <1>0, <2>3, <2>4, <2>5 DEF CountBounds
  <2>7. BackupsBounded'
    BY <1>0, <2>3, <2>4, <2>5 DEF BackupsBounded, MaxNat
  <2> QED
    BY <2>1, <2>6, <2>7 DEF IInv
<1>6. ASSUME ChildExit
      PROVE  IInv'
  <2>1. Cleared' = Cleared /\ Children' = Children
    BY <1>0, <1>6 DEF ChildExit, Cleared, Children
  <2>2. TypeOK' /\ LockDiscipline' /\ WaitsAtLimit'
    BY <1>0, <1>6 DEF ChildExit, TypeOK, LockDiscipline, WaitsAtLimit
  <2> QED
    BY <1>0, <1>6, <2>1, <2>2 DEF IInv, ChildExit, CountBounds, BackupsBounded
<1>7. ASSUME UNCHANGED vars
      PROVE  IInv'
  BY <1>0, <1>7
  DEF IInv, vars, TypeOK, LockDiscipline, WaitsAtLimit, CountBounds, BackupsBounded,
      Children, Cleared
<1> QED
  BY <1>1, <1>2, <1>3, <1>4, <1>5, <1>6, <1>7 DEF Next, JobStep

\* A server that starts has no backups and no job that asks for one.
LEMMA Initially == Init => IInv
<1> SUFFICES ASSUME Init
             PROVE  IInv
  OBVIOUS
<1>1. Cleared = {}
  BY DEF Init, Cleared
<1>2. Children = 0 /\ Cardinality(Cleared) = 0
  BY <1>1, FS_EmptySet DEF Init, Children
<1>3. TypeOK /\ LockDiscipline /\ WaitsAtLimit
  BY BackupAssumption, JobAssumption DEF Init, TypeOK, LockDiscipline, WaitsAtLimit
<1>4. Cardinality(Jobs) \in Nat
  BY JobAssumption, FS_CardinalityType
<1> QED
  BY <1>2, <1>3, <1>4, BackupAssumption DEF Init, IInv, CountBounds, BackupsBounded, MaxNat

\* The inductive invariant of the backup commands.
THEOREM Invariance == Spec => []IInv
  BY Initially, Inductive, PTL DEF Spec

\* Every variable keeps its type; active_backups never passes max_backups.
THEOREM TypeCorrect == Spec => []TypeOK
<1>1. IInv => TypeOK
  BY DEF IInv
<1> QED
  BY <1>1, Invariance, PTL

\* However the job threads interleave, and whichever forks fail, the children
\* and the jobs about to fork are at most max(max_backups, job threads).
THEOREM BoundTheorem == Spec => []BackupsBounded
<1>1. IInv => BackupsBounded
  BY DEF IInv
<1> QED
  BY <1>1, Invariance, PTL
=============================================================================
