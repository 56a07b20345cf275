-------------------------- MODULE SessionPoolProofs --------------------------
(***************************************************************************)
(* Proofs about SessionPool for any number of slots, clients and threads.  *)
(*                                                                         *)
(* IInv is inductive.  Each of its conjuncts has a lemma that shows that a *)
(* step keeps it; the lemmas are put together in Inductive.                *)
(***************************************************************************)
EXTENDS SessionPool, FiniteSetTheorems, SequenceTheorems, TLAPS

-----------------------------------------------------------------------------
(* Counting slots.                                                         *)

\* A set of slots is finite and has at most MAX_SESSION_COUNT members, and if
\* it has that many it is the set of all slots.
LEMMA SlotSets ==
  ASSUME NEW S \in SUBSET Slots
  PROVE  /\ IsFiniteSet(S)
         /\ Cardinality(S) \in 0 .. MAX_SESSION_COUNT
         /\ Cardinality(S) = MAX_SESSION_COUNT => S = Slots
<1>1. IsFiniteSet(Slots) /\ Cardinality(Slots) = MAX_SESSION_COUNT
  BY FS_Interval, SlotAssumption DEF Slots
<1>2. IsFiniteSet(S) /\ Cardinality(S) <= Cardinality(Slots)
  BY <1>1, FS_Subset
<1>3. Cardinality(S) = Cardinality(Slots) => S = Slots
  BY <1>1, FS_Subset
<1>4. Cardinality(S) \in Nat
  BY <1>2, FS_CardinalityType
<1> QED
  BY <1>1, <1>2, <1>3, <1>4, SlotAssumption

\* Setting a flag that is clear adds one slot to the flagged slots.
LEMMA RaiseFlag ==
  ASSUME NEW f \in [Slots -> BOOLEAN], NEW i \in Slots, ~f[i]
  PROVE  Cardinality({j \in Slots : [f EXCEPT ![i] = TRUE][j]}) =
           Cardinality({j \in Slots : f[j]}) + 1
<1> DEFINE S == {j \in Slots : f[j]}
<1>1. IsFiniteSet(S)
  BY SlotSets
<1>2. {j \in Slots : [f EXCEPT ![i] = TRUE][j]} = S \cup {i} /\ i \notin S
  OBVIOUS
<1> QED
  BY <1>1, <1>2, FS_AddElement

\* Clearing a flag that is set takes one slot from the flagged slots.
LEMMA ClearFlag ==
  ASSUME NEW f \in [Slots -> BOOLEAN], NEW i \in Slots, f[i]
  PROVE  Cardinality({j \in Slots : [f EXCEPT ![i] = FALSE][j]}) =
           Cardinality({j \in Slots : f[j]}) - 1
<1> DEFINE S == {j \in Slots : f[j]}
<1>1. IsFiniteSet(S)
  BY SlotSets
<1>2. {j \in Slots : [f EXCEPT ![i] = FALSE][j]} = S \ {i} /\ i \in S
  OBVIOUS
<1> QED
  BY <1>1, <1>2, FS_RemoveElement

-----------------------------------------------------------------------------
(* The invariant, conjunct by conjunct.                                    *)

\* client_sem: the permit moves from the semaphore to the host's hand, to the
\* slot it installs the client in, and back when disconnect_client posts it.
LEMMA PermitsStep ==
  ASSUME IInv, Next
  PROVE  PermitsAccounted'
<1> USE DEF PermitsAccounted, Busy, HoldsPermit
<1>1. /\ active \in [Slots -> BOOLEAN] /\ sem \in Nat /\ scan \in Int
      /\ PermitsAccounted /\ ScanFindsSlot
      /\ \A i \in Slots : tpc[i] \notin {"top", "wait"} => active[i]
      /\ hostPc = "slot" => scan \in Slots
  BY DEF IInv, TypeOK, SlotsOwned
<1>2. ASSUME NEW i \in Slots, ThreadDisconnect(i)
      PROVE  PermitsAccounted'
  <2>1. /\ active' = [active EXCEPT ![i] = FALSE] /\ active[i]
        /\ sem' = sem + 1 /\ hostPc' = hostPc
    BY <1>1, <1>2 DEF ThreadDisconnect, hostVars
  <2>2. Cardinality(Busy') = Cardinality(Busy) - 1
    BY <1>1, <2>1, ClearFlag
  <2>3. Cardinality(Busy) \in Nat
    BY SlotSets
  <2> QED
    BY <1>1, <2>1, <2>2, <2>3
<1>3. CASE HostSemWait
  BY <1>1, <1>3, SlotSets DEF HostSemWait, HostAt, slotVars
<1>4. CASE HostActivate
  <2>1. /\ active' = [active EXCEPT ![scan] = TRUE] /\ ~active[scan]
        /\ sem' = sem /\ hostPc = "slot" /\ hostPc' = "unlockList" /\ scan \in Slots
    BY <1>1, <1>4 DEF HostActivate, HostAt
  <2>2. Cardinality(Busy') = Cardinality(Busy) + 1
    BY <1>1, <2>1, RaiseFlag
  <2>3. Cardinality(Busy) \in Nat
    BY SlotSets
  <2> QED
    BY <1>1, <2>1, <2>2, <2>3
<1>5. CASE HostUnlockList
  <2>1. hostPc = "unlockList"
    BY <1>1, <1>5, SlotAssumption DEF HostUnlockList, HostAt, ScanFindsSlot, Slots
  <2> QED
    BY <1>1, <1>5, <2>1 DEF HostUnlockList, slotVars
<1>6. CASE UNCHANGED <<sem, active>> /\ HoldsPermit' = HoldsPermit
  BY <1>1, <1>6
<1> QED
  BY <1>2, <1>3, <1>4, <1>5, <1>6
  DEF Next, ClientStep, ThreadStep, HostStep, SigStep, ClientRegister,
      ClientRequest, ClientDisconnect, ClientCrash, ThreadTop, ThreadWake,
      ThreadGreet, ThreadCheck, ThreadServe, ThreadReadDisconnect, ThreadReadEof,
      HostAt, HostRead, HostDiscard, HostOpen, HostOpenFails, HostLockList,
      HostLockSlot, HostSkipSlot, Kill, Deliver, SigLock, SigMark, SigCollect,
      SigUnlock, slotVars, hostVars

\* activate_client: the permit guarantees a free slot when the scan starts,
\* the scan only passes slots that are taken, and disconnect_client only frees.
LEMMA ScanStep ==
  ASSUME IInv, Next
  PROVE  ScanFindsSlot' /\ (hostPc' = "slot" => scan' \in Slots)
<1> USE DEF ScanFindsSlot
<1>1. /\ active \in [Slots -> BOOLEAN] /\ sem \in Nat /\ scan \in Int
      /\ PermitsAccounted /\ ScanFindsSlot
      /\ hostPc = "slot" => scan \in Slots
  BY DEF IInv, TypeOK
<1>2. CASE HostLockList
  <2>1. hostPc = "lockList" /\ scan' = 1 /\ active' = active /\ hostPc' = "lockSlot"
    BY <1>2 DEF HostLockList, HostAt, slotVars
  <2>2. Cardinality(Busy) # MAX_SESSION_COUNT
    BY <1>1, <2>1, SlotSets, SlotAssumption DEF PermitsAccounted, HoldsPermit, Busy
  <2>3. Cardinality(Slots) = MAX_SESSION_COUNT
    BY FS_Interval, SlotAssumption DEF Slots
  <2>4. PICK i \in Slots : ~active[i]
    BY <2>2, <2>3 DEF Busy
  <2> QED
    BY <2>1, <2>4 DEF Slots
<1>3. CASE HostSkipSlot
  <2>1. PICK i \in Slots : i >= scan /\ ~active[i]
    BY <1>1, <1>3 DEF HostSkipSlot, HostAt
  <2>2. i # scan
    BY <2>1, <1>3 DEF HostSkipSlot
  <2> QED
    BY <1>1, <1>3, <2>1, <2>2 DEF HostSkipSlot, Slots
<1>4. ASSUME NEW i \in Slots, ThreadDisconnect(i)
      PROVE  ScanFindsSlot' /\ (hostPc' = "slot" => scan' \in Slots)
  BY <1>1, <1>4 DEF ThreadDisconnect, hostVars
<1>5. CASE HostLockSlot
  BY <1>1, <1>5 DEF HostLockSlot, HostAt
<1>6. CASE hostPc' \notin {"lockSlot", "slot"}
  BY <1>6
<1>7. CASE UNCHANGED <<active, hostPc, scan>>
  BY <1>1, <1>7
<1> QED
  BY <1>2, <1>3, <1>4, <1>5, <1>6, <1>7
  DEF Next, ClientStep, ThreadStep, HostStep, SigStep, ClientRegister,
      ClientRequest, ClientDisconnect, ClientCrash, ThreadTop, ThreadWake,
      ThreadGreet, ThreadCheck, ThreadServe, ThreadReadDisconnect, ThreadReadEof,
      HostRead, HostDiscard, HostOpen, HostOpenFails, HostSemWait, HostActivate,
      HostUnlockList, Kill, Deliver, SigLock, SigMark, SigCollect, SigUnlock,
      slotVars, hostVars

\* listc_mutex: it is taken only when it is free, and by a thread that is not
\* in the other critical section.
LEMMA ListLockStep ==
  ASSUME IInv, Next
  PROVE  ListLockDiscipline'
<1> USE DEF ListLockDiscipline, Threads
<1>1. /\ ListLockDiscipline /\ hpc \in [Threads -> SigPlaces]
  BY DEF IInv, TypeOK
<1>2. CASE HostLockList
  BY <1>1, <1>2, ThreadAssumption DEF HostLockList, sigVars
<1>3. CASE HostLockSlot \/ HostSkipSlot \/ HostActivate
  BY <1>1, <1>3 DEF HostLockSlot, HostSkipSlot, HostActivate, HostAt, sigVars
<1>4. CASE HostUnlockList
  BY <1>1, <1>4 DEF HostUnlockList, HostAt, sigVars
<1>5. ASSUME NEW t \in SigThreads, SigLock(t)
      PROVE  ListLockDiscipline'
  BY <1>1, <1>5, ThreadAssumption DEF SigLock, hostVars
<1>6. ASSUME NEW t \in SigThreads, SigMark(t)
      PROVE  ListLockDiscipline'
  BY <1>1, <1>6 DEF SigMark, hostVars
<1>7. ASSUME NEW t \in SigThreads, SigUnlock(t)
      PROVE  ListLockDiscipline'
  BY <1>1, <1>7 DEF SigUnlock, hostVars
<1>8. ASSUME NEW t \in SigThreads, Deliver(t)
      PROVE  ListLockDiscipline'
  BY <1>1, <1>8 DEF Deliver, hostVars
<1>9. CASE HostRead \/ HostDiscard \/ HostOpen \/ HostOpenFails \/ HostSemWait
  BY <1>1, <1>9
  DEF HostRead, HostDiscard, HostOpen, HostOpenFails, HostSemWait, hostVars, sigVars
<1>10. CASE UNCHANGED <<listc, hostPc, hpc>>
  BY <1>1, <1>10
<1> QED
  BY <1>2, <1>3, <1>4, <1>5, <1>6, <1>7, <1>8, <1>9, <1>10
  DEF Next, ClientStep, ThreadStep, HostStep, SigStep, ClientRegister,
      ClientRequest, ClientDisconnect, ClientCrash, ThreadTop, ThreadWake,
      ThreadGreet, ThreadCheck, ThreadServe, ThreadReadDisconnect, ThreadReadEof,
      ThreadDisconnect, Kill, SigCollect, hostVars, sigVars

\* client_thread: it goes to wait only beside a free slot, and who fills the
\* slot signals it.
LEMMA WakeupStep ==
  ASSUME IInv, Next
  PROVE  NoLostWakeup'
<1> USE DEF NoLostWakeup
<1>1. /\ active \in [Slots -> BOOLEAN] /\ woken \in [Slots -> BOOLEAN]
      /\ tpc \in [Slots -> ThreadPlaces] /\ NoLostWakeup
      /\ hostPc = "slot" => scan \in Slots
  BY DEF IInv, TypeOK
<1>2. ASSUME NEW i \in Slots, ThreadTop(i) \/ ThreadWake(i)
      PROVE  NoLostWakeup'
  BY <1>1, <1>2 DEF ThreadTop, ThreadWake
<1>3. ASSUME NEW i \in Slots,
             \/ ThreadGreet(i) \/ ThreadCheck(i) \/ ThreadServe(i)
             \/ ThreadReadDisconnect(i) \/ ThreadReadEof(i) \/ ThreadDisconnect(i)
      PROVE  NoLostWakeup'
  BY <1>1, <1>3 DEF ThreadGreet, ThreadCheck, ThreadServe, ThreadReadDisconnect,
                    ThreadReadEof, ThreadDisconnect
<1>4. CASE HostActivate
  BY <1>1, <1>4 DEF HostActivate, HostAt
<1>5. CASE UNCHANGED <<active, woken, tpc>>
  BY <1>1, <1>5
<1> QED
  BY <1>2, <1>3, <1>4, <1>5
  DEF Next, ClientStep, ThreadStep, HostStep, SigStep, ClientRegister,
      ClientRequest, ClientDisconnect, ClientCrash, HostRead, HostDiscard,
      HostOpen, HostOpenFails, HostSemWait, HostLockList, HostLockSlot,
      HostSkipSlot, HostUnlockList, Kill, Deliver, SigLock, SigMark, SigCollect,
      SigUnlock, slotVars

\* disconnect_all_clients, first loop: a slot below hi is marked if it is busy,
\* and no session can open while the handler holds listc_mutex.
LEMMA MarkStep ==
  ASSUME IInv, Next
  PROVE  MarkProgress'
<1> USE DEF MarkProgress
<1>1. /\ active \in [Slots -> BOOLEAN] /\ force \in [Slots -> BOOLEAN]
      /\ hpc \in [Threads -> SigPlaces] /\ hi \in Slots
      /\ ListLockDiscipline /\ MarkProgress /\ HandlerAccounting
      /\ \A i \in Slots : i \in Int
  BY DEF IInv, TypeOK, Slots
<1>2. ASSUME NEW t \in SigThreads, SigLock(t)
      PROVE  MarkProgress'
  <2>1. \A u \in SigThreads : hpc[u] \notin {"mark", "await"}
    BY <1>1, <1>2, ThreadAssumption DEF SigLock, ListLockDiscipline
  <2>2. \A i \in Slots : ~force[i]
    BY <1>1, <2>1 DEF HandlerAccounting, Marked
  <2> QED
    BY <1>2, <2>2 DEF SigLock, slotVars, Slots
<1>3. ASSUME NEW t \in SigThreads, SigMark(t)
      PROVE  MarkProgress'
  <2>1. /\ hpc[t] = "mark" /\ \A u \in SigThreads \ {t} : hpc[u] \notin {"mark", "await"}
    BY <1>1, <1>3 DEF SigMark, ListLockDiscipline
  <2>2. CASE hi = MAX_SESSION_COUNT
    <3> \A u \in SigThreads : hpc'[u] # "mark"
      BY <1>1, <1>3, <2>1, <2>2 DEF SigMark, Threads
    <3> QED
      OBVIOUS
  <2>3. CASE hi # MAX_SESSION_COUNT
    BY <1>1, <1>3, <2>1, <2>3, SlotAssumption DEF SigMark, Slots
  <2> QED
    BY <2>2, <2>3
<1>4. ASSUME NEW t \in SigThreads, SigUnlock(t) \/ Deliver(t)
      PROVE  MarkProgress'
  BY <1>1, <1>4 DEF SigUnlock, Deliver, slotVars, Threads
<1>5. ASSUME NEW t \in SigThreads, NEW i \in Slots, SigCollect(t, i)
      PROVE  MarkProgress'
  <2>1. \A u \in SigThreads : hpc[u] # "mark"
    BY <1>1, <1>5 DEF SigCollect, ListLockDiscipline
  <2> QED
    BY <1>5, <2>1 DEF SigCollect
<1>6. ASSUME NEW i \in Slots, ThreadDisconnect(i)
      PROVE  MarkProgress'
  BY <1>1, <1>6 DEF ThreadDisconnect, sigVars
<1>7. CASE HostActivate
  BY <1>1, <1>7 DEF HostActivate, HostAt, ListLockDiscipline, sigVars
<1>8. CASE UNCHANGED <<active, force, hpc, hi>>
  BY <1>1, <1>8
<1> QED
  BY <1>2, <1>3, <1>4, <1>5, <1>6, <1>7, <1>8
  DEF Next, ClientStep, ThreadStep, HostStep, SigStep, ClientRegister,
      ClientRequest, ClientDisconnect, ClientCrash, ThreadTop, ThreadWake,
      ThreadGreet, ThreadCheck, ThreadServe, ThreadReadDisconnect, ThreadReadEof,
      HostRead, HostDiscard, HostOpen, HostOpenFails, HostSemWait, HostLockList,
      HostLockSlot, HostSkipSlot, HostUnlockList, Kill, slotVars, sigVars

\* disconnect_all_clients: waiting_disconnects counts the marked slots.
LEMMA HandlerStep ==
  ASSUME IInv, Next
  PROVE  HandlerAccounting'
<1> USE DEF HandlerAccounting, Marked, Busy
<1> DEFINE In(t) == hpc[t] \in {"mark", "await"}
<1>1. /\ active \in [Slots -> BOOLEAN] /\ force \in [Slots -> BOOLEAN]
      /\ hpc \in [Threads -> SigPlaces] /\ hi \in Slots /\ waiting \in Int
      /\ ListLockDiscipline /\ MarkProgress /\ HandlerAccounting
      /\ SigThreads \subseteq Threads
  BY DEF IInv, TypeOK, Threads
<1>2. \A t, u \in SigThreads : In(t) /\ In(u) => t = u
  BY <1>1 DEF ListLockDiscipline
<1>3. ASSUME NEW t \in SigThreads, SigLock(t)
      PROVE  HandlerAccounting'
  <2>1. \A u \in SigThreads : ~In(u)
    BY <1>1, <1>3, ThreadAssumption DEF SigLock, ListLockDiscipline
  <2>2. Marked' = {}
    BY <1>1, <1>3, <2>1 DEF SigLock, slotVars
  <2>3. \A u \in SigThreads : hpc'[u] # "await"
    BY <1>1, <1>3, <2>1 DEF SigLock
  <2>4. waiting' = Cardinality(Marked')
    BY <1>3, <2>2, FS_EmptySet DEF SigLock
  <2> QED
    BY <2>2, <2>3, <2>4
<1>4. ASSUME NEW t \in SigThreads, SigMark(t)
      PROVE  HandlerAccounting'
  <2>1. /\ hpc[t] = "mark" /\ hpc'[t] \in {"mark", "await"}
        /\ \A u \in SigThreads \ {t} : hpc'[u] = hpc[u] /\ ~In(u)
    BY <1>1, <1>2, <1>4 DEF SigMark
  <2>2. waiting = Cardinality(Marked) /\ ~force[hi]
    BY <1>1, <2>1 DEF MarkProgress, Slots
  <2>3. waiting' = Cardinality(Marked')
    <3>1. CASE active[hi]
      <4>1. force' = [force EXCEPT ![hi] = TRUE] /\ waiting' = waiting + 1
        BY <1>4, <3>1 DEF SigMark
      <4> QED
        BY <1>1, <2>2, <4>1, RaiseFlag
    <3>2. CASE ~active[hi]
      <4>1. Marked' = Marked /\ waiting' = waiting
        BY <1>1, <1>4, <2>2, <3>2 DEF SigMark
      <4> QED
        BY <2>2, <4>1
    <3> QED
      BY <3>1, <3>2
  <2>4. hpc'[t] = "await" => Busy' \subseteq Marked'
    <3> SUFFICES ASSUME hpc'[t] = "await", NEW i \in Slots, active'[i]
                 PROVE  force'[i]
      OBVIOUS
    <3>1. hi = MAX_SESSION_COUNT /\ active[i]
      BY <1>1, <1>4 DEF SigMark
    <3>2. i < hi \/ i = hi
      BY <3>1, SlotAssumption DEF Slots
    <3> QED
      BY <1>1, <1>4, <2>1, <3>1, <3>2 DEF SigMark, MarkProgress
  <2> QED
    BY <2>1, <2>3, <2>4
<1>5. ASSUME NEW t \in SigThreads, NEW i \in Slots, SigCollect(t, i)
      PROVE  HandlerAccounting'
  <2>1. waiting = Cardinality(Marked) /\ Busy \subseteq Marked
    BY <1>1, <1>5 DEF SigCollect
  <2>2. /\ force' = [force EXCEPT ![i] = FALSE] /\ force[i] /\ ~active[i]
        /\ waiting' = waiting - 1 /\ active' = active /\ hpc' = hpc
    BY <1>5 DEF SigCollect
  <2>3. waiting' = Cardinality(Marked')
    BY <1>1, <2>1, <2>2, ClearFlag
  <2>4. Busy' \subseteq Marked'
    BY <1>1, <2>1, <2>2
  <2> QED
    BY <1>5, <2>2, <2>3, <2>4 DEF SigCollect
<1>6. ASSUME NEW t \in SigThreads, SigUnlock(t)
      PROVE  HandlerAccounting'
  <2>1. Cardinality(Marked) = 0 /\ IsFiniteSet(Marked)
    BY <1>1, <1>6, SlotSets DEF SigUnlock
  <2>2. Marked' = {}
    BY <1>6, <2>1, FS_EmptySet DEF SigUnlock, slotVars
  <2>3. \A u \in SigThreads : hpc'[u] \notin {"mark", "await"}
    BY <1>1, <1>2, <1>6 DEF SigUnlock
  <2> QED
    BY <2>2, <2>3
<1>7. ASSUME NEW t \in SigThreads, Deliver(t)
      PROVE  HandlerAccounting'
  <2>1. \A u \in SigThreads : /\ hpc'[u] = "mark" <=> hpc[u] = "mark"
                              /\ hpc'[u] = "await" <=> hpc[u] = "await"
    BY <1>1, <1>7 DEF Deliver
  <2> QED
    BY <1>1, <1>7, <2>1 DEF Deliver, slotVars
<1>8. ASSUME NEW i \in Slots, ThreadDisconnect(i)
      PROVE  HandlerAccounting'
  <2>1. Busy' \subseteq Busy /\ UNCHANGED <<Marked, hpc, waiting>>
    BY <1>1, <1>8 DEF ThreadDisconnect, sigVars
  <2> QED
    BY <1>1, <2>1
<1>9. CASE HostActivate
  <2>1. \A u \in SigThreads : ~In(u)
    BY <1>1, <1>9 DEF HostActivate, HostAt, ListLockDiscipline
  <2> QED
    BY <1>1, <1>9, <2>1 DEF HostActivate, sigVars
<1>10. CASE UNCHANGED <<active, force, hpc, waiting>>
  BY <1>1, <1>10
<1> QED
  BY <1>3, <1>4, <1>5, <1>6, <1>7, <1>8, <1>9, <1>10
  DEF Next, ClientStep, ThreadStep, HostStep, SigStep, ClientRegister,
      ClientRequest, ClientDisconnect, ClientCrash, ThreadTop, ThreadWake,
      ThreadGreet, ThreadCheck, ThreadServe, ThreadReadDisconnect, ThreadReadEof,
      HostRead, HostDiscard, HostOpen, HostOpenFails, HostSemWait, HostLockList,
      HostLockSlot, HostSkipSlot, HostUnlockList, Kill, slotVars, sigVars

\* Sessions: only the host fills a free slot, only its thread empties it.
LEMMA OwnedStep ==
  ASSUME IInv, Next
  PROVE  SlotsOwned'
<1> USE DEF SlotsOwned
<1>1. /\ active \in [Slots -> BOOLEAN] /\ tpc \in [Slots -> ThreadPlaces]
      /\ owner \in [Slots -> Clients \cup {NoClient}]
      /\ SlotsOwned
      /\ hostPc = "slot" => scan \in Slots
  BY DEF IInv, TypeOK
<1>2. ASSUME NEW i \in Slots, ThreadDisconnect(i)
      PROVE  SlotsOwned'
  BY <1>1, <1>2 DEF ThreadDisconnect
<1>3. CASE HostActivate
  <2>1. /\ hostClient \in Clients \ {NoClient}
        /\ \A i \in Slots : owner[i] # hostClient
    BY <1>3, ClientAssumption DEF HostActivate, HostAt, IInv, Placement, Holding
  <2> QED
    BY <1>1, <1>3, <2>1 DEF HostActivate, HostAt
<1>4. ASSUME NEW i \in Slots,
             \/ ThreadTop(i) \/ ThreadWake(i) \/ ThreadGreet(i) \/ ThreadCheck(i)
             \/ ThreadServe(i) \/ ThreadReadDisconnect(i) \/ ThreadReadEof(i)
      PROVE  SlotsOwned'
  BY <1>1, <1>4 DEF ThreadTop, ThreadWake, ThreadGreet, ThreadCheck, ThreadServe,
                    ThreadReadDisconnect, ThreadReadEof
<1>5. CASE UNCHANGED <<active, tpc, owner>>
  BY <1>1, <1>5
<1> QED
  BY <1>2, <1>3, <1>4, <1>5
  DEF Next, ClientStep, ThreadStep, HostStep, SigStep, ClientRegister,
      ClientRequest, ClientDisconnect, ClientCrash, HostRead, HostDiscard,
      HostOpen, HostOpenFails, HostSemWait, HostLockList, HostLockSlot,
      HostSkipSlot, HostUnlockList, Kill, Deliver, SigLock, SigMark, SigCollect,
      SigUnlock, slotVars

\* Clients: each is in one place.  A step moves one client along the path from
\* the FIFO to the host's hand, to a slot and out again.
LEMMA PlacementStep ==
  ASSUME IInv, Next
  PROVE  Placement'
<1> USE DEF Placement, Holding
<1>1. /\ fifo \in Seq(Clients) /\ cst \in [Clients -> ClientStates]
      /\ active \in [Slots -> BOOLEAN] /\ owner \in [Slots -> Clients \cup {NoClient}]
      /\ Placement /\ SlotsOwned /\ DOMAIN fifo = 1 .. Len(fifo)
      /\ \A a \in DOMAIN fifo : fifo[a] \in Clients
      /\ hostPc = "slot" => scan \in Slots
  BY DEF IInv, TypeOK
<1>2. ASSUME NEW c \in Clients, ClientRegister(c)
      PROVE  Placement'
  <2>1. /\ \A i \in Slots : owner[i] # c
        /\ \A a \in DOMAIN fifo : fifo[a] # c
        /\ Holding => hostClient # c
    BY <1>1, <1>2, ClientAssumption DEF ClientRegister, SlotsOwned
  <2>2. /\ DOMAIN fifo' = 1 .. Len(fifo) + 1
        /\ \A a \in DOMAIN fifo : fifo'[a] = fifo[a]
        /\ fifo'[Len(fifo) + 1] = c
    BY <1>1, <1>2, AppendProperties DEF ClientRegister
  <2>3. /\ cst'[c] = "registered"
        /\ \A d \in Clients \ {c} : cst'[d] = cst[d]
        /\ UNCHANGED <<active, owner, hostPc, hostClient>>
    BY <1>1, <1>2 DEF ClientRegister, slotVars, hostVars
  <2>4. Len(fifo) \in Nat
    BY <1>1, LenProperties
  <2> QED
    BY <1>1, <2>1, <2>2, <2>3, <2>4 DEF SlotsOwned
<1>3. ASSUME NEW c \in Clients,
             ClientRequest(c) \/ ClientDisconnect(c) \/ ClientCrash(c)
      PROVE  Placement'
  <2>1. /\ UNCHANGED <<fifo, active, owner, hostPc, hostClient>>
        /\ cst' \in [Clients -> ClientStates]
        /\ \A d \in Clients : \/ cst'[d] = cst[d]
                              \/ cst[d] # "out" /\ cst'[d] = "crashed"
                              \/ cst[d] = "ready" /\ cst'[d] \in {"waitOp", "waitDisc"}
    BY <1>1, <1>3 DEF ClientRequest, ClientDisconnect, ClientCrash, slotVars, hostVars,
                      ClientStates
  <2> QED
    BY <1>1, <2>1 DEF ClientStates, SlotsOwned
<1>4. ASSUME NEW i \in Slots, ThreadGreet(i) \/ ThreadServe(i)
      PROVE  Placement'
  <2>1. active[i] /\ owner[i] \in Clients
    BY <1>1, <1>4 DEF ThreadGreet, ThreadServe, SlotsOwned
  <2>2. /\ UNCHANGED <<fifo, active, owner, hostPc, hostClient>>
        /\ \A d \in Clients \ {owner[i]} : cst'[d] = cst[d]
        /\ cst'[owner[i]] \in {"ready", "crashed"}
    BY <1>1, <1>4, <2>1 DEF ThreadGreet, ThreadServe, Reply, hostVars
  <2> QED
    BY <1>1, <2>1, <2>2 DEF ClientStates, SlotsOwned
<1>5. ASSUME NEW i \in Slots, ThreadDisconnect(i)
      PROVE  Placement'
  <2>1. active[i] /\ owner[i] \in Clients
    BY <1>1, <1>5 DEF ThreadDisconnect, SlotsOwned
  <2>2. /\ UNCHANGED <<fifo, hostPc, hostClient>>
        /\ active' = [active EXCEPT ![i] = FALSE]
        /\ owner' = [owner EXCEPT ![i] = NoClient]
        /\ \A d \in Clients \ {owner[i]} : cst'[d] = cst[d]
    BY <1>1, <1>5, <2>1 DEF ThreadDisconnect, Reply, Hangup, hostVars
  <2>3. /\ \A a \in DOMAIN fifo : fifo[a] # owner[i]
        /\ Holding => hostClient # owner[i]
        /\ \A j \in Slots : active'[j] => owner'[j] # owner[i]
    BY <1>1, <2>1, <2>2 DEF SlotsOwned
  <2> QED
    BY <1>1, <2>1, <2>2, <2>3, ClientAssumption DEF SlotsOwned
<1>6. CASE HostRead
  <2>1. /\ UNCHANGED <<cst, active, owner>> /\ hostPc' = "open" /\ fifo # <<>>
        /\ hostClient' = Head(fifo) /\ fifo' = Tail(fifo)
    BY <1>6 DEF HostRead, slotVars
  <2>2. /\ hostClient' = fifo[1] /\ 1 \in DOMAIN fifo /\ Len(fifo) \in Nat
        /\ DOMAIN fifo' = 1 .. Len(fifo) - 1
        /\ \A a \in DOMAIN fifo' : fifo'[a] = fifo[a + 1]
    BY <1>1, <2>1, HeadTailProperties, LenProperties
  <2> QED
    BY <1>1, <2>1, <2>2
<1>7. CASE HostOpen
  <2>1. /\ UNCHANGED <<fifo, active, owner, hostClient>>
        /\ hostPc = "open" /\ hostPc' = "semWait"
        /\ cst' = [cst EXCEPT ![hostClient] = "opened"]
    BY <1>7 DEF HostOpen, HostAt, slotVars
  <2> QED
    BY <1>1, <2>1 DEF ClientStates, SlotsOwned
<1>8. CASE HostActivate
  BY <1>1, <1>8 DEF HostActivate, HostAt, clientVars, ClientStates
<1>11. CASE HostDiscard
  <2>1. /\ UNCHANGED <<active, owner, hostPc, hostClient>> /\ hostPc = "read"
        /\ fifo # <<>> /\ fifo' = Tail(fifo)
    BY <1>11 DEF HostDiscard, HostAt, slotVars, hostVars
  <2>2. /\ Head(fifo) = fifo[1] /\ 1 \in DOMAIN fifo /\ Len(fifo) \in Nat
        /\ DOMAIN fifo' = 1 .. Len(fifo) - 1
        /\ \A a \in DOMAIN fifo' : fifo'[a] = fifo[a + 1]
    BY <1>1, <2>1, HeadTailProperties, LenProperties
  <2>3. \A d \in Clients \ {fifo[1]} : cst'[d] = cst[d]
    BY <1>1, <1>11, <2>2 DEF HostDiscard, Abandon
  <2>4. \A a \in DOMAIN fifo' : a + 1 \in DOMAIN fifo /\ fifo'[a] # fifo[1]
    BY <1>1, <2>2
  <2>5. \A i \in Slots : owner[i] # fifo[1]
    BY <1>1, <2>2
  <2>6. \A a \in DOMAIN fifo' : cst'[fifo'[a]] = cst[fifo'[a]]
    BY <1>1, <2>2, <2>3, <2>4
  <2> QED
    BY <1>1, <2>1, <2>2, <2>3, <2>4, <2>5, <2>6 DEF SlotsOwned
<1>12. CASE HostOpenFails
  <2>1. /\ UNCHANGED <<fifo, active, owner>> /\ hostPc = "open" /\ hostPc' = "read"
        /\ \A d \in Clients \ {hostClient} : cst'[d] = cst[d]
    BY <1>1, <1>12 DEF HostOpenFails, HostAt, Abandon, Reply, slotVars
  <2> QED
    BY <1>1, <2>1 DEF SlotsOwned
<1>9. CASE HostUnlockList
  <2>1. hostPc = "unlockList"
    BY <1>9, SlotAssumption DEF HostUnlockList, HostAt, IInv, ScanFindsSlot, Slots
  <2> QED
    BY <1>1, <1>9, <2>1 DEF HostUnlockList, slotVars
<1>10. CASE /\ UNCHANGED <<fifo, cst, active, owner, hostClient>>
            /\ Holding' = Holding
            /\ hostPc' = "open" <=> hostPc = "open"
  BY <1>1, <1>10
<1> QED
  BY <1>2, <1>3, <1>4, <1>5, <1>6, <1>7, <1>8, <1>9, <1>10, <1>11, <1>12
  DEF Next, ClientStep, ThreadStep, HostStep, SigStep, ThreadTop, ThreadWake,
      ThreadCheck, ThreadReadDisconnect, ThreadReadEof, HostAt, HostSemWait,
      HostLockList, HostLockSlot, HostSkipSlot, Kill, Deliver, SigLock, SigMark,
      SigCollect, SigUnlock, clientVars, slotVars, hostVars

\* Types.  That the two counters stay in range follows from what they count.
LEMMA TypeStep ==
  ASSUME IInv, Next
  PROVE  TypeOK'
<1> USE DEF TypeOK, clientVars, slotVars, hostVars, sigVars
<1>1. TypeOK
  BY DEF IInv
<1>2. ASSUME NEW c \in Clients, ClientRegister(c)
      PROVE  TypeOK'
  <2>1. fifo' \in Seq(Clients) /\ cst' \in [Clients -> ClientStates]
    BY <1>1, <1>2, AppendProperties DEF ClientRegister, ClientStates
  <2> QED
    BY <1>1, <1>2, <2>1 DEF ClientRegister
<1>3. ASSUME NEW c \in Clients, ClientRequest(c)
      PROVE  TypeOK'
  BY <1>1, <1>3 DEF ClientRequest, ClientStates
<1>4. ASSUME NEW c \in Clients, ClientDisconnect(c)
      PROVE  TypeOK'
  BY <1>1, <1>4 DEF ClientDisconnect, ClientStates
<1>5. ASSUME NEW c \in Clients, ClientCrash(c)
      PROVE  TypeOK'
  BY <1>1, <1>5 DEF ClientCrash, ClientStates
<1>6. ASSUME NEW i \in Slots, ThreadTop(i)
      PROVE  TypeOK'
  BY <1>1, <1>6 DEF ThreadTop, ThreadPlaces
<1>7. ASSUME NEW i \in Slots, ThreadWake(i)
      PROVE  TypeOK'
  BY <1>1, <1>7 DEF ThreadWake, ThreadPlaces
<1>8. ASSUME NEW i \in Slots, ThreadGreet(i)
      PROVE  TypeOK'
  <2>1. cst' \in [Clients -> ClientStates] /\ up' \in BOOLEAN
    BY <1>1, <1>8 DEF ThreadGreet, Reply, ClientStates
  <2> QED
    BY <1>1, <1>8, <2>1 DEF ThreadGreet, ThreadPlaces
<1>9. ASSUME NEW i \in Slots, ThreadCheck(i)
      PROVE  TypeOK'
  BY <1>1, <1>9 DEF ThreadCheck, ThreadPlaces
<1>10. ASSUME NEW i \in Slots, ThreadServe(i)
       PROVE  TypeOK'
  <2>1. cst' \in [Clients -> ClientStates] /\ up' \in BOOLEAN
    BY <1>1, <1>10 DEF ThreadServe, Reply, ClientStates
  <2> QED
    BY <1>1, <1>10, <2>1 DEF ThreadServe, ThreadPlaces
<1>11. ASSUME NEW i \in Slots, ThreadReadDisconnect(i)
       PROVE  TypeOK'
  BY <1>1, <1>11 DEF ThreadReadDisconnect, ThreadPlaces
<1>12. ASSUME NEW i \in Slots, ThreadReadEof(i)
       PROVE  TypeOK'
  BY <1>1, <1>12 DEF ThreadReadEof, ThreadPlaces
<1>13. ASSUME NEW i \in Slots, ThreadDisconnect(i)
       PROVE  TypeOK'
  <2>1. sem' \in 0 .. MAX_SESSION_COUNT
    <3>1. PermitsAccounted' /\ sem' \in Nat
      BY <1>1, <1>13, PermitsStep DEF ThreadDisconnect
    <3>2. Cardinality(Busy') \in Nat
      BY SlotSets DEF Busy
    <3> QED
      BY <3>1, <3>2, SlotAssumption DEF PermitsAccounted
  <2>2. cst' \in [Clients -> ClientStates] /\ up' \in BOOLEAN
    BY <1>1, <1>13 DEF ThreadDisconnect, Reply, Hangup, ClientStates
  <2> QED
    BY <1>1, <1>13, <2>1, <2>2 DEF ThreadDisconnect, ThreadPlaces
<1>14. CASE HostRead
  <2>1. fifo' \in Seq(Clients) /\ hostClient' \in Clients
    BY <1>1, <1>14, HeadTailProperties DEF HostRead
  <2> QED
    BY <1>1, <1>14, <2>1 DEF HostRead, HostPlaces
<1>15. CASE HostOpen
  BY <1>1, <1>15 DEF HostOpen, HostPlaces, ClientStates
<1>16. CASE HostSemWait
  BY <1>1, <1>16, SlotAssumption DEF HostSemWait, HostPlaces
<1>17. CASE HostLockList
  BY <1>1, <1>17, SlotAssumption DEF HostLockList, HostPlaces, Threads
<1>18. CASE HostLockSlot
  BY <1>1, <1>18 DEF HostLockSlot, HostPlaces
<1>19. CASE HostSkipSlot
  <2>1. scan' \in 1 .. MAX_SESSION_COUNT + 1
    BY <1>1, <1>19, SlotAssumption DEF HostSkipSlot, HostAt, IInv, Slots
  <2> QED
    BY <1>1, <1>19, <2>1 DEF HostSkipSlot, HostPlaces
<1>20. CASE HostActivate
  BY <1>1, <1>20 DEF HostActivate, HostPlaces
<1>21. CASE HostUnlockList
  <2>1. cst' \in [Clients -> ClientStates] /\ up' \in BOOLEAN
    BY <1>1, <1>21 DEF HostUnlockList, Reply, ClientStates
  <2>2. scan' \in 1 .. MAX_SESSION_COUNT + 1
    BY <1>21, SlotAssumption DEF HostUnlockList
  <2> QED
    BY <1>1, <1>21, <2>1, <2>2 DEF HostUnlockList, HostPlaces
<1>22. CASE Kill
  BY <1>1, <1>22 DEF Kill
<1>23. ASSUME NEW t \in SigThreads, Deliver(t)
       PROVE  TypeOK'
  BY <1>1, <1>23 DEF Deliver, SigPlaces
<1>24. ASSUME NEW t \in SigThreads, SigLock(t)
       PROVE  TypeOK'
  <2>1. listc' \in Threads /\ hi' \in Slots /\ waiting' \in 0 .. MAX_SESSION_COUNT
    BY <1>24, SlotAssumption DEF SigLock, Threads, Slots
  <2> QED
    BY <1>1, <1>24, <2>1 DEF SigLock, SigPlaces
<1>25. ASSUME NEW t \in SigThreads, SigMark(t) \/ \E i \in Slots : SigCollect(t, i)
       PROVE  waiting' \in 0 .. MAX_SESSION_COUNT
  <2>1. HandlerAccounting'
    BY <1>25, HandlerStep
  <2>2. hpc'[t] \in {"mark", "await"}
    BY <1>1, <1>25 DEF SigMark, SigCollect, Threads
  <2>3. waiting' = Cardinality(Marked')
    BY <2>1, <2>2 DEF HandlerAccounting
  <2> QED
    BY <2>3, SlotSets DEF Marked
<1>26. ASSUME NEW t \in SigThreads, SigMark(t)
       PROVE  TypeOK'
  <2>1. hi' \in Slots
    BY <1>1, <1>26, SlotAssumption DEF SigMark, Slots
  <2>2. force' \in [Slots -> BOOLEAN]
    BY <1>1, <1>26 DEF SigMark
  <2>3. hpc' \in [Threads -> SigPlaces]
    BY <1>1, <1>26 DEF SigMark, SigPlaces
  <2> QED
    BY <1>1, <1>25, <1>26, <2>1, <2>2, <2>3 DEF SigMark
<1>27. ASSUME NEW t \in SigThreads, NEW i \in Slots, SigCollect(t, i)
       PROVE  TypeOK'
  BY <1>1, <1>25, <1>27 DEF SigCollect
<1>28. ASSUME NEW t \in SigThreads, SigUnlock(t)
       PROVE  TypeOK'
  BY <1>1, <1>28 DEF SigUnlock, SigPlaces
<1>29. CASE HostDiscard
  <2>1. fifo' \in Seq(Clients)
    BY <1>1, <1>29, HeadTailProperties DEF HostDiscard
  <2>2. cst' \in [Clients -> ClientStates] /\ up' = up
    BY <1>1, <1>29 DEF HostDiscard, Abandon, ClientStates
  <2> QED
    BY <1>1, <1>29, <2>1, <2>2 DEF HostDiscard
<1>30. CASE HostOpenFails
  <2>1. cst' \in [Clients -> ClientStates] /\ up' \in BOOLEAN
    BY <1>1, <1>30 DEF HostOpenFails, Abandon, Reply, ClientStates
  <2> QED
    BY <1>1, <1>30, <2>1 DEF HostOpenFails, HostPlaces
<1> QED
  BY <1>2, <1>3, <1>4, <1>5, <1>6, <1>7, <1>8, <1>9, <1>10, <1>11, <1>12, <1>13,
     <1>14, <1>15, <1>16, <1>17, <1>18, <1>19, <1>20, <1>21, <1>22, <1>23, <1>24,
     <1>26, <1>27, <1>28, <1>29, <1>30
  DEF Next, ClientStep, ThreadStep, HostStep, SigStep

-----------------------------------------------------------------------------
(* The theorems.                                                           *)

\* start_client_threads leaves every slot free and every permit available.
LEMMA Initially == Init => IInv
<1> SUFFICES ASSUME Init PROVE IInv
  OBVIOUS
<1> USE DEF Init
<1>1. Busy = {} /\ Marked = {}
  BY DEF Busy, Marked
<1>2. PermitsAccounted
  BY <1>1, FS_EmptySet, SlotAssumption DEF PermitsAccounted, HoldsPermit
<1>3. HandlerAccounting
  BY <1>1 DEF HandlerAccounting, Threads
<1>4. TypeOK
  <2>1. fifo \in Seq(Clients)
    BY DEF Init
  <2>2. sem \in 0 .. MAX_SESSION_COUNT /\ waiting \in 0 .. MAX_SESSION_COUNT
    BY SlotAssumption
  <2>3. hi \in Slots /\ scan \in 1 .. MAX_SESSION_COUNT + 1
    BY SlotAssumption DEF Slots
  <2> QED
    BY <2>1, <2>2, <2>3
    DEF TypeOK, Threads, ClientStates, ThreadPlaces, HostPlaces, SigPlaces
<1>5. ListLockDiscipline /\ MarkProgress /\ ScanFindsSlot
  BY DEF ListLockDiscipline, MarkProgress, ScanFindsSlot, Threads
<1>6. Placement
  BY DEF Placement, Holding
<1>7. NoLostWakeup /\ SlotsOwned
  BY DEF NoLostWakeup, SlotsOwned
<1> QED
  BY <1>2, <1>3, <1>4, <1>5, <1>6, <1>7 DEF IInv

\* A step of any thread, client or signal keeps the invariant.
LEMMA Inductive == IInv /\ [Next]_vars => IInv'
<1> SUFFICES ASSUME IInv, [Next]_vars PROVE IInv'
  OBVIOUS
<1>1. CASE Next
  BY <1>1, TypeStep, ListLockStep, MarkStep, PlacementStep, ScanStep, PermitsStep,
     WakeupStep, OwnedStep, HandlerStep DEF IInv
<1>2. CASE UNCHANGED vars
  BY <1>2
  DEF IInv, vars, clientVars, slotVars, hostVars, sigVars, TypeOK,
      ListLockDiscipline, MarkProgress, Placement, Holding, PermitsAccounted,
      HoldsPermit, Busy, ScanFindsSlot, NoLostWakeup, SlotsOwned,
      HandlerAccounting, Marked
<1> QED
  BY <1>1, <1>2

\* Every reachable state satisfies the inductive invariant.
THEOREM Invariance == Spec => []IInv
  BY Initially, Inductive, PTL DEF Spec

\* Every variable of the session pool keeps its type; client_sem never exceeds
\* the number of slots and waiting_disconnects never goes below zero.
THEOREM TypeCorrect == Spec => []TypeOK
<1>1. IInv => TypeOK
  BY DEF IInv
<1> QED
  BY <1>1, Invariance, PTL

\* The permits of client_sem, the busy slots and the permit in the host's hand
\* always add up to MAX_SESSION_COUNT, on every path through disconnect_client.
THEOREM PermitsTheorem == Spec => []PermitsAccounted
<1>1. IInv => PermitsAccounted
  BY DEF IInv
<1> QED
  BY <1>1, Invariance, PTL

\* activate_client always finds a free slot and never returns -1, although
\* sessions end while it scans.
THEOREM ScanTheorem == Spec => []ScanFindsSlot
<1>1. IInv => ScanFindsSlot
  BY DEF IInv
<1> QED
  BY <1>1, Invariance, PTL

\* A client thread never sleeps beside an installed client with no signal due.
THEOREM WakeupTheorem == Spec => []NoLostWakeup
<1>1. IInv => NoLostWakeup
  BY DEF IInv
<1> QED
  BY <1>1, Invariance, PTL

\* A client thread at work has a client in its slot, and no client is in two
\* slots.
THEOREM OwnershipTheorem == Spec => []SlotsOwned
<1>1. IInv => SlotsOwned
  BY DEF IInv
<1> QED
  BY <1>1, Invariance, PTL

\* waiting_disconnects is exact, and no session slips past a running handler.
THEOREM HandlerTheorem == Spec => []HandlerAccounting
<1>1. IInv => HandlerAccounting
  BY DEF IInv
<1> QED
  BY <1>1, Invariance, PTL

\* disconnect_all_clients returns only when every slot is free.
THEOREM NobodyTheorem == Spec => HandlerLeavesNobody
<1> DEFINE A == \A t \in SigThreads : hpc[t] = "await" /\ hpc'[t] = "none" => Busy = {}
<1>1. ASSUME IInv, [Next]_vars
      PROVE  [A]_vars
  <2> SUFFICES ASSUME Next, NEW t \in SigThreads, hpc[t] = "await", hpc'[t] = "none"
               PROVE  Busy = {}
    BY <1>1
  <2>1. /\ hpc \in [Threads -> SigPlaces] /\ ListLockDiscipline /\ HandlerAccounting
        /\ SigThreads \subseteq Threads
    BY <1>1 DEF IInv, TypeOK, Threads
  <2>2. PICK u \in SigThreads : SigUnlock(u)
    BY <2>1
    DEF Next, ClientStep, ThreadStep, HostStep, SigStep, ClientRegister,
        ClientRequest, ClientDisconnect, ClientCrash, ThreadTop, ThreadWake,
        ThreadGreet, ThreadCheck, ThreadServe, ThreadReadDisconnect, ThreadReadEof,
        ThreadDisconnect, HostRead, HostDiscard, HostOpen, HostOpenFails,
        HostSemWait, HostLockList, HostLockSlot, HostSkipSlot, HostActivate,
        HostUnlockList, Kill, Deliver, SigLock, SigMark, SigCollect, sigVars
  <2>3. waiting = 0 /\ waiting = Cardinality(Marked) /\ Busy \subseteq Marked
    BY <2>1, <2>2 DEF SigUnlock, HandlerAccounting
  <2>4. Marked = {}
    BY <2>3, SlotSets, FS_EmptySet DEF Marked
  <2> QED
    BY <2>3, <2>4
<1> QED
  BY <1>1, Invariance, PTL DEF Spec, HandlerLeavesNobody

\* The client in a slot changes only when the thread of the slot disconnects it:
\* the host never installs a client over one that is being served.
THEOREM KeptTheorem == Spec => SessionKept
<1> DEFINE A == \A i \in Slots :
                  owner[i] # NoClient /\ owner'[i] # owner[i] =>
                    tpc[i] \in {"bye", "drop"} /\ tpc'[i] = "top" /\ owner'[i] = NoClient
<1>1. ASSUME IInv, [Next]_vars
      PROVE  [A]_vars
  <2> SUFFICES ASSUME Next, NEW i \in Slots, owner[i] # NoClient, owner'[i] # owner[i]
               PROVE  tpc[i] \in {"bye", "drop"} /\ tpc'[i] = "top" /\ owner'[i] = NoClient
    BY <1>1
  <2>1. /\ owner \in [Slots -> Clients \cup {NoClient}] /\ tpc \in [Slots -> ThreadPlaces]
        /\ active[i] /\ (hostPc = "slot" => scan \in Slots)
    BY <1>1 DEF IInv, TypeOK, SlotsOwned
  <2>2. ~HostActivate
    BY <2>1 DEF HostActivate, HostAt
  <2>3. PICK j \in Slots : ThreadDisconnect(j)
    BY <2>2
    DEF Next, ClientStep, ThreadStep, HostStep, SigStep, ClientRegister,
        ClientRequest, ClientDisconnect, ClientCrash, ThreadTop, ThreadWake,
        ThreadGreet, ThreadCheck, ThreadServe, ThreadReadDisconnect, ThreadReadEof,
        HostRead, HostDiscard, HostOpen, HostOpenFails, HostSemWait, HostLockList,
        HostLockSlot, HostSkipSlot, HostUnlockList, Kill, Deliver, SigLock, SigMark,
        SigCollect, SigUnlock, slotVars
  <2>4. i = j
    BY <2>1, <2>3 DEF ThreadDisconnect
  <2> QED
    BY <2>1, <2>3, <2>4 DEF ThreadDisconnect
<1> QED
  BY <1>1, Invariance, PTL DEF Spec, SessionKept

-----------------------------------------------------------------------------
(* The session pool implements the session service.                        *)

\* There are at most as many clients in session as busy slots.
LEMMA SessionCount ==
  Cardinality(InSession) <= Cardinality(Busy) /\ Cardinality(InSession) \in Nat
<1> DEFINE f == [i \in Busy |-> owner[i]]
<1>1. IsFiniteSet(Busy)
  BY SlotSets DEF Busy
<1>2. f \in Surjection(Busy, InSession)
  BY DEF Surjection, InSession
<1>3. IsFiniteSet(InSession) /\ Cardinality(InSession) <= Cardinality(Busy)
  BY <1>1, <1>2, FS_Surjection
<1> QED
  BY <1>3, FS_CardinalityType

\* kvs_connect registers a client that is nowhere in the pool.
LEMMA RegisterSimulates ==
  ASSUME IInv, NEW c \in Clients, ClientRegister(c)
  PROVE  Service!Register(c)
<1>1. /\ fifo \in Seq(Clients) /\ cst[c] = "out" /\ fifo' = Append(fifo, c)
      /\ UNCHANGED <<active, owner, hostPc, hostClient>>
  BY DEF IInv, TypeOK, ClientRegister, slotVars, hostVars
<1>2. /\ \A i \in Slots : active[i] => owner[i] # c
      /\ \A a \in DOMAIN fifo : fifo[a] # c
      /\ Holding => hostClient \in Clients \ {c}
  BY <1>1 DEF IInv, Placement, Holding
<1>3. InHand \in Seq(Clients) /\ Len(InHand) \in Nat /\ UNCHANGED InHand
  BY <1>1, <1>2 DEF InHand, Holding
<1>4. Queue \in Seq(Clients) /\ Queue' = Append(Queue, c)
  <2>1. Queue \in Seq(Clients)
    BY <1>1, <1>3, ConcatProperties DEF Queue
  <2>2. fifo' = fifo \o <<c>> /\ Append(Queue, c) = Queue \o <<c>>
    BY <1>1, <2>1, AppendIsConcat
  <2>3. <<c>> \in Seq(Clients)
    OBVIOUS
  <2> QED
    BY <1>1, <1>3, <2>1, <2>2, <2>3, ConcatAssociative DEF Queue
<1>5. ASSUME NEW k \in DOMAIN Queue
      PROVE  Queue[k] # c
  <2>1. /\ k \in 1 .. Len(InHand) + Len(fifo)
        /\ Queue[k] = IF k <= Len(InHand) THEN InHand[k] ELSE fifo[k - Len(InHand)]
    BY <1>1, <1>3, <1>4, <1>5, ConcatProperties DEF Queue
  <2>2. CASE k <= Len(InHand)
    BY <1>2, <2>1, <2>2 DEF InHand
  <2>3. CASE k > Len(InHand)
    <3> k - Len(InHand) \in DOMAIN fifo
      BY <1>1, <1>3, <2>1, <2>3, LenProperties
    <3> QED
      BY <1>2, <1>3, <2>1, <2>3
  <2> QED
    BY <1>3, <2>1, <2>2, <2>3, LenProperties
<1>6. c \notin InSession /\ UNCHANGED InSession
  BY <1>1, <1>2 DEF InSession, Busy
<1> QED
  BY <1>4, <1>5, <1>6 DEF Service!Register

\* While the host has a client in hand, the client is the head of the queue and
\* the FIFO is the rest.
LEMMA HandFirst ==
  ASSUME IInv, Holding
  PROVE  Queue # <<>> /\ Head(Queue) = hostClient /\ Tail(Queue) = fifo
<1>1. fifo \in Seq(Clients) /\ hostClient \in Clients
  BY DEF IInv, TypeOK, Placement
<1>2. Queue = <<hostClient>> \o fifo /\ <<hostClient>> \in Seq(Clients)
  BY <1>1 DEF Queue, InHand
<1>3. /\ Queue \in Seq(Clients) /\ Len(Queue) = 1 + Len(fifo) /\ Len(fifo) \in Nat
      /\ \A k \in 1 .. 1 + Len(fifo) :
           Queue[k] = IF k <= 1 THEN hostClient ELSE fifo[k - 1]
  BY <1>1, <1>2, ConcatProperties, LenProperties
<1>4. Queue # <<>>
  BY <1>3
<1>5. /\ Tail(Queue) \in Seq(Clients) /\ Len(Tail(Queue)) = Len(fifo)
      /\ \A k \in 1 .. Len(fifo) : Tail(Queue)[k] = Queue[k + 1]
  BY <1>3, <1>4, HeadTailProperties
<1>6. \A k \in 1 .. Len(fifo) : Tail(Queue)[k] = fifo[k]
  BY <1>3, <1>5
<1> QED
  BY <1>1, <1>3, <1>4, <1>5, <1>6, SeqEqual

\* activate_client admits the head of the queue, below the limit.
LEMMA ActivateSimulates ==
  ASSUME IInv, HostActivate
  PROVE  Service!Admit
<1>1. /\ fifo \in Seq(Clients) /\ active \in [Slots -> BOOLEAN] /\ sem \in Nat
      /\ owner \in [Slots -> Clients \cup {NoClient}]
      /\ scan \in Slots /\ ~active[scan] /\ hostPc = "slot" /\ hostPc' = "unlockList"
      /\ active' = [active EXCEPT ![scan] = TRUE]
      /\ owner' = [owner EXCEPT ![scan] = hostClient] /\ fifo' = fifo
  BY DEF IInv, TypeOK, HostActivate, HostAt, clientVars
<1>2. /\ hostClient \in Clients /\ \A i \in Slots : owner[i] # hostClient
  BY <1>1 DEF IInv, Placement, Holding
<1>3. Queue # <<>> /\ Head(Queue) = hostClient /\ Tail(Queue) = fifo
  BY <1>1, HandFirst DEF Holding
<1>4. Queue' = fifo
  BY <1>1, ConcatEmptySeq DEF Queue, InHand, Holding
<1>5. hostClient \notin InSession /\ InSession' = InSession \cup {hostClient}
  BY <1>1, <1>2 DEF InSession, Busy
<1>6. Cardinality(InSession) < MAX_SESSION_COUNT
  <2>1. sem + Cardinality(Busy) + 1 = MAX_SESSION_COUNT
    BY <1>1 DEF IInv, PermitsAccounted, HoldsPermit
  <2>2. Cardinality(Busy) \in Nat
    BY SlotSets DEF Busy
  <2> QED
    BY <1>1, <2>1, <2>2, SessionCount, SlotAssumption
<1>7. Service!Cardinality(InSession) = Cardinality(InSession)
  BY Zenon DEF Service!Cardinality, Cardinality
<1> QED
  BY <1>3, <1>4, <1>5, <1>6, <1>7 DEF Service!Admit

\* disconnect_client ends the session of one client only.
LEMMA DisconnectSimulates ==
  ASSUME IInv, NEW i \in Slots, ThreadDisconnect(i)
  PROVE  Service!Leave(owner[i]) /\ owner[i] \in Clients
<1>1. /\ active \in [Slots -> BOOLEAN] /\ owner \in [Slots -> Clients \cup {NoClient}]
      /\ active[i] /\ owner[i] # NoClient
      /\ \A j \in Slots : owner[i] = owner[j] => i = j
      /\ active' = [active EXCEPT ![i] = FALSE]
      /\ owner' = [owner EXCEPT ![i] = NoClient]
      /\ UNCHANGED <<fifo, hostPc, hostClient>>
  BY DEF IInv, TypeOK, SlotsOwned, ThreadDisconnect, hostVars
<1>2. owner[i] \in InSession /\ InSession' = InSession \ {owner[i]}
  BY <1>1 DEF InSession, Busy
<1>3. UNCHANGED Queue
  BY <1>1 DEF Queue, InHand, Holding
<1> QED
  BY <1>1, <1>2, <1>3 DEF Service!Leave

\* Reading a registration moves the client from the FIFO into the host's hand.
LEMMA ReadStutters ==
  ASSUME IInv, HostRead
  PROVE  UNCHANGED <<Queue, InSession>>
<1>1. /\ fifo \in Seq(Clients) /\ fifo # <<>>
      /\ hostPc = "read" /\ hostPc' = "open"
      /\ hostClient' = Head(fifo) /\ fifo' = Tail(fifo) /\ UNCHANGED <<active, owner>>
  BY DEF IInv, TypeOK, HostRead, HostAt, slotVars
<1>2. Queue = fifo
  BY <1>1, ConcatEmptySeq DEF Queue, InHand, Holding
<1>3. Queue' = <<Head(fifo)>> \o Tail(fifo)
  BY <1>1 DEF Queue, InHand, Holding
<1>4. <<Head(fifo)>> \o Tail(fifo) = fifo
  <2>1. /\ Head(fifo) \in Clients /\ Head(fifo) = fifo[1] /\ Tail(fifo) \in Seq(Clients)
        /\ Len(Tail(fifo)) = Len(fifo) - 1 /\ Len(fifo) \in Nat
        /\ \A k \in 1 .. Len(fifo) - 1 : Tail(fifo)[k] = fifo[k + 1]
    BY <1>1, HeadTailProperties, LenProperties
  <2> DEFINE s == <<Head(fifo)>>
             r == s \o Tail(fifo)
  <2>2. s \in Seq(Clients) /\ Len(s) = 1 /\ s[1] = fifo[1]
    BY <2>1
  <2> HIDE DEF s
  <2>3. /\ r \in Seq(Clients) /\ Len(r) = Len(fifo)
        /\ \A k \in 1 .. Len(fifo) : r[k] = IF k <= 1 THEN s[k] ELSE Tail(fifo)[k - 1]
    <3>1. /\ r \in Seq(Clients) /\ Len(r) = Len(s) + Len(Tail(fifo))
          /\ \A k \in 1 .. Len(s) + Len(Tail(fifo)) :
               r[k] = IF k <= Len(s) THEN s[k] ELSE Tail(fifo)[k - Len(s)]
      <4> DEFINE t == Tail(fifo)
      <4>1. t \in Seq(Clients)
        BY <2>1
      <4> HIDE DEF t
      <4>2. /\ s \o t \in Seq(Clients) /\ Len(s \o t) = Len(s) + Len(t)
            /\ \A k \in 1 .. Len(s) + Len(t) :
                 (s \o t)[k] = IF k <= Len(s) THEN s[k] ELSE t[k - Len(s)]
        BY <2>2, <4>1, ConcatProperties
      <4> QED
        BY <4>2 DEF t
    <3>2. Len(s) + Len(Tail(fifo)) = Len(fifo)
      BY <2>1, <2>2
    <3> QED
      BY <2>2, <3>1, <3>2
  <2>4. \A k \in 1 .. Len(fifo) : r[k] = fifo[k]
    BY <2>1, <2>2, <2>3
  <2> HIDE DEF r
  <2>5. r = fifo
    BY <1>1, <2>3, <2>4, SeqEqual
  <2> QED
    BY <2>5 DEF r, s
<1> QED
  BY <1>1, <1>2, <1>3, <1>4 DEF InSession, Busy

\* A registration that is thrown away is refused, and so is the client in the
\* host's hand when a pipe cannot be opened.
LEMMA RefuseSimulates ==
  ASSUME IInv, HostDiscard \/ HostOpenFails
  PROVE  Service!Refuse
<1>1. fifo \in Seq(Clients) /\ Failures /\ UNCHANGED <<active, owner>>
  BY DEF IInv, TypeOK, HostDiscard, HostOpenFails, slotVars
<1>2. UNCHANGED InSession
  BY <1>1 DEF InSession, Busy
<1>3. CASE HostDiscard
  <2>1. /\ hostPc = "read" /\ hostPc' = "read"
        /\ fifo # <<>> /\ fifo' = Tail(fifo) /\ fifo' \in Seq(Clients)
    BY <1>1, <1>3, HeadTailProperties DEF HostDiscard, HostAt, hostVars
  <2>2. Queue = fifo /\ Queue' = fifo'
    BY <1>1, <2>1, ConcatEmptySeq DEF Queue, InHand, Holding
  <2> QED
    BY <1>1, <1>2, <2>1, <2>2 DEF Service!Refuse
<1>4. CASE HostOpenFails
  <2>1. hostPc = "open" /\ hostPc' = "read" /\ fifo' = fifo
    BY <1>4 DEF HostOpenFails, HostAt
  <2>2. Queue # <<>> /\ Tail(Queue) = fifo
    BY <2>1, HandFirst DEF Holding
  <2>3. Queue' = fifo
    BY <1>1, <2>1, ConcatEmptySeq DEF Queue, InHand, Holding
  <2> QED
    BY <1>1, <1>2, <2>2, <2>3 DEF Service!Refuse
<1> QED
  BY <1>3, <1>4

\* Every step of the pool is a step of the service or leaves it as it is.
LEMMA StepSimulates ==
  ASSUME IInv, [Next]_vars
  PROVE  [Service!Next]_<<Queue, InSession>>
<1>1. ASSUME NEW c \in Clients, ClientRegister(c)
      PROVE  Service!Next
  BY <1>1, RegisterSimulates DEF Service!Next
<1>2. CASE HostActivate
  BY <1>2, ActivateSimulates DEF Service!Next
<1>3. ASSUME NEW i \in Slots, ThreadDisconnect(i)
      PROVE  Service!Next
  <2>1. owner[i] \in Clients /\ Service!Leave(owner[i])
    BY <1>3, DisconnectSimulates
  <2>2. \E c \in Clients : Service!Leave(c)
    BY Zenon, <2>1
  <2> QED
    BY <2>2 DEF Service!Next
<1>4. CASE HostRead
  BY <1>4, ReadStutters
<1>7. CASE HostDiscard \/ HostOpenFails
  BY <1>7, RefuseSimulates DEF Service!Next
<1>5. CASE HostUnlockList
  <2>1. hostPc = "unlockList"
    BY <1>5, SlotAssumption DEF HostUnlockList, HostAt, IInv, ScanFindsSlot, Slots
  <2> QED
    BY <1>5, <2>1
    DEF HostUnlockList, slotVars, Queue, InHand, Holding, InSession, Busy
<1>6. CASE /\ UNCHANGED <<fifo, active, owner, hostClient>>
           /\ Holding' = Holding
  BY <1>6 DEF Queue, InHand, InSession, Busy
<1> QED
  BY <1>1, <1>2, <1>3, <1>4, <1>5, <1>6, <1>7
  DEF Next, ClientStep, ThreadStep, HostStep, SigStep, ClientRequest,
      ClientDisconnect, ClientCrash, ThreadTop, ThreadWake, ThreadGreet,
      ThreadCheck, ThreadServe, ThreadReadDisconnect, ThreadReadEof, HostAt,
      HostOpen, HostSemWait, HostLockList, HostLockSlot, HostSkipSlot, Kill,
      Deliver, SigLock, SigMark, SigCollect, SigUnlock, vars, clientVars, slotVars,
      hostVars, Holding

\* The pool of threads, mutexes and permits implements the session service:
\* clients are admitted (or refused, when the host fails to read or to open) in
\* registration order, never more than there are slots and none twice (handle_fifo,
\* activate_client, client_thread).
THEOREM Refinement == Spec => ImplementsService
<1>1. Init => Service!Init
  <2> SUFFICES ASSUME Init PROVE Service!Init
    OBVIOUS
  <2>1. Queue = <<>>
    BY DEF Init, Queue, InHand, Holding
  <2>2. InSession = {}
    BY DEF Init, InSession, Busy
  <2> QED
    BY <2>1, <2>2 DEF Service!Init
<1>2. IInv /\ [Next]_vars => [Service!Next]_<<Queue, InSession>>
  BY StepSimulates
<1> QED
  BY <1>1, <1>2, Invariance, PTL DEF Spec, ImplementsService, Service!Spec

=============================================================================
