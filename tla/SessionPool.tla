----------------------------- MODULE SessionPool -----------------------------
(***************************************************************************)
(* The session pool of the server: the host thread (handle_fifo in main.c) *)
(* admits registered clients into MAX_SESSION_COUNT slots, one             *)
(* client_thread per slot serves the client installed there, and the       *)
(* SIGUSR1 handler (disconnect_all_clients) throws every client out.       *)
(*                                                                         *)
(* One action is one critical section or one blocking system call.  A      *)
(* section guarded by clientMutex is one action, except the host's, which  *)
(* SIGUSR1 can interrupt half-way: it is split into lock and body.         *)
(***************************************************************************)
EXTENDS Integers, Sequences, FiniteSets

CONSTANTS
  MAX_SESSION_COUNT, \* number of session slots (and of client threads)
  Clients,           \* client processes; one of them may come back many times
  Crashers,          \* the clients that may die without disconnecting
  Failures,          \* whether the host may fail to read or to open
  Host,              \* the thread that runs handle_fifo
  SigThreads,        \* the threads the kernel may choose to run handle_sigusr1
  NoThread, NoClient

ASSUME SlotAssumption   == MAX_SESSION_COUNT \in Nat \ {0}
ASSUME ClientAssumption == Crashers \subseteq Clients /\ NoClient \notin Clients
ASSUME FailureAssumption == Failures \in BOOLEAN
ASSUME ThreadAssumption == NoThread \notin SigThreads \cup {Host}

Slots   == 1 .. MAX_SESSION_COUNT
Threads == SigThreads \cup {Host}

VARIABLES
  fifo,       \* the registration FIFO: clients whose message is not read yet
  cst,        \* where each client process is
  pipe,       \* what each client's request pipe holds
  up,         \* FALSE once SIGPIPE has killed the server process
  sem,        \* client_sem
  listc,      \* the holder of listc_mutex
  mutex,      \* the host's hold on each clientMutex (other holds are atomic)
  active,     \* clients_data[i].active
  force,      \* clients_data[i].force_disconnect
  owner,      \* whose pipes clients_data[i].fds are
  woken,      \* a pthread_cond_signal the waiting client thread has not consumed
  tpc,        \* where the client thread of each slot is
  hostPc, hostClient, scan,  \* the host: place, client at hand, loop index
  pending,    \* SIGUSR1 is pending for the process
  hpc,        \* where each thread is in handle_sigusr1 ("none": not in it)
  hi, waiting \* loop index and waiting_disconnects of the thread holding listc

clientVars == <<fifo, cst, pipe>>
slotVars   == <<mutex, active, force, owner, woken, tpc>>
hostVars   == <<hostPc, hostClient, scan>>
sigVars    == <<pending, hpc, hi, waiting>>
vars == <<clientVars, up, sem, listc, slotVars, hostVars, sigVars>>

\* "stuck" is a client in open() on a pipe that the server will never open.
ClientStates == {"out", "registered", "opened", "ready", "waitOp", "waitDisc",
                 "stuck", "crashed"}
ThreadPlaces == {"top", "wait", "greet", "check", "read", "bye", "drop"}
HostPlaces   == {"read", "open", "semWait", "lockList", "lockSlot", "slot",
                 "unlockList"}
SigPlaces    == {"none", "lock", "mark", "await"}

-----------------------------------------------------------------------------
(* Client processes, as the server sees them through the pipes.            *)

\* kvs_connect: make the pipes, write the registration message.
ClientRegister(c) ==
  /\ cst[c] = "out"
  /\ cst' = [cst EXCEPT ![c] = "registered"]
  /\ fifo' = Append(fifo, c)
  /\ UNCHANGED <<pipe, up, sem, listc, slotVars, hostVars, sigVars>>

\* kvs_subscribe, kvs_unsubscribe: one request, then block on the response.
ClientRequest(c) ==
  /\ cst[c] = "ready"
  /\ cst' = [cst EXCEPT ![c] = "waitOp"]
  /\ pipe' = [pipe EXCEPT ![c] = "op"]
  /\ UNCHANGED <<fifo, up, sem, listc, slotVars, hostVars, sigVars>>

\* kvs_disconnect: send OP_CODE_DISCONNECT, then block on the response.
ClientDisconnect(c) ==
  /\ cst[c] = "ready"
  /\ cst' = [cst EXCEPT ![c] = "waitDisc"]
  /\ pipe' = [pipe EXCEPT ![c] = "disc"]
  /\ UNCHANGED <<fifo, up, sem, listc, slotVars, hostVars, sigVars>>

\* The process dies: its pipe ends close, what it wrote stays in the pipes.
ClientCrash(c) ==
  /\ c \in Crashers
  /\ cst[c] \notin {"out", "crashed"}
  /\ cst' = [cst EXCEPT ![c] = "crashed"]
  /\ UNCHANGED <<fifo, pipe, up, sem, listc, slotVars, hostVars, sigVars>>

-----------------------------------------------------------------------------
(* write_all on a response pipe.  Nobody ignores SIGPIPE, so a write to a  *)
(* pipe whose reader is gone kills the server instead of returning -1.     *)

Reply(c, next) ==
  IF cst[c] = "crashed"
  THEN up' = FALSE /\ UNCHANGED cst
  ELSE cst' = [cst EXCEPT ![c] = next] /\ UNCHANGED up

\* The server closed every pipe of c: a live client reads end of file.
Hangup(c) ==
  /\ cst' = IF cst[c] = "crashed" THEN cst ELSE [cst EXCEPT ![c] = "out"]
  /\ UNCHANGED up

\* The server drops c without a word: a live client stays in its open().
Abandon(c) ==
  /\ cst' = IF cst[c] = "crashed" THEN cst ELSE [cst EXCEPT ![c] = "stuck"]
  /\ UNCHANGED up

-----------------------------------------------------------------------------
(* client_thread, one per slot.                                            *)

\* Top of the loop: lock, look at force_disconnect and active, unlock.
ThreadTop(i) ==
  /\ up /\ tpc[i] = "top" /\ mutex[i] = NoThread
  /\ tpc' = [tpc EXCEPT ![i] = IF force[i]
                               THEN IF active[i] THEN "drop" ELSE "top"
                               ELSE IF active[i] THEN "greet" ELSE "wait"]
  /\ UNCHANGED <<clientVars, up, sem, listc, mutex, active, force, owner, woken,
                 hostVars, sigVars>>

\* pthread_cond_wait returns, signalled or spuriously, with the mutex held.
ThreadWake(i) ==
  /\ up /\ tpc[i] = "wait" /\ mutex[i] = NoThread
  /\ woken' = [woken EXCEPT ![i] = FALSE]
  /\ tpc' = [tpc EXCEPT ![i] = IF force[i] THEN "top"
                               ELSE IF active[i] THEN "greet" ELSE "wait"]
  /\ UNCHANGED <<clientVars, up, sem, listc, mutex, active, force, owner,
                 hostVars, sigVars>>

\* Send OK to the client just installed.
ThreadGreet(i) ==
  /\ up /\ tpc[i] = "greet"
  /\ Reply(owner[i], "ready")
  /\ tpc' = [tpc EXCEPT ![i] = "check"]
  /\ UNCHANGED <<fifo, pipe, sem, listc, mutex, active, force, owner, woken,
                 hostVars, sigVars>>

\* Head of the request loop: lock, look at force_disconnect, unlock.
ThreadCheck(i) ==
  /\ up /\ tpc[i] = "check" /\ mutex[i] = NoThread
  /\ tpc' = [tpc EXCEPT ![i] = IF force[i] THEN "drop" ELSE "read"]
  /\ UNCHANGED <<clientVars, up, sem, listc, mutex, active, force, owner, woken,
                 hostVars, sigVars>>

\* Mutant: a request is served and not answered.
ThreadServe_Silent(i) ==
  /\ up /\ tpc[i] = "read" /\ pipe[owner[i]] = "op"
  /\ pipe' = [pipe EXCEPT ![owner[i]] = "empty"]
  /\ tpc' = [tpc EXCEPT ![i] = "check"]
  /\ UNCHANGED <<fifo, cst, up, sem, listc, mutex, active, force, owner, woken,
                 hostVars, sigVars>>

\* A subscribe or unsubscribe request: read it, serve it, answer.
ThreadServe(i) ==
  /\ up /\ tpc[i] = "read" /\ pipe[owner[i]] = "op"
  /\ pipe' = [pipe EXCEPT ![owner[i]] = "empty"]
  /\ Reply(owner[i], "ready")
  /\ tpc' = [tpc EXCEPT ![i] = "check"]
  /\ UNCHANGED <<fifo, sem, listc, mutex, active, force, owner, woken,
                 hostVars, sigVars>>

\* OP_CODE_DISCONNECT: leave the loop with disconnect = 1, fail = 0.
ThreadReadDisconnect(i) ==
  /\ up /\ tpc[i] = "read" /\ pipe[owner[i]] = "disc"
  /\ pipe' = [pipe EXCEPT ![owner[i]] = "empty"]
  /\ tpc' = [tpc EXCEPT ![i] = "bye"]
  /\ UNCHANGED <<fifo, cst, up, sem, listc, mutex, active, force, owner, woken,
                 hostVars, sigVars>>

\* End of file: leave the loop with disconnect = 1, fail = 1.
ThreadReadEof(i) ==
  /\ up /\ tpc[i] = "read"
  /\ pipe[owner[i]] = "empty" /\ cst[owner[i]] = "crashed"
  /\ tpc' = [tpc EXCEPT ![i] = "drop"]
  /\ UNCHANGED <<clientVars, up, sem, listc, mutex, active, force, owner, woken,
                 hostVars, sigVars>>

\* Mutant: the permit is not given back.
ThreadDisconnect_NoPost(i) ==
  /\ up /\ tpc[i] \in {"bye", "drop"} /\ mutex[i] = NoThread
  /\ IF tpc[i] = "bye" THEN Reply(owner[i], "out") ELSE Hangup(owner[i])
  /\ pipe' = [pipe EXCEPT ![owner[i]] = "empty"]
  /\ owner' = [owner EXCEPT ![i] = NoClient]
  /\ active' = [active EXCEPT ![i] = FALSE]
  /\ tpc' = [tpc EXCEPT ![i] = "top"]
  /\ UNCHANGED <<fifo, sem, listc, mutex, force, woken, hostVars, sigVars>>

\* Mutant: the descriptors stay in the slot.
ThreadDisconnect_KeepsFds(i) ==
  /\ up /\ tpc[i] \in {"bye", "drop"} /\ mutex[i] = NoThread
  /\ IF tpc[i] = "bye" THEN Reply(owner[i], "out") ELSE Hangup(owner[i])
  /\ pipe' = [pipe EXCEPT ![owner[i]] = "empty"]
  /\ active' = [active EXCEPT ![i] = FALSE]
  /\ sem' = sem + 1
  /\ tpc' = [tpc EXCEPT ![i] = "top"]
  /\ UNCHANGED <<fifo, listc, mutex, force, owner, woken, hostVars, sigVars>>

\* disconnect_client: close the pipes (answering first unless the client is
\* being dropped), clear the slot, give the permit back.
ThreadDisconnect(i) ==
  /\ up /\ tpc[i] \in {"bye", "drop"} /\ mutex[i] = NoThread
  /\ IF tpc[i] = "bye" THEN Reply(owner[i], "out") ELSE Hangup(owner[i])
  /\ pipe' = [pipe EXCEPT ![owner[i]] = "empty"]
  /\ owner' = [owner EXCEPT ![i] = NoClient]
  /\ active' = [active EXCEPT ![i] = FALSE]
  /\ sem' = sem + 1
  /\ tpc' = [tpc EXCEPT ![i] = "top"]
  /\ UNCHANGED <<fifo, listc, mutex, force, woken, hostVars, sigVars>>

-----------------------------------------------------------------------------
(* The host thread: handle_fifo and activate_client.  It stands still while *)
(* it runs the signal handler.                                              *)

HostAt(place) == up /\ hostPc = place /\ hpc[Host] = "none"

\* Read one registration message.  A read that returns 0 or -1 is tried again
\* and changes nothing; every message has the opcode CONNECT (api.c).
HostRead ==
  /\ HostAt("read") /\ fifo # <<>>
  /\ hostClient' = Head(fifo)
  /\ fifo' = Tail(fifo)
  /\ hostPc' = "open"
  /\ UNCHANGED <<cst, pipe, up, sem, listc, slotVars, scan, sigVars>>

\* The message is read while errno is still EINTR from an earlier call, which
\* the host takes for an interrupted read: the registration is thrown away.
HostDiscard ==
  /\ Failures /\ HostAt("read") /\ fifo # <<>>
  /\ Abandon(Head(fifo))
  /\ fifo' = Tail(fifo)
  /\ UNCHANGED <<pipe, sem, listc, slotVars, hostVars, sigVars>>

\* Open the three pipes.  Each open blocks until the client opens the other
\* end, so a client that died before that blocks the host for ever.
HostOpen ==
  /\ HostAt("open") /\ cst[hostClient] = "registered"
  /\ cst' = [cst EXCEPT ![hostClient] = "opened"]
  /\ hostPc' = "semWait"
  /\ UNCHANGED <<fifo, pipe, up, sem, listc, slotVars, hostClient, scan, sigVars>>

\* An open fails (no descriptor left).  If it is the first, of the response
\* pipe, nothing is said; otherwise an error is written to the response pipe,
\* where the client, still in an open() of its own, does not read it.
HostOpenFails ==
  /\ Failures /\ HostAt("open")
  /\ Abandon(hostClient) \/ Reply(hostClient, "stuck")
  /\ hostPc' = "read"
  /\ hostClient' = NoClient
  /\ UNCHANGED <<fifo, pipe, sem, listc, slotVars, scan, sigVars>>

\* Mutant: sem_wait fails (EINTR, say) and its result is not looked at.
HostSemWait_NoWait ==
  /\ HostAt("semWait")
  /\ sem' = IF sem > 0 THEN sem - 1 ELSE 0
  /\ hostPc' = "lockList"
  /\ UNCHANGED <<clientVars, up, listc, slotVars, hostClient, scan, sigVars>>

\* sem_wait, with SIGUSR1 blocked.
HostSemWait ==
  /\ HostAt("semWait") /\ sem > 0
  /\ sem' = sem - 1
  /\ hostPc' = "lockList"
  /\ UNCHANGED <<clientVars, up, listc, slotVars, hostClient, scan, sigVars>>

\* Mutant: activate_client does not take listc_mutex.
HostLockList_NoLock ==
  /\ HostAt("lockList")
  /\ scan' = 1
  /\ hostPc' = "lockSlot"
  /\ UNCHANGED <<clientVars, up, sem, listc, slotVars, hostClient, sigVars>>

HostLockList ==
  /\ HostAt("lockList") /\ listc = NoThread
  /\ listc' = Host
  /\ scan' = 1
  /\ hostPc' = "lockSlot"
  /\ UNCHANGED <<clientVars, up, sem, slotVars, hostClient, sigVars>>

HostLockSlot ==
  /\ HostAt("lockSlot") /\ scan \in Slots /\ mutex[scan] = NoThread
  /\ mutex' = [mutex EXCEPT ![scan] = Host]
  /\ hostPc' = "slot"
  /\ UNCHANGED <<clientVars, up, sem, listc, active, force, owner, woken, tpc,
                 hostClient, scan, sigVars>>

\* The locked slot is taken: go on to the next one.
HostSkipSlot ==
  /\ HostAt("slot") /\ active[scan]
  /\ mutex' = [mutex EXCEPT ![scan] = NoThread]
  /\ scan' = scan + 1
  /\ hostPc' = "lockSlot"
  /\ UNCHANGED <<clientVars, up, sem, listc, active, force, owner, woken, tpc,
                 hostClient, sigVars>>

\* Mutant: the client is installed without a look at active.
HostActivate_Overwrites ==
  /\ HostAt("slot")
  /\ owner' = [owner EXCEPT ![scan] = hostClient]
  /\ active' = [active EXCEPT ![scan] = TRUE]
  /\ woken' = [woken EXCEPT ![scan] = @ \/ tpc[scan] = "wait"]
  /\ mutex' = [mutex EXCEPT ![scan] = NoThread]
  /\ hostPc' = "unlockList"
  /\ UNCHANGED <<clientVars, up, sem, listc, force, tpc, hostClient, scan,
                 sigVars>>

\* Mutant: the thread of the slot is not signalled.
HostActivate_NoSignal ==
  /\ HostAt("slot") /\ ~active[scan]
  /\ owner' = [owner EXCEPT ![scan] = hostClient]
  /\ active' = [active EXCEPT ![scan] = TRUE]
  /\ mutex' = [mutex EXCEPT ![scan] = NoThread]
  /\ hostPc' = "unlockList"
  /\ UNCHANGED <<clientVars, up, sem, listc, force, woken, tpc, hostClient, scan,
                 sigVars>>

\* The locked slot is free: install the client and signal its thread.  The
\* signal is lost unless the thread is in pthread_cond_wait.
HostActivate ==
  /\ HostAt("slot") /\ ~active[scan]
  /\ owner' = [owner EXCEPT ![scan] = hostClient]
  /\ active' = [active EXCEPT ![scan] = TRUE]
  /\ woken' = [woken EXCEPT ![scan] = @ \/ tpc[scan] = "wait"]
  /\ mutex' = [mutex EXCEPT ![scan] = NoThread]
  /\ hostPc' = "unlockList"
  /\ UNCHANGED <<clientVars, up, sem, listc, force, tpc, hostClient, scan,
                 sigVars>>

\* Release listc_mutex and go back to the FIFO.  A scan that ran past the last
\* slot returns -1: the client is refused, and the permit stays taken.
HostUnlockList ==
  /\ \/ HostAt("unlockList")
     \/ HostAt("lockSlot") /\ scan = MAX_SESSION_COUNT + 1
  /\ listc' = NoThread
  /\ IF hostPc = "unlockList" THEN UNCHANGED <<cst, up>>
                              ELSE Reply(hostClient, "out")
  /\ hostPc' = "read"
  /\ hostClient' = NoClient
  /\ scan' = 1
  /\ UNCHANGED <<fifo, pipe, sem, slotVars, sigVars>>

-----------------------------------------------------------------------------
(* SIGUSR1.                                                                *)

\* Somebody sends SIGUSR1 to the server; a second one merges with a pending one.
Kill ==
  /\ up /\ ~pending
  /\ pending' = TRUE
  /\ UNCHANGED <<clientVars, up, sem, listc, slotVars, hostVars, hpc, hi, waiting>>

\* The kernel interrupts thread t, which must not be blocking the signal: the
\* host blocks it around sem_wait, every thread while it is in the handler, and
\* the client threads always.
Deliver(t) ==
  /\ up /\ pending /\ hpc[t] = "none"
  /\ t = Host => hostPc # "semWait"
  /\ pending' = FALSE
  /\ hpc' = [hpc EXCEPT ![t] = "lock"]
  /\ UNCHANGED <<clientVars, up, sem, listc, slotVars, hostVars, hi, waiting>>

\* disconnect_all_clients takes listc_mutex, which is not recursive.
SigLock(t) ==
  /\ up /\ hpc[t] = "lock" /\ listc = NoThread
  /\ listc' = t
  /\ hi' = 1 /\ waiting' = 0
  /\ hpc' = [hpc EXCEPT ![t] = "mark"]
  /\ UNCHANGED <<clientVars, up, sem, slotVars, hostVars, pending>>

\* Mutant: the loop index is not reset for the second loop.
SigMark_NoReset(t) ==
  /\ up /\ hpc[t] = "mark" /\ mutex[hi] = NoThread
  /\ force' = [force EXCEPT ![hi] = @ \/ active[hi]]
  /\ waiting' = IF active[hi] THEN waiting + 1 ELSE waiting
  /\ hi' = hi + 1
  /\ hpc' = [hpc EXCEPT ![t] = IF hi = MAX_SESSION_COUNT THEN "await" ELSE "mark"]
  /\ UNCHANGED <<clientVars, up, sem, listc, mutex, active, owner, woken, tpc,
                 hostVars, pending>>

\* Mutant: every slot is counted, whether a client is in it or not.
SigMark_CountsAll(t) ==
  /\ up /\ hpc[t] = "mark" /\ mutex[hi] = NoThread
  /\ force' = [force EXCEPT ![hi] = @ \/ active[hi]]
  /\ waiting' = waiting + 1
  /\ hi' = IF hi = MAX_SESSION_COUNT THEN 1 ELSE hi + 1
  /\ hpc' = [hpc EXCEPT ![t] = IF hi = MAX_SESSION_COUNT THEN "await" ELSE "mark"]
  /\ UNCHANGED <<clientVars, up, sem, listc, mutex, active, owner, woken, tpc,
                 hostVars, pending>>

\* First loop: mark one slot, if a client is in it.
SigMark(t) ==
  /\ up /\ hpc[t] = "mark" /\ mutex[hi] = NoThread
  /\ force' = [force EXCEPT ![hi] = @ \/ active[hi]]
  /\ waiting' = IF active[hi] THEN waiting + 1 ELSE waiting
  /\ hi' = IF hi = MAX_SESSION_COUNT THEN 1 ELSE hi + 1
  /\ hpc' = [hpc EXCEPT ![t] = IF hi = MAX_SESSION_COUNT THEN "await" ELSE "mark"]
  /\ UNCHANGED <<clientVars, up, sem, listc, mutex, active, owner, woken, tpc,
                 hostVars, pending>>

\* Mutant: a mark is collected while its session is still open.
SigCollect_TooSoon(t, i) ==
  /\ up /\ hpc[t] = "await" /\ mutex[i] = NoThread
  /\ waiting > 0 /\ force[i]
  /\ force' = [force EXCEPT ![i] = FALSE]
  /\ waiting' = waiting - 1
  /\ UNCHANGED <<clientVars, up, sem, listc, mutex, active, owner, woken, tpc,
                 hostVars, pending, hpc, hi>>

\* Second loop: it goes round the slots until every marked one has been seen
\* inactive.  The order of the visits is left open.
SigCollect(t, i) ==
  /\ up /\ hpc[t] = "await" /\ mutex[i] = NoThread
  /\ waiting > 0 /\ force[i] /\ ~active[i]
  /\ force' = [force EXCEPT ![i] = FALSE]
  /\ waiting' = waiting - 1
  /\ UNCHANGED <<clientVars, up, sem, listc, mutex, active, owner, woken, tpc,
                 hostVars, pending, hpc, hi>>

SigUnlock(t) ==
  /\ up /\ hpc[t] = "await" /\ waiting = 0
  /\ listc' = NoThread
  /\ hpc' = [hpc EXCEPT ![t] = "none"]
  /\ UNCHANGED <<clientVars, up, sem, slotVars, hostVars, pending, hi, waiting>>

-----------------------------------------------------------------------------
\* start_client_threads has run, every slot is free, every permit is there.
Init ==
  /\ fifo = <<>>
  /\ cst = [c \in Clients |-> "out"]
  /\ pipe = [c \in Clients |-> "empty"]
  /\ up = TRUE
  /\ sem = MAX_SESSION_COUNT
  /\ listc = NoThread
  /\ mutex = [i \in Slots |-> NoThread]
  /\ active = [i \in Slots |-> FALSE]
  /\ force = [i \in Slots |-> FALSE]
  /\ owner = [i \in Slots |-> NoClient]
  /\ woken = [i \in Slots |-> FALSE]
  /\ tpc = [i \in Slots |-> "top"]
  /\ hostPc = "read" /\ hostClient = NoClient /\ scan = 1
  /\ pending = FALSE
  /\ hpc = [t \in Threads |-> "none"]
  /\ hi = 1 /\ waiting = 0

ClientStep(c) ==
  ClientRegister(c) \/ ClientRequest(c) \/ ClientDisconnect(c) \/ ClientCrash(c)

ThreadStep(i) ==
  \/ ThreadTop(i) \/ ThreadWake(i) \/ ThreadGreet(i) \/ ThreadCheck(i)
  \/ ThreadServe(i) \/ ThreadReadDisconnect(i) \/ ThreadReadEof(i)
  \/ ThreadDisconnect(i)

HostStep ==
  \/ HostRead \/ HostDiscard \/ HostOpen \/ HostOpenFails
  \/ HostSemWait \/ HostLockList
  \/ HostLockSlot \/ HostSkipSlot \/ HostActivate \/ HostUnlockList

SigStep(t) ==
  SigLock(t) \/ SigMark(t) \/ (\E i \in Slots : SigCollect(t, i)) \/ SigUnlock(t)

Next ==
  \/ \E c \in Clients : ClientStep(c)
  \/ \E i \in Slots : ThreadStep(i)
  \/ HostStep
  \/ Kill
  \/ \E t \in SigThreads : Deliver(t) \/ SigStep(t)

Spec == Init /\ [][Next]_vars

-----------------------------------------------------------------------------
(* Correctness.                                                            *)

\* Every variable keeps its type.  client_sem never passes MAX_SESSION_COUNT, and
\* the loop indexes of the host and of the handler stay within the slots.
TypeOK ==
  /\ fifo \in Seq(Clients)
  /\ cst \in [Clients -> ClientStates]
  /\ pipe \in [Clients -> {"empty", "op", "disc"}]
  /\ up \in BOOLEAN
  /\ sem \in 0 .. MAX_SESSION_COUNT
  /\ listc \in Threads \cup {NoThread}
  /\ mutex \in [Slots -> {Host, NoThread}]
  /\ active \in [Slots -> BOOLEAN]
  /\ force \in [Slots -> BOOLEAN]
  /\ owner \in [Slots -> Clients \cup {NoClient}]
  /\ woken \in [Slots -> BOOLEAN]
  /\ tpc \in [Slots -> ThreadPlaces]
  /\ hostPc \in HostPlaces
  /\ hostClient \in Clients \cup {NoClient}
  /\ scan \in 1 .. MAX_SESSION_COUNT + 1
  /\ pending \in BOOLEAN
  /\ hpc \in [Threads -> SigPlaces]
  /\ hi \in Slots
  /\ waiting \in 0 .. MAX_SESSION_COUNT

Busy   == {i \in Slots : active[i]}
Marked == {i \in Slots : force[i]}

\* The host has taken a permit for a client it has not installed yet.
HoldsPermit == hostPc \in {"lockList", "lockSlot", "slot"}

\* client_sem counts the free slots: permits, installed clients and the permit
\* in the host's hand always add up to the number of slots.  A permit given
\* back twice or never, on any path through disconnect_client, breaks it.
PermitsAccounted ==
  sem + Cardinality(Busy) + (IF HoldsPermit THEN 1 ELSE 0) = MAX_SESSION_COUNT

\* Once the host has its permit, there is a free slot at or after the place its
\* scan has reached, although slots are freed behind and before it all the time:
\* activate_client never falls off the end of its loop and returns -1.
ScanFindsSlot ==
  hostPc \in {"lockSlot", "slot"} => \E i \in Slots : i >= scan /\ ~active[i]

\* A client thread never sleeps in pthread_cond_wait beside an installed client
\* without a signal on its way: the host's signal cannot fall between the
\* thread's test of active and its wait.
NoLostWakeup == \A i \in Slots : active[i] /\ tpc[i] = "wait" => woken[i]

\* While a client thread is at work on a session, the slot is in use, and no two
\* slots hold the pipes of one client.
SlotsOwned ==
  /\ \A i \in Slots : active[i] <=> owner[i] # NoClient
  /\ \A i \in Slots : tpc[i] \notin {"top", "wait"} => active[i]
  /\ \A i, j \in Slots : owner[i] = owner[j] /\ active[i] => i = j

\* While disconnect_all_clients runs, waiting_disconnects is exactly the number
\* of marked slots, and once it only waits every session still open is marked:
\* a client can neither slip past the handler nor make it wait for nobody.
HandlerAccounting ==
  IF \E t \in SigThreads : hpc[t] \in {"mark", "await"}
  THEN /\ waiting = Cardinality(Marked)
       /\ (\E t \in SigThreads : hpc[t] = "await") => Busy \subseteq Marked
  ELSE Marked = {}

\* When the handler returns from disconnect_all_clients, no client is left in
\* any slot: sessions opened while it ran would be missed by its count.
HandlerLeavesNobody ==
  [][\A t \in SigThreads : hpc[t] = "await" /\ hpc'[t] = "none" => Busy = {}]_vars

\* The client in a slot changes only when the thread of the slot has finished
\* with it: nobody else changes fds while the thread works on copies of them, so
\* the branches of client_thread that compare request_copy with fds[0] guard
\* against a change that cannot happen.
SessionKept ==
  [][\A i \in Slots :
       owner[i] # NoClient /\ owner'[i] # owner[i] =>
         tpc[i] \in {"bye", "drop"} /\ tpc'[i] = "top" /\ owner'[i] = NoClient]_vars

\* The steps of the argument that are not of interest by themselves.

\* listc_mutex is held by the host inside activate_client or by one handler
\* inside disconnect_all_clients, never by both.
ListLockDiscipline ==
  /\ hostPc \in {"lockSlot", "slot", "unlockList"} =>
       listc = Host /\ \A t \in SigThreads : hpc[t] \notin {"mark", "await"}
  /\ \A t \in SigThreads : hpc[t] \in {"mark", "await"} => listc = t

\* A handler in its first loop has marked the busy slots below hi and no other.
MarkProgress ==
  (\E t \in SigThreads : hpc[t] = "mark") =>
    \A i \in Slots : (force[i] => i < hi) /\ (i < hi /\ active[i] => force[i])

Holding == hostPc \in {"open", "semWait", "lockList", "lockSlot", "slot"}

\* Every client is in one place only: in the registration FIFO, in the host's
\* hand, in one slot or nowhere; and its own state tells which.
Placement ==
  /\ \A a, b \in DOMAIN fifo : fifo[a] = fifo[b] => a = b
  /\ \A a \in DOMAIN fifo : /\ cst[fifo[a]] \in {"registered", "crashed"}
                            /\ \A i \in Slots : owner[i] # fifo[a]
                            /\ Holding => fifo[a] # hostClient
  /\ Holding => /\ hostClient \in Clients
                /\ \A i \in Slots : owner[i] # hostClient
                /\ cst[hostClient] \in IF hostPc = "open"
                                       THEN {"registered", "crashed"}
                                       ELSE {"opened", "crashed"}
  /\ \A i \in Slots :
       active[i] => cst[owner[i]] \in ClientStates \ {"out", "registered", "stuck"}

\* The inductive invariant behind every theorem about this module.
IInv ==
  /\ TypeOK
  /\ ListLockDiscipline /\ MarkProgress /\ Placement
  /\ hostPc = "slot" => scan \in Slots
  /\ PermitsAccounted /\ ScanFindsSlot /\ NoLostWakeup
  /\ SlotsOwned /\ HandlerAccounting

\* The slots implement the abstract service: the clients in session are the
\* owners of active slots, and the client in the host's hand still queues.
InHand    == IF Holding THEN <<hostClient>> ELSE <<>>
Queue     == InHand \o fifo
InSession == {owner[i] : i \in Busy}

Service == INSTANCE SessionService WITH queue <- Queue, inSession <- InSession

\* Clients are admitted or refused in registration order, never more than there are
\* slots, and none is in session twice (handle_fifo, activate_client, client_thread).
ImplementsService == Service!Spec

-----------------------------------------------------------------------------
(* Progress.  Each thread keeps running, and one that waits for a mutex     *)
(* which is released again and again gets it: strong fairness per thread    *)
(* (a client thread in pthread_cond_wait only has to wake when signalled).  *)
(* The kernel delivers a pending signal to a thread that does not block it. *)
(* Nothing is assumed of the clients: one may sit in its session for ever.  *)

Fairness ==
  /\ \A i \in Slots :
       SF_vars(ThreadStep(i) /\ (tpc[i] = "wait" => woken[i]))
  /\ SF_vars(HostStep)
  /\ \A t \in SigThreads : SF_vars(SigStep(t))
  /\ WF_vars(\E t \in SigThreads : Deliver(t))

FairSpec == Spec /\ Fairness

\* A marked session whose thread is in read_all on a pipe that a live client has
\* not written to: force_disconnect is looked at only after the read.
HandlerHeld ==
  \E i \in Slots : force[i] /\ tpc[i] = "read" /\ cst[owner[i]] = "ready"

\* A client that registers gets an answer: it is welcomed, or thrown out again
\* by SIGUSR1 before that.  What can leave it in kvs_connect is others that
\* never go: every slot has another client for ever, or an idle client holds up
\* the handler, which has listc_mutex, for ever.
ConnectAnswered ==
  \A c \in Clients :
    cst[c] \in {"registered", "opened"} ~>
      \/ cst[c] \in {"ready", "out"}
      \/ [](\A i \in Slots : owner[i] \notin {NoClient, c})
      \/ []HandlerHeld

\* kvs_disconnect and a request in flight always get a response or the end of
\* file, whatever the handler does to the session meanwhile.
RequestAnswered ==
  \A c \in Clients : cst[c] \in {"waitOp", "waitDisc"} ~> cst[c] \in {"ready", "out"}

\* A thread that enters the SIGUSR1 handler comes out of it, unless from some
\* moment on there is always an idle client that it waits for: no lock, counter
\* or mark of its own can hold it.
HandlerEnds ==
  \A t \in SigThreads : hpc[t] = "lock" ~> (hpc[t] = "none" \/ []HandlerHeld)

\* "Handles the SIGUSR1 signal by disconnecting all clients" (main.c:41): a
\* thread that enters the handler comes out of it, even if only when every
\* client leaves by itself.
SignalHandled ==
  (\A c \in Clients : SF_vars(ClientDisconnect(c))) =>
    \A t \in SigThreads : hpc[t] = "lock" ~> hpc[t] = "none"
=============================================================================
