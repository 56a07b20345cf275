# Verification of the KVS server and its client

The repository is a key-value store server in C (`src/src/server`) that runs job
files with several threads and serves client programs (`src/src/client`) through
named pipes. Clients subscribe to keys and are notified when a job changes them.
This directory holds TLA+ models of both programs, the TLC runs that check them
and TLAPS proofs about them. Paths below are relative to `src/`, line numbers to
the files there.

Run, in this directory:

    tlc -workers 2 -config sessions.cfg MCSessionPool
    tlapm SessionPoolProofs.tla

## 1. The system

| Part | State | Operations | Where |
|---|---|---|---|
| Session pool | `clients_data[8]`: `fds`, `active`, `force_disconnect`, `clientMutex`, `clientCond`; `client_sem`; `listc_mutex` | `start_client_threads`, `activate_client`, `client_thread`, `disconnect_client`, `disconnect_all_clients` | server/client.c |
| Host thread | the registration FIFO | `handle_fifo`, the SIGUSR1 handler | server/main.c |
| Subscriptions | `keys`, `num_keys` of each session; the descriptor table `subscribed_keys` | `client_subscribe_key`, `client_unsubscribe_key`, `notify_clients`, `add_key`, `remove_key`, `get_fds` | server/client.c, coperations.c |
| Key-value store | `kvs_table`: 26 chains, `tablelock` | `kvs_write`, `kvs_read`, `kvs_delete`, `kvs_show`, `kvs_backup`, `kvs_key_exists` | server/operations.c, kvs.c |
| Job threads | the directory stream, `directory_mutex`, `active_backups`, `n_current_backups_lock` | `get_file`, `run_job` | server/main.c |
| Client program | three descriptors, `disconnect`, `thread_finished`, `disconnect_mutex`, `disconnect_cond` | `kvs_connect`, `kvs_subscribe`, `kvs_unsubscribe`, `kvs_disconnect`, `kvs_notifications` | client/api.c, main.c |
| Parsers | the place in the file | `get_next`, `parse_write`, `parse_read_delete`, `parse_wait`, `parse_list`, `parse_delay` | server/parser.c, client/parser.c |
| Pipe helpers | none | `read_all`, `write_all` | common/io.c |

How they interact:

* A client makes three FIFOs and writes a registration to the server's FIFO. The
  host thread reads it, opens the FIFOs, takes a permit of `client_sem` and
  installs the descriptors in a free slot. Each `open` of a FIFO waits for the
  `open` on the other side, so both must open the three in the same order. The slot's thread greets the client,
  serves its requests, and on DISCONNECT, end of file or `force_disconnect`
  clears the slot and gives the permit back.
* SIGUSR1 runs `disconnect_all_clients` on whatever thread the kernel picks,
  among the host and the job threads (session threads block the signal). The
  handler marks the slots that are in use and spins until each has been cleared.
* A job thread changes the store under `tablelock`. For each changed key it
  calls back into `notify_clients`, which copies the descriptors from the table
  and writes to them, still under `tablelock`.
* A session thread asks the store (read lock) whether a key exists before it
  enters it in its list and in the table.
* The job threads share one directory stream under `directory_mutex` and take one
  job file at a time. They use the entry, and its name, after the mutex is free.
* BACKUP forks a child that writes its copy of the store. Job threads count
  backups and reap children before they exceed a limit.
* In the client, the main thread makes requests and a second thread reads
  notifications. They agree on the end through a flag, a mutex and a condition.

What is hard: the pool is shared by the host, one thread per slot and a signal
handler; descriptors are kept and used after the lock that protected them is
released; descriptor numbers are reused by the kernel; counts kept in one place
stand for states kept in others (`client_sem`, `waiting_disconnects`,
`active_backups`, `num_keys`, the counts of the table's nodes); both programs
may be killed by SIGPIPE; either side may end a session at any moment.
`PROJECT.json` lists the hazards line by line, with the properties that cover
each or the reason why none does yet.

What makes each part correct:

* pool: permits, slots and clients add up; each client is in one place; nobody
  changes a slot under its thread; no wakeup is lost; the handler neither misses
  a client nor waits for nobody; every client is answered;
* subscriptions: the list, the table and what clients were told agree; every
  change is sent to every subscriber before the store is free again;
* backups: children are bounded, and a BACKUP command ends;
* store and jobs: each command of each job file takes effect once, in the order of
  the file, as one step, whatever the other threads do; no readable file is left;
* parsers: a well-formed file is executed as it is written, a faulty line whose
  brackets are closed spoils little else;
* client: the handshake ends, pipes are closed after the last reader left, replies belong to
  requests, every call and the join end.

## 2. The modules

### SessionService

What the pool promises, without threads: a queue of registered clients and the
set of clients in session, at most `MAX_SESSION_COUNT`, admitted (or refused, when the
host fails to read or to open) in order.

### SessionPool (MCSessionPool, SessionPoolProofs)

| Variables | In the code |
|---|---|
| `fifo`, `cst`, `pipe` | registration FIFO, state of each client process, its request pipe |
| `sem`, `listc`, `mutex` | `client_sem`, `listc_mutex`, `clientMutex` of each slot |
| `active`, `force`, `owner`, `woken`, `tpc` | `active`, `force_disconnect`, whose pipes `fds` are, a signal of `clientCond` under way, the place of the slot's thread |
| `hostPc`, `hostClient`, `scan` | place of the host in `handle_fifo` and `activate_client`, the client at hand, the loop index |
| `pending`, `hpc`, `hi`, `waiting` | pending SIGUSR1, place of each thread in the handler, its loop index and `waiting_disconnects` |
| `up` | FALSE once SIGPIPE has killed the server |

An action is one critical section of a `clientMutex` or one blocking call. The
host's section on a slot is two actions (`HostLockSlot`, then `HostSkipSlot` or
`HostActivate`) because SIGUSR1 can interrupt it there. `disconnect_client` is
one action: it runs with `clientMutex` held, and the other threads see of it the
pipes it closes and the slot it clears. Its loop over the subscribed keys
belongs to Broker, where it is split. `Deliver` runs the handler on any thread of
`SigThreads` that does not block the signal; the host stands still meanwhile.
`Register`, `Admit` and `Leave` of SessionService are implemented by
`ClientRegister`, `HostActivate` and `ThreadDisconnect`: `Queue` is the client in
the host's hand and then the FIFO, `InSession` the owners of active slots.

With `Failures` the host may lose a client, which is `Refuse` of the service:
`HostOpenFails` when an `open` fails (the error, where one is written, goes to a pipe
that the client does not read yet), `HostDiscard` when `errno` is still `EINTR` after a
message was read whole. Either leaves the client "stuck" in its own `open`. A read that
returns 0 or -1 is tried again and is a stutter.

### NotifyService

What subscribers are promised, without key lists, table, descriptors and pipes: each
client's subscriptions, the store, the batch that is under way and whom it still has to
tell. The next key is changed when everybody was told of the one before.

### Broker (MCBroker, BrokerProofs)

Sessions (`spc`, `fd`, `keys`, `num`, `arg`, `rm`), the table (`node`: for each
node how often it holds each descriptor number), the store as a function, and
the one job thread that holds `tablelock` for writing (`writing`, `todo`, `cur`,
`snap`). `granted` and `lag` are history: what each client was told, and which
changes it has not been sent. SUBSCRIBE is two actions, the check under
`tablelock` and the entry; a notification is the change with the copy of the
descriptors, then one action per write. The order of entries in a node does not
matter and is left out. A new session may get the number of a descriptor that
was just closed, while the old session's entries are still in the table.

Under `ImplementsService`, `granted` are the subscriptions, `arg` the question, `lag`
what is owed. A SUBSCRIBE that was checked may be answered in the middle of a batch,
`DisconnectRemove` is invisible, and a write to a descriptor tells whoever has that
number now.

A client of `Mortal` may die (`gone`) while its pipes are open. What the server writes to
it then, an answer or a notification, raises SIGPIPE and ends everything (`up`,
`AnswerKills`, `SendKills`), unless the session's thread reads the end of file first.
A client that is dead is sent nothing any more and asks nothing any more. `Work` is
the other steps.

The constant `Bucket` is `chash`. `Disciplined` restricts clients to
unsubscribing from what they subscribed to: the properties of the list hold for
such clients only, `broker_unsubscribe` shows what happens otherwise.

### Backups (MCBackups, BackupsProofs)

Job threads in the BACKUP command: `n_current_backups_lock`, `active_backups`,
children at work and children not reaped. `wait(NULL)` takes an ended child or
fails at once when there is none. A fork may fail.

### JobService

What the job threads promise, without threads, locks and chains: a map from keys
to values, and for each job file how many of its commands took effect, the lines
of its `.out` file and its backup files. A command is one step.

### KvsTable (KvsTableProofs)

The hash table of `kvs.c`: sequences of nodes for the chains, and `read_pair`,
`write_pair`, `delete_pair` on them as pure operators. `Sound` is what they rely on
and keep.

### Jobs (MCJobs, JobsProofs, JobsRefinement)

| Variables | In the code |
|---|---|
| `dirLock`, `next` | `directory_mutex`, the place of the directory stream |
| `pc`, `entry`, `ip`, `nback` | each thread's place, its directory entry, the place in its job file, `file_backups` |
| `left`, `line` | what is left of the command's batch, what was written of its line of output |
| `table`, `writer`, `readers` | `kvs_table`, `tablelock` |
| `out`, `children`, `bck` | the `.out` files, the children of BACKUP with their copy of the table, the `.bck` files |
| `committed` | history: the store after the last change whose lock was released |

An action is one `readdir`, one key of a batch, one chain of SHOW, or one lock or
unlock. The commands of a file are given as parsed (`Program`), the accepted
entries as `JobFiles`. A job file that does not open ends its thread, as in the
code. The fork copies the table and the child writes it later; the fork may fail.
The name of a backup is read from the directory entry, which `readdir` may have
overwritten (`EntryNames`). Under `ImplementsService`, WRITE, DELETE, READ and
SHOW take effect when they release the lock, BACKUP with the fork.

### Parsers (MCParsers, ParsersProofs)

Both parsers, on a file that is a sequence of characters: `program` says which. One
action is one round of the loop, `get_next` with the parser of the command it found;
the parsers of lists stop behind the bracket that opens the list, and each round of
their own loops is an action too (`Pair`, `Key`), `cmd` and `batch` being the command
and what was read of its list. `done` are the commands executed with what was parsed.
Every operator returns the place where the reader is left, which is what the
properties are about. No operator is recursive, so that the module can be proved about.

Three places write or read outside a buffer. A string of `MAX_STRING_SIZE` characters
without a delimiter gets its NUL one byte behind `char key[max_string_size]`
(server/parser.c:47): the model refuses such a string, which is what happens when the array
is padded to a multiple of 16 bytes (`PaddingAssumption`; 40 is padded to 48). Of a number of more
than 15 digits the rest is written behind `buf[16]`: `DigitsAssumption` keeps it out of
`Files`. A number at the very end of a file is not terminated in its buffer: `Junk` is
what may follow it there.

Which lines are valid, and what they ask for, is written as a grammar that relates a
text to what it means (`EmptyLine`, `AloneLine`, `NumberLine`, `ListLine`, `WriteLine`;
`LastLine` for what may end a file). It includes what the code takes although its HELP
does not tell of it: text behind a number, a list of one empty key. `LineAssumption`
says that the lines of `Files` called valid are in it, and TLC evaluates that on those
of MCParsers, which are made from what they mean. `RoundTrip` compares the parser
with the writer of the file.

### ClientApi (MCClientApi, ClientApiProofs)

The main thread (`pc`), the notification thread (`npc`), what they share
(`disconnect`, `thread_finished`, the sleep in `pthread_cond_wait`), the pipes
(`request`, `reply`, `pending`, `fds`) and the server's end (`spc`): the host
until it has activated the client, then the session thread. Sections under `disconnect_mutex` are single actions. The server may be
sent SIGUSR1 at any moment (`ForceDisconnect`). A request without a reader kills the
process. It starts when the client has made its FIFOs; `OpenPipe` is one FIFO
opened on both sides, possible only when both sides are at the same one.

### Proof modules

`SessionPoolProofs`, `BackupsProofs`, `BrokerProofs`, `ClientApiProofs`,
`KvsTableProofs`, `JobsProofs`, `JobsRefinement` and `ParsersProofs`, see section 5. Operators named
`X_Something` with the comment "Mutant" are faulty variants of `X`: each property
of a passing run fails when one of them takes the place of `X`. No specification
uses them.

## 3. The runs

| Run | Instance | Result |
|---|---|---|
| sessions | 2 slots, 3 clients (1 may die), failing reads and opens, SIGUSR1 to the host or a job thread | `TypeOK`, `PermitsAccounted`, `ScanFindsSlot`, `NoLostWakeup`, `SlotsOwned`, `HandlerAccounting`, `SessionKept`, `HandlerLeavesNobody`, `ImplementsService` hold (about 330 000 states) |
| sessions_live | 1 slot, 3 clients, SIGUSR1 to a job thread | `ConnectAnswered`, `RequestAnswered`, `HandlerEnds` hold (about 5 800 states) |
| sessions_sigusr1 | 2 slots, SIGUSR1 to the host | `SignalHandled` fails |
| broker | 2 sessions, 2 keys, 2 list entries, 3 descriptor numbers, 1 client may die | `TypeOK`, `ListExact`, `TableExact`, `NotifiedBeforeUnlock`, `NeverFull`, `ImplementsService` hold (about 1 200 000 states) |
| broker_full | as broker without deaths, both keys with the same `chash` | `NeverFull` fails |
| broker_unsubscribe | as broker without deaths, clients free to unsubscribe from anything | `UnsubscribeHonest` fails |
| backups | 3 job threads, limit 2 | `TypeOK`, `BackupsBounded`, `BackupCompletes` hold |
| backups_limit | 2 job threads, limit 1 | `AtMostMaxBackups` fails |
| client_api | 2 waiting notifications, spurious wakeups | `TypeOK`, `ClosedAfterThread`, `NoLostSignal`, `RepliesMatch`, `WaitsAnswered`, `ConnectEnds`, `RequestEnds`, `JoinEnds`, `EndIsNoticed` hold |
| jobs | 3 threads, 6 directory entries: 3 jobs, 1 that does not open, 2 others; 4 keys, 3 of them in one chain | `TypeOK`, `ChainsSound`, `BackupsApart`, `ImplementsService`, `AllJobsRun` hold (about 200 000 states) |
| parsers | about 67 000 files of up to 5 lines; names of 8 characters, batches of 3 and the number 1000 are too large | `TypeOK`, `RoundTrip`, `LineAligned`, `ErrorContained` hold (about 570 000 states) |
| client_api_hang | 1 waiting notification, no spurious wakeups | `DisconnectEnds` fails |

What the failing runs show, against what the repository says:

* **sessions_sigusr1.** "Handles the SIGUSR1 signal by disconnecting all clients"
  (server/main.c:41). The host unblocks the signal right after `sem_wait` and
  then takes `listc_mutex`. A signal that it takes there runs
  `disconnect_all_clients`, which locks the same mutex: the server stops
  admitting and the handler never ends, even when every client leaves by itself.
* **broker_full.** "Should never happen" (server/coperations.c:52). A node has room
  for `MAX_SESSION_COUNT` descriptors but is shared by all keys with the same
  hash, such as "ab" and "bA" (33 * 97 + 98 = 33 * 98 + 65). The subscription is
  answered OK and never notified.
* **broker_unsubscribe.** 0 is returned if the "subscription existed and was
  removed" (client/api.h:27-28). Removal leaves the last entry of the list where it
  was, so a second UNSUBSCRIBE succeeds as well and lowers `num_keys` again.
* **backups_limit.** "Maximum allowed simultaneous backups" (server/main.c:35). A
  thread that was counted forks after it released the lock; until then the wait
  of the next thread finds no child and lets it pass. The bound that does hold is
  `BackupsBounded`: the larger of the limit and the number of job threads.
* **client_api_hang.** "Disconnects from an KVS server" (client/api.h:15).
  `kvs_disconnect` waits for the notification thread before it sends DISCONNECT.
  That thread is blocked in `read_all`, and the pipe is closed only after the
  DISCONNECT. The call returns if a notification arrives; it also ends if the
  server ends the session, but then SIGPIPE kills the client.

Three more things that go wrong have no run of their own; the passing runs have them in
their state spaces, and the first two are named in the properties:

* **An idle client holds the handler.** The same line, main.c:41, also fails without the
  deadlock: a marked session thread looks at `force_disconnect` only after its client's
  next request (client.c:281, 299), so a client that stays connected and idle keeps
  `disconnect_all_clients` spinning, with `listc_mutex` held, and nobody is admitted.
  `HandlerEnds` and `ConnectAnswered` name this case (`HandlerHeld`) and say that it is
  the only one beside a pool full of others. Without that disjunct TLC finds `HandlerEnds`
  violated in `sessions_live`, and `ConnectAnswered` once there are two slots (one that is
  free and not given out).
* **A full batch.** "Maximum number of pairs it will write" (server/parser.h:31): a WRITE of
  exactly `max_pairs` pairs is refused, because a loop that ends with
  `num_pairs == max_pairs` is taken for one that met no bracket (parser.c:238).
  `ErrorContained` takes no side (it accepts the batch taken or refused, not in part). The grammar of valid lines leaves such a line out as the code does;
  if it is counted among the valid lines, `LineAssumption` and `RoundTrip` both fail.
* **A lost registration.** A message that was read while `errno` is a left-over `EINTR`
  (main.c:291) is thrown away, and the client waits in `open` for ever; so does one whose
  pipes the host failed to open. `sessions` has both, no liveness is claimed with them.

What the passing runs tell besides:

* **parsers.** A faulty line costs up to two commands that follow it, and no more
  when its brackets are closed: "D" alone on a line swallows a SHOW and the next
  command, because `get_next` compares after it has read as many characters as
  DELETE and its blank. A list that is not closed may cost more, and it may run on:
  `read_string` takes an end of line for a character of the name, so `READ [a` followed by
  the comment `#]` executes a READ of the key "a", newline, "#". `ErrorContained` says
  that what is executed then is one list, spelled by the lines it swallowed
  (`OneList`), and that everything before and after it is executed as written. After the
  number of a DELAY the rest of its line is read as a command. Lists at the end of the
  file need a newline; SHOW does not. A list of exactly `max_keys` is accepted by the
  client.
* **jobs.** `BackupsApart` and `ImplementsService` depend on `DirBuffer`: the
  directory fits the stream's buffer (some hundred entries with glibc). With
  `DirBuffer = 2` in `jobs.cfg` TLC finds a backup under the name of another
  directory entry, against both. `OneBuffer` and `DistinctStems` are therefore
  hypotheses of the theorems in section 5.

Bounds and why they are enough. Two slots give every relation between two slots
and a scan that frees behind and before itself; three clients keep one waiting
while both slots are used. The proofs of section 5 hold for every number. In
Broker two sessions and three descriptor numbers allow a number to be reused
while another is live; two keys give batches that touch both. Three job
threads with a limit of two have one waiting, one counted and one forking. The
notification pipe holds at most `MaxPending` messages; the thread treats every
one alike. In `jobs` every pair of conflicting commands (two WRITEs, WRITE and DELETE,
WRITE and READ, SHOW, BACKUP) meets in two threads, the third thread is lost to the
file that does not open, and a chain of three keys has a first, a middle and a last
node to delete; two children of one file may be at work together. In `parsers` a string spans one line of one word, batches have
every size up to one more than the limit, and three lines after a faulty one are
as many as it can damage when it is closed; two more may be comments that close an open
list (`Closing`). The server is not killed from outside in any run; SIGPIPE kills it in
`sessions` and `broker` where a dead client is written to. `sessions_live` has one slot,
so that clients queue; the same properties were checked once with two (85 602 states) and
hold there too. It leaves out deaths and failures, see section 4.

Symmetry is used in `sessions` only, over the clients that do not die, where no
liveness is checked. Deadlock is checked in `sessions_live`, the two failing
Broker runs and the Backups runs. It is not in `sessions` (the server may be dead, or stuck
with a dead client) and `broker` (it may be dead), nor in the two failing runs that exist to show a stop, nor
in ClientApi, Jobs and Parsers (the programs end).

## 4. Fairness

* SessionPool: every thread keeps running, and gets a mutex that is released
  again and again (strong fairness per thread); a thread in `pthread_cond_wait`
  needs to return only when signalled; a pending signal is delivered to a thread
  that does not block it. Nothing is assumed of the clients: one may sit in its session
  and never send anything again. The liveness properties therefore name what such a
  client can do: it keeps its slot (a client waits behind a pool that is full of others
  for ever), and once marked it keeps the handler (`HandlerHeld`). `RequestAnswered`
  needs neither alternative. `SignalHandled`, which fails, is stated for clients that
  do leave, so that what it shows is the deadlock and not an idle client.
* `sessions_live` leaves out crashes and failures: a client that dies after it registered
  blocks the host in `open`, and one whose pipes the host fails to open stays in its own;
  the code promises nothing else.
* Backups: a job thread keeps running, gets `n_current_backups_lock`, and
  `tablelock` for the fork, which every batch of commands releases; a child ends,
  since the table it writes is finite. BACKUP commands need not come.
* ClientApi: weak fairness for the main thread once it is in a call, for the
  notification thread, the host and the session thread. That the host activates the
  client supposes a free session, which `ConnectAnswered` is about. Commands, notifications,
  SIGUSR1 and spurious wakeups need not happen.
* Jobs: weak fairness for each job thread. A thread that waits for a lock is never
  alone in wanting it for ever: programs are finite, so the others finish. The
  children of BACKUP need not finish.

## 5. The proofs

Everything below is proved for any values of the constants that satisfy the named
assumptions of the modules.

**SessionPoolProofs** (`SlotAssumption`, `ClientAssumption`, `FailureAssumption`,
`ThreadAssumption`), with and without deaths and failures.
`IInv` is inductive (`Initially`, `Inductive`, `Invariance`). The properties are
not inductive one by one, so `IInv` adds:

* `ListLockDiscipline`: who holds `listc_mutex`. Without it the host could install
  a client between the handler's two loops, and `HandlerAccounting` would break.
* `MarkProgress`: what the first loop has done below `hi`; it becomes
  "every busy slot is marked" when the loop ends.
* `Placement`: a client is in the FIFO, in the host's hand, in one slot or
  nowhere, and its own state says which; `SlotsOwned` needs that the client in
  the host's hand owns no slot.

`ScanFindsSlot` follows from `PermitsAccounted` at the start of a scan and from
the fact that only the host, which is scanning, fills slots. There is one lemma
per conjunct (`PermitsStep`, `ScanStep`, ...), each with one step per action.
Theorems: `TypeCorrect`, `PermitsTheorem`, `ScanTheorem`, `WakeupTheorem`,
`OwnershipTheorem`, `HandlerTheorem`, `KeptTheorem` and `NobodyTheorem` (action
properties) and `Refinement` (the pool implements SessionService, by simulation of each
step; `RefuseSimulates` is the host's failures). `KeptTheorem` rests on `SlotsOwned`: the
host fills a slot that is not active, hence without a client.

**BackupsProofs** (`JobAssumption`, `BackupAssumption`). `IInv` adds
`LockDiscipline`, `CountBounds` (below the limit, the count bounds the children
and those to come) and `WaitsAtLimit`. Theorems: `TypeCorrect`, `BoundTheorem`.

**ClientApiProofs** (`PendingAssumption`, `WakeupAssumption`). For any bound on the
notifications that wait, with and without spurious wakeups. `IInv` adds what one
side may assume of the other: `PipesOrdered` (which pipes are open at each place
of host and session), `HandshakeInStep`, `ThreadLife`, `OneConversation` (one
message under way at most, that of the operation main waits for) and
`DisconnectMeaning` (once the flag is set and main is past its wait, the
notification thread is done or its pipe is closed); `ClosedAfterThread` and
`WaitsAnswered` need the last two. Theorems: `TypeCorrect`, `ClosedTheorem`,
`SignalTheorem`, `RepliesTheorem`, `WaitsTheorem`. The last one is the safety half
of `ConnectEnds`, `RequestEnds` and `JoinEnds`.

**BrokerProofs** (`SizeAssumption`, `KeyAssumption`, `BucketAssumption`,
`BatchAssumption`, `DisciplineAssumption`, `MortalAssumption`). `TypeCorrect` holds as it is. The rest
needs hypotheses, each of which a failing run shows to be necessary:

* `Disciplined`: clients unsubscribe only from what they are subscribed to
  (`broker_unsubscribe`). `ListTheorem` needs no more.
* `[]NeverFull`: add_key meets no full node (`broker_full`). In such a run
  `IInv` is an invariant (`Invariance`), hence `TableTheorem` and
  `NotifiedTheorem`.
* `BucketsApart`: no two keys share a node. Then `NeverFull` is itself an
  invariant (`RoomTheorem`: a node has one entry of each session at most), and
  `BrokerTheorem` has no hypothesis on the run left.

Under the second hypothesis the module implements NotifyService (`Refinement`), under
the third without one on the run (`ServiceTheorem`): each action is mapped to a step or
a stutter (`CheckSimulates`, `AddSimulates`, `ApplySimulates`, `SendSimulates`,
`StepSimulates`). `StepWorks` splits a step into `Work` and the death of a client or of the
server, which the lemmas about `Work` need not look at. A write to a descriptor tells one client only because
`DescriptorsApart` keeps the numbers of open sessions distinct.

`IInv` is `TypeOK` with `KeyAtHand`, `DescriptorsApart`, `ListsSound` (the list in every state of the
session's thread, `ListExact` being about the states in which it serves),
`TableHolds` (`TableExact` with keys in the place of list positions, which the
removal of a key does not move) and `ClientsOnTheirTurn` (a client that lags is
among the descriptors that the job thread has copied and not written to yet).

**KvsTableProofs** (`TableAssumption`, `HashAssumption`, `ValueAssumption`). On any
`Sound` table `write_pair` and `delete_pair` change the map of the table at their
key only and keep it sound (`WriteWrites`, `DeleteDeletes`), and what the loop
over the chains writes is the whole store (`ListingShows`). The last is an
induction over the chains. The library's induction theorems have an operator as a
parameter, so `SetInduction` states induction with a set of numbers, and
`FlattenEquations` is all that is used of `FlattenSeq`.

**JobsProofs** (these, and the six assumptions of Jobs). For any
directory, programs, hash and number of threads. `ChainsSound` needs nothing but
`TypeOK`. The rest of `IInv` is what the refinement is about:

* `EntriesHeld`: an entry of the directory is with one thread at most and behind
  the stream. `CommandsCounted`: a thread in a batch is at the command of that kind,
  and `file_backups` is the number of BACKUPs before it.
* `LockHeld`: `tablelock` is with the threads that are at a batch, and `committed` is the
  content of the table while nobody writes. This is what makes the store of a READ, a
  SHOW or a fork that of a moment between two batches.
* `LeftInStep`, `HalfDone`: what is left of a batch is its end, and the part before it
  has been done: for a WRITE each key has the value of its last pair so far, for a
  DELETE the line holds the keys that were missing or had been deleted by the same batch,
  for a READ and a SHOW the line is the part of the store that was looked at. One
  more key extends that (`WriteOneMore`, `LineOneMore`, ...), and a whole batch
  is the step of the service (`WriteEnds`, ...).
* `ImagesSound`: the copies of the table that the children have are sound.

Theorems: `Invariance`, `TypeCorrect`, `ChainsTheorem`.

**JobsRefinement.** `DistinctStems` (job files differ up to the first dot) and
`OneBuffer` (the directory fits the buffer of its stream) are hypotheses; without
either a backup gets another one's file. Under them `ApartTheorem` (no two children
write to one file) and `Refinement` (`ImplementsService`). `Executed` counts how far
a file is; the only steps that move it are the ends of commands (`CommandEnds`,
`ThreadStutters`), and each end of a command is its step of the service
(`WriteSimulates`, `DeleteSimulates`, `ReadSimulates`, `ShowSimulates`,
`BackupSimulates`, `OtherSimulates`). A child that writes its file changes nothing that
the service shows, since the file then holds what the child's copy held
(`ChildSimulates`, from `ListingShows`).

**ParsersProofs** (`FileAssumption`, `SizeAssumption`; that the model is the code rests on
`PaddingAssumption` and `DigitsAssumption` too). For any file of characters, any
sizes and whatever follows a number in its buffer. `TypeOK` and `LineAligned` are
inductive together, `Fits` and the bound on `batch` being what the loops keep. One
lemma per reading operator (`CleanupAligns`, `StringFits`, `NumberRead`, `NextRead`)
says where it leaves the reader, one per action that it keeps both. Theorems:
`TypeCorrect` (what is executed fits the arrays of `run_job` and of the client's
`main`) and `LinesTheorem`.

`RoundTripTheorem` (with `LineAssumption`) is about the files that have valid lines only, of
any number and length: each line is executed as what it means, in order, and nothing
else is. That `done` is a prefix of the meaning of the file is not inductive, since it does
not say where the reader is. `InStep` does: it is at the start of a line (`Between`), in
the remark of a DELAY, which it reads as a line of its own (`InRemark`), or in a list, with
`batch` the part of it that was read (`InList`). The argument has three layers:

* A file is its lines one behind the other, a list its keys: `Parts` and `PartAt` say at
  which place of the whole a part is. They are inductions over the number of parts, from
  `LeastMember`, because the induction theorems of the library have an operator as a parameter.
* `WordReads`, `NumberReads`, `NameReads`, `KeyReads` and `PairReads` say what the reading
  operators return on a text of the grammar, and that they stop right behind it.
* One lemma for each kind of line and action (`EmptySteps`, `AloneSteps`, `WaitSteps`,
  `DelaySteps`, `RemarkSteps`, `ListOpens`, `WriteOpens`, `KeySteps`, `PairSteps`) takes
  `InStep` from one place to the next; `InStepRoundTrip` draws the conclusion.

Checked with TLC only: all liveness properties, which need fairness and ENABLED
(`ConnectAnswered`, `RequestAnswered`, `HandlerEnds`, `BackupCompletes`, `AllJobsRun`,
`ConnectEnds`, `RequestEnds`, `JoinEnds`, `EndIsNoticed`), and `ErrorContained` of
Parsers: how many commands a faulty line costs depends on the lines that follow it in
the same read, and there is no grammar of faulty lines to prove it from. Every other
invariant and action property of the passing runs is proved.

## 6. What is not modelled

* Undefined behaviour on the data: keys whose hash is -1 (`HashAssumption`),
  numbers of more than 15 digits (`DigitsAssumption`), and what the NUL behind a string
  that fills its array does in a build that does not pad it (`PaddingAssumption`).
* File names: job files with the same name up to the first dot share their backup
  files, and names are cut; Jobs takes job files with different stems.
* The layout of output lines and notifications; lines are cut at 39 characters.
* Short reads of the client's commands, which come from a file in Parsers.
* Failures of mutex calls, of close and of `malloc`; partial reads and writes of
  pipes, and pipes that fill up.
* A signal taken by a job thread that holds a lock of the store or of the table.
* `main` and `dispatch_threads`: they run before any concurrency; `handle_fifo`
  never returns, so nothing follows it.

## 7. Plan

1. Composition of SessionPool's handler with Broker's locks: SIGUSR1 in a job
   thread that holds `tablelock`, and notification pipes with a capacity.
