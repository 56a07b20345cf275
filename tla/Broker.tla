-------------------------------- MODULE Broker --------------------------------
(***************************************************************************)
(* Subscriptions and notifications.  A client thread keeps the keys of its *)
(* session in clients_data[i].keys and enters the descriptor of the        *)
(* session's notification pipe in a hash table (coperations.c).  A job     *)
(* thread that changes the store (kvs_write, kvs_delete) looks the changed *)
(* key up in that table and writes to the descriptors it finds there       *)
(* (notify_clients), all under the write lock of the store.                *)
(*                                                                         *)
(* One action is one critical section of the table, one system call or one *)
(* step of a loop around them.  The change of a key and the lookup of its  *)
(* descriptors are one action: nobody reads the store in between.          *)
(***************************************************************************)
EXTENDS Integers, Sequences, FiniteSets

CONSTANTS
  MAX_SESSION_COUNT, \* sessions, and entries in one node of the hash table
  MAX_NUMBER_SUB,    \* entries in the key list of a session
  Keys, Values,
  Missing,           \* in the store: the key does not exist
  NoKey,             \* an unused entry of a key list
  Bucket,            \* chash: the node of each key
  Batches,           \* the batches of WRITE and DELETE commands
  Disciplined,       \* clients only unsubscribe from what they are subscribed to
  Mortal             \* the sessions whose clients may die without disconnecting

ASSUME SizeAssumption ==
  MAX_SESSION_COUNT \in Nat \ {0} /\ MAX_NUMBER_SUB \in Nat \ {0}
ASSUME KeyAssumption    == NoKey \notin Keys /\ Missing \notin Values
ASSUME BucketAssumption == DOMAIN Bucket = Keys
ASSUME BatchAssumption  == Batches \subseteq Seq(Keys \X (Values \cup {Missing}))
ASSUME DisciplineAssumption == Disciplined \in BOOLEAN

Sessions == 1 .. MAX_SESSION_COUNT
Entries  == 1 .. MAX_NUMBER_SUB
ASSUME MortalAssumption == Mortal \subseteq Sessions
Nodes    == {Bucket[k] : k \in Keys}
\* Numbers the kernel may give to a notification pipe: enough for every session
\* and one more, so that a number need not be reused at once.
Fds      == 1 .. MAX_SESSION_COUNT + 1
NoFd     == 0

VARIABLES
  spc,     \* where the thread of each session is
  fd,      \* clients_data[i].fds[2]
  keys,    \* clients_data[i].keys
  num,     \* clients_data[i].num_keys
  arg,     \* the key of a SUBSCRIBE whose existence was checked
  rm,      \* loop index of disconnect_client
  node,    \* subscribed_keys: how often each node holds each descriptor
  store,   \* kvs_table
  writing, \* a job thread holds tablelock for writing
  todo,    \* what is left of its batch
  cur,     \* the key it is notifying about
  snap,    \* the descriptors it has not written to yet
  granted, \* (history) the keys each client was told it is subscribed to
  lag,     \* (history) those whose last change the client was not sent yet
  up,      \* FALSE once SIGPIPE has killed the server process
  gone     \* the sessions whose client is dead and whose pipes are still open

sessionVars == <<spc, fd, keys, num, arg, rm>>
jobVars     == <<store, writing, todo, cur, snap>>
workVars    == <<sessionVars, node, jobVars, granted, lag>>
vars == <<workVars, up, gone>>

NoEntries == [i \in Entries |-> NoKey]
NoFds     == [f \in Fds |-> 0]

Init ==
  /\ spc = [s \in Sessions |-> "free"]
  /\ fd = [s \in Sessions |-> NoFd]
  /\ keys = [s \in Sessions |-> NoEntries]
  /\ num = [s \in Sessions |-> 0]
  /\ arg = [s \in Sessions |-> NoKey]
  /\ rm = [s \in Sessions |-> 1]
  /\ node = [b \in Nodes |-> NoFds]
  /\ store = [k \in Keys |-> Missing]
  /\ writing = FALSE /\ todo = <<>> /\ cur = NoKey /\ snap = NoFds
  /\ granted = [s \in Sessions |-> {}]
  /\ lag = [s \in Sessions |-> {}]
  /\ up = TRUE /\ gone = {}

-----------------------------------------------------------------------------
(* The hash table of descriptors: add_key and remove_key under nodeLock.   *)

Count(b) == Cardinality({e \in Fds \X (1 .. MAX_SESSION_COUNT) : e[2] <= node[b][e[1]]})

\* Mutant: the last entry of a node is not used.
AddKey_OffByOne(k, f) ==
  node' = IF Count(Bucket[k]) >= MAX_SESSION_COUNT - 1
          THEN node
          ELSE [node EXCEPT ![Bucket[k]][f] = @ + 1]

\* add_key: a full node ignores the call, and nobody looks at the result.
AddKey(k, f) ==
  node' = IF Count(Bucket[k]) >= MAX_SESSION_COUNT
          THEN node
          ELSE [node EXCEPT ![Bucket[k]][f] = @ + 1]

\* Mutant: every entry of the node that holds f is taken out.
RemoveKey_All(k, f) == node' = [node EXCEPT ![Bucket[k]][f] = 0]

\* remove_key: take out one entry that holds f, if there is one.
RemoveKey(k, f) ==
  node' = IF node[Bucket[k]][f] = 0
          THEN node
          ELSE [node EXCEPT ![Bucket[k]][f] = @ - 1]

-----------------------------------------------------------------------------
(* The key list of a session.                                              *)

\* subscribe_key_index_list: it looks at every entry, used or not.
Places(s, k) == {i \in Entries : keys[s][i] = k}
First(P)     == CHOOSE i \in P : \A j \in P : i <= j

\* Mutant: the entry behind the removed one is not moved.
ShiftUp_OffByOne(s, i) ==
  [j \in Entries |-> IF i < j /\ j < num[s] THEN keys[s][j + 1] ELSE keys[s][j]]

\* remove_key_from_subscribed_list: move the used entries behind it up by one.
ShiftUp(s, i) ==
  [j \in Entries |-> IF i <= j /\ j < num[s] THEN keys[s][j + 1] ELSE keys[s][j]]

-----------------------------------------------------------------------------
(* Client threads.                                                         *)

\* handle_fifo opens the notification pipe, activate_client installs it.  The
\* kernel gives a number that is not open, perhaps one that was just closed.
OpenFds == {fd[s] : s \in {t \in Sessions : spc[t] \in {"serve", "add"}}}

Connect(s, f) ==
  /\ spc[s] = "free" /\ f \in Fds \ OpenFds
  /\ fd' = [fd EXCEPT ![s] = f]
  /\ spc' = [spc EXCEPT ![s] = "serve"]
  /\ UNCHANGED <<keys, num, arg, rm, node, jobVars, granted, lag>>

\* SUBSCRIBE, first half: kvs_key_exists under the read lock of the store.  A
\* key that does not exist is refused, which changes nothing.
SubscribeCheck(s, k) ==
  /\ spc[s] = "serve" /\ ~writing /\ num[s] >= 0
  /\ store[k] # Missing
  /\ arg' = [arg EXCEPT ![s] = k]
  /\ spc' = [spc EXCEPT ![s] = "add"]
  /\ UNCHANGED <<fd, keys, num, rm, node, jobVars, granted, lag>>

\* SUBSCRIBE, second half: enter the key in the list and the descriptor in the
\* table and answer OK, or refuse when the list is full or holds the key.
SubscribeAdd(s) ==
  /\ spc[s] = "add" /\ s \notin gone
  /\ IF num[s] < MAX_NUMBER_SUB /\ Places(s, arg[s]) = {}
     THEN /\ keys' = [keys EXCEPT ![s][num[s] + 1] = arg[s]]
          /\ num' = [num EXCEPT ![s] = @ + 1]
          /\ AddKey(arg[s], fd[s])
          /\ granted' = [granted EXCEPT ![s] = @ \cup {arg[s]}]
     ELSE UNCHANGED <<keys, num, node, granted>>
  /\ spc' = [spc EXCEPT ![s] = "serve"]
  /\ arg' = [arg EXCEPT ![s] = NoKey]
  /\ UNCHANGED <<fd, rm, jobVars, lag>>

\* UNSUBSCRIBE: answered OK when the key is somewhere in the list.  A num_keys
\* of -1 is where the model stops: a SUBSCRIBE would write before the array.
Unsubscribe(s, k) ==
  /\ spc[s] = "serve" /\ num[s] >= 0 /\ s \notin gone
  /\ Disciplined => k \in granted[s]
  /\ Places(s, k) # {}
  /\ keys' = [keys EXCEPT ![s] = ShiftUp(s, First(Places(s, k)))]
  /\ num' = [num EXCEPT ![s] = @ - 1]
  /\ RemoveKey(k, fd[s])
  /\ granted' = [granted EXCEPT ![s] = @ \ {k}]
  /\ lag' = [lag EXCEPT ![s] = @ \ {k}]
  /\ UNCHANGED <<spc, fd, arg, rm, jobVars>>

\* disconnect_client closes the pipes first: the number of the descriptor is
\* free for another session while the table still holds it.
DisconnectClose(s) ==
  /\ spc[s] = "serve"
  /\ spc' = [spc EXCEPT ![s] = "closed"]
  /\ rm' = [rm EXCEPT ![s] = 1]
  /\ granted' = [granted EXCEPT ![s] = {}]
  /\ lag' = [lag EXCEPT ![s] = {}]
  /\ UNCHANGED <<fd, keys, num, arg, node, jobVars>>

\* Its loop takes the descriptor out of the table, one key at a time.
DisconnectRemove(s) ==
  /\ spc[s] = "closed" /\ rm[s] <= num[s]
  /\ RemoveKey(keys[s][rm[s]], fd[s])
  /\ rm' = [rm EXCEPT ![s] = @ + 1]
  /\ UNCHANGED <<spc, fd, keys, num, arg, jobVars, granted, lag>>

\* Mutant: the slot is cleared before the table is.
DisconnectFinish_Early(s) ==
  /\ spc[s] = "closed"
  /\ fd' = [fd EXCEPT ![s] = NoFd]
  /\ keys' = [keys EXCEPT ![s] = NoEntries]
  /\ num' = [num EXCEPT ![s] = 0]
  /\ rm' = [rm EXCEPT ![s] = 1]
  /\ spc' = [spc EXCEPT ![s] = "free"]
  /\ UNCHANGED <<arg, node, jobVars, granted, lag>>

\* Then it clears the slot.
DisconnectFinish(s) ==
  /\ spc[s] = "closed" /\ rm[s] > num[s]
  /\ fd' = [fd EXCEPT ![s] = NoFd]
  /\ keys' = [keys EXCEPT ![s] = NoEntries]
  /\ num' = [num EXCEPT ![s] = 0]
  /\ rm' = [rm EXCEPT ![s] = 1]
  /\ spc' = [spc EXCEPT ![s] = "free"]
  /\ UNCHANGED <<arg, node, jobVars, granted, lag>>

-----------------------------------------------------------------------------
(* The job thread that holds the write lock; which one it is does not      *)
(* matter, the lock admits one at a time.                                  *)

\* kvs_write, kvs_delete: take the lock for a whole batch.
JobLock(batch) ==
  /\ ~writing
  /\ writing' = TRUE
  /\ todo' = batch
  /\ UNCHANGED <<sessionVars, node, store, cur, snap, granted, lag>>

\* One pair of the batch: change the store and copy the descriptors (get_fds).
\* Writing the value a key has already is skipped; deleting a key that does not
\* exist is not.
JobApply ==
  /\ writing /\ todo # <<>> /\ snap = NoFds
  /\ todo' = Tail(todo)
  /\ LET k == Head(todo)[1]
         v == Head(todo)[2]
     IN IF v # Missing /\ store[k] = v
        THEN UNCHANGED <<store, cur, snap, lag>>
        ELSE /\ store' = [store EXCEPT ![k] = v]
             /\ cur' = k
             /\ snap' = node[Bucket[k]]
             /\ lag' = [s \in Sessions |-> lag[s] \cup (granted[s] \cap {k})]
  /\ UNCHANGED <<sessionVars, node, writing, granted>>

\* Mutant: the loop over the copied descriptors runs past their number.
JobSend_OffByOne(f) ==
  /\ writing /\ snap[f] >= 0
  /\ snap' = [snap EXCEPT ![f] = @ - 1]
  /\ UNCHANGED <<sessionVars, node, store, writing, todo, cur, granted, lag>>

\* notify_clients: write to one of the copied descriptors.  Whoever has that
\* number by now gets the notification; a closed one only fails (EBADF).
JobSend(f) ==
  /\ writing /\ snap[f] > 0 /\ \A s \in gone : fd[s] # f
  /\ snap' = [snap EXCEPT ![f] = @ - 1]
  /\ lag' = [s \in Sessions |->
               IF fd[s] = f /\ spc[s] \in {"serve", "add"} THEN lag[s] \ {cur}
                                                           ELSE lag[s]]
  /\ UNCHANGED <<sessionVars, node, store, writing, todo, cur, granted>>

\* Mutant: the lock is released before the descriptors are written to.
JobUnlock_Early ==
  /\ writing /\ todo = <<>>
  /\ writing' = FALSE
  /\ UNCHANGED <<sessionVars, node, store, todo, cur, snap, granted, lag>>

JobUnlock ==
  /\ writing /\ todo = <<>> /\ snap = NoFds
  /\ writing' = FALSE
  /\ cur' = NoKey
  /\ UNCHANGED <<sessionVars, node, store, todo, snap, granted, lag>>

-----------------------------------------------------------------------------
(* Dead clients.  Nobody ignores SIGPIPE, so a write to a pipe whose reader *)
(* is dead kills the server instead of returning -1.                        *)

ClientDies(s) ==
  /\ s \in Mortal \ gone /\ spc[s] \in {"serve", "add"}
  /\ gone' = gone \cup {s}
  /\ UNCHANGED <<workVars, up>>

\* The thread of the session answers a request that the client left behind.  If
\* it finds none it reads the end of file, and goes to DisconnectClose.
AnswerKills(s) ==
  /\ s \in gone
  /\ up' = FALSE
  /\ UNCHANGED <<workVars, gone>>

\* The job thread writes a notification to the client's pipe.
SendKills(f) ==
  /\ writing /\ snap[f] > 0 /\ \E s \in gone : fd[s] = f
  /\ up' = FALSE
  /\ UNCHANGED <<workVars, gone>>

-----------------------------------------------------------------------------
SessionStep(s) ==
  \/ \E f \in Fds : Connect(s, f)
  \/ \E k \in Keys : SubscribeCheck(s, k) \/ Unsubscribe(s, k)
  \/ SubscribeAdd(s)
  \/ DisconnectClose(s) \/ DisconnectRemove(s) \/ DisconnectFinish(s)

JobStep ==
  \/ \E batch \in Batches : JobLock(batch)
  \/ JobApply
  \/ \E f \in Fds : JobSend(f)
  \/ JobUnlock

Work == JobStep \/ \E s \in Sessions : SessionStep(s)

Next ==
  /\ up
  /\ \/ Work /\ UNCHANGED up /\ gone' = {s \in gone : spc'[s] # "closed"}
     \/ \E s \in Sessions : ClientDies(s) \/ AnswerKills(s)
     \/ \E f \in Fds : SendKills(f)

Spec == Init /\ [][Next]_vars

-----------------------------------------------------------------------------
(* Correctness.                                                            *)

\* Every variable keeps its type.  The counts of the table and of the copies made
\* by get_fds stay natural numbers, num_keys within the list (and -1, see above).
TypeOK ==
  /\ spc \in [Sessions -> {"free", "serve", "add", "closed"}]
  /\ fd \in [Sessions -> Fds \cup {NoFd}]
  /\ keys \in [Sessions -> [Entries -> Keys \cup {NoKey}]]
  /\ num \in [Sessions -> -1 .. MAX_NUMBER_SUB]
  /\ arg \in [Sessions -> Keys \cup {NoKey}]
  /\ rm \in [Sessions -> 1 .. MAX_NUMBER_SUB + 1]
  /\ node \in [Nodes -> [Fds -> Nat]]
  /\ store \in [Keys -> Values \cup {Missing}]
  /\ writing \in BOOLEAN
  /\ todo \in Seq(Keys \X (Values \cup {Missing}))
  /\ cur \in Keys \cup {NoKey}
  /\ snap \in [Fds -> Nat]
  /\ granted \in [Sessions -> SUBSET Keys]
  /\ lag \in [Sessions -> SUBSET Keys]
  /\ up \in BOOLEAN
  /\ gone \in SUBSET Mortal

\* num_keys is the "Number of keys subscribed" (client.h:10): the first num_keys
\* entries of the list are, each once, the keys the client was told it is
\* subscribed to, whatever stale entries removals have left behind them.
ListExact ==
  \A s \in Sessions : spc[s] \in {"serve", "add"} =>
    /\ granted[s] = {keys[s][i] : i \in {j \in Entries : j <= num[s]}}
    /\ Cardinality(granted[s]) = num[s]

\* What a session still has in the table: one entry for each key it is
\* subscribed to, or, while it is being disconnected, for each key left to do.
Owed(s, b) ==
  {i \in Entries : /\ i <= num[s]
                   /\ spc[s] = "closed" => i >= rm[s]
                   /\ Bucket[keys[s][i]] = b}

\* The table holds a descriptor once for each subscription of each session that
\* has it, dying sessions included: although two sessions may share the number
\* of a descriptor for a while, no entry is lost to the other one's removal and
\* none outlives its session.
TableExact ==
  \A b \in Nodes, f \in Fds :
    node[b][f] = Cardinality({e \in Sessions \X Entries :
                                fd[e[1]] = f /\ e[2] \in Owed(e[1], b)})

\* When the lock of the store is free, every client has been sent the last
\* change of every key it is subscribed to since its subscription was granted,
\* though another client's death may have stopped the server in between.
NotifiedBeforeUnlock == ~writing => \A s \in Sessions : lag[s] = {}

\* A node is never full when add_key is called: "Should never happen"
\* (coperations.c:52).  Otherwise a client is told OK and never notified.
NeverFull ==
  \A s \in Sessions :
    spc[s] = "add" /\ num[s] < MAX_NUMBER_SUB /\ Places(s, arg[s]) = {} =>
      Count(Bucket[arg[s]]) < MAX_SESSION_COUNT

\* UNSUBSCRIBE is answered OK only if the "subscription existed and was removed"
\* (api.h:27-28): it never lowers num_keys without taking a granted key away.
UnsubscribeHonest ==
  [][\A s \in Sessions :
       spc[s] = "serve" /\ num'[s] < num[s] => granted'[s] # granted[s]]_vars

\* Subscriptions are what NotifyService describes, in which lists, table, copies and
\* descriptors do not occur: a client is told of the changes of its keys one by one,
\* by writes to a number it may have inherited, and all before the lock is released.
Service == INSTANCE NotifyService WITH
  Clients <- Sessions, asked <- arg, subs <- granted, open <- writing, rest <- todo,
  owed <- lag
ImplementsService == Service!Spec

-----------------------------------------------------------------------------
(* The inductive invariant (BrokerProofs).                                 *)

Used(s) == {i \in Entries : i <= num[s]}

\* A key is checked before it is entered, and at hand only then.
KeyAtHand == \A s \in Sessions : spc[s] = "add" <=> arg[s] \in Keys

\* Sessions with open pipes have descriptors of different numbers.
DescriptorsApart ==
  \A s, t \in {r \in Sessions : spc[r] \in {"serve", "add"}} : fd[s] = fd[t] => s = t

\* The key list of a session and what its client was told, wherever its thread is.
ListsSound ==
  \A s \in Sessions :
    /\ num[s] >= 0
    /\ \A i \in Used(s) : keys[s][i] \in Keys
    /\ \A i, j \in Used(s) : keys[s][i] = keys[s][j] => i = j
    /\ spc[s] = "free" => num[s] = 0
    /\ spc[s] # "free" => fd[s] \in Fds
    /\ spc[s] \in {"serve", "add"} => granted[s] = {keys[s][i] : i \in Used(s)}
    /\ spc[s] \in {"free", "closed"} => granted[s] = {} /\ lag[s] = {}

\* The keys for which the table still holds the descriptor of a session.
KeysOwed(s) ==
  {keys[s][i] : i \in {j \in Used(s) : spc[s] = "closed" => j >= rm[s]}}

\* TableExact, with the keys of the sessions in the place of their list entries.
Holders(b, f) ==
  {e \in Sessions \X Keys : fd[e[1]] = f /\ e[2] \in KeysOwed(e[1]) /\ Bucket[e[2]] = b}
TableHolds ==
  \A b \in Nodes, f \in Fds : node[b][f] = Cardinality(Holders(b, f))

\* A client that was not sent the last change of a key yet is still among the copied
\* descriptors of the job thread that changed it.
ClientsOnTheirTurn ==
  /\ ~writing => snap = NoFds
  /\ \A s \in Sessions : \A k \in lag[s] :
       writing /\ k = cur /\ k \in granted[s] /\ snap[fd[s]] > 0

IInv ==
  TypeOK /\ KeyAtHand /\ DescriptorsApart /\ ListsSound /\ TableHolds /\ ClientsOnTheirTurn

\* chash gives no two keys the same node.
BucketsApart == \A k, l \in Keys : Bucket[k] = Bucket[l] => k = l
=============================================================================
