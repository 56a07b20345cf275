----------------------------- MODULE BrokerProofs -----------------------------
(***************************************************************************)
(* Proofs about Broker for any number of sessions, any size of their key   *)
(* lists, any keys, values and batches.  What depends on the clients or on *)
(* the hash function is a hypothesis of the theorem that needs it:         *)
(* Disciplined, NeverFull or BucketsApart.                                 *)
(***************************************************************************)
EXTENDS Broker, FiniteSetTheorems, FunctionTheorems, SequenceTheorems, TLAPS

-----------------------------------------------------------------------------
(* Types.                                                                  *)

\* A change of one entry of a node that leaves a natural number there.
LEMMA NodeTypes ==
  ASSUME NEW g \in [Fds -> Nat], NEW f, NEW n, f \in Fds => n \in Nat
  PROVE  [g EXCEPT ![f] = n] \in [Fds -> Nat]
  OBVIOUS

\* add_key and remove_key keep the table a table of natural numbers, also when they
\* are called with the key of an unused entry.
LEMMA TableTypes ==
  ASSUME node \in [Nodes -> [Fds -> Nat]], NEW k, NEW f, AddKey(k, f) \/ RemoveKey(k, f)
  PROVE  node' \in [Nodes -> [Fds -> Nat]]
<1> DEFINE b == Bucket[k]
<1>1. CASE node' = node
  BY <1>1
<1>2. CASE node' = [node EXCEPT ![b] = [node[b] EXCEPT ![f] = node[b][f] + 1]]
  <2>1. b \in Nodes => [node[b] EXCEPT ![f] = node[b][f] + 1] \in [Fds -> Nat]
    <3>1. b \in Nodes /\ f \in Fds => node[b][f] + 1 \in Nat
      OBVIOUS
    <3> QED
      BY <3>1, NodeTypes
  <2> QED
    BY <1>2, <2>1
<1>3. CASE /\ node' = [node EXCEPT ![b] = [node[b] EXCEPT ![f] = node[b][f] - 1]]
           /\ node[b][f] # 0
  <2>1. b \in Nodes => [node[b] EXCEPT ![f] = node[b][f] - 1] \in [Fds -> Nat]
    <3>1. node[b][f] # 0
      BY <1>3
    <3>2. b \in Nodes /\ f \in Fds => node[b][f] - 1 \in Nat
      BY <3>1
    <3> QED
      BY <3>2, NodeTypes
  <2> QED
    BY <1>3, <2>1
<1> QED
  BY <1>1, <1>2, <1>3 DEF AddKey, RemoveKey

\* A step of the server is a step of its threads, or the death of a client or of the
\* server, which changes no list, table or store.
LEMMA StepWorks ==
  ASSUME [Next]_vars
  PROVE  [Work]_workVars
<1>1. CASE Next
  BY <1>1 DEF Next, ClientDies, AnswerKills, SendKills
<1>2. CASE UNCHANGED vars
  BY <1>2 DEF vars
<1> QED
  BY <1>1, <1>2

\* The types of all variables, step by step, for any clients: a num_keys below 0 is
\* the end of its session's requests.
LEMMA TypeStep ==
  ASSUME TypeOK, KeyAtHand, [Next]_vars
  PROVE  TypeOK'
<1>a. [Work]_workVars
  BY StepWorks
<1>b. up' \in BOOLEAN /\ gone' \in SUBSET Mortal
  BY DEF TypeOK, Next, ClientDies, AnswerKills, SendKills, vars
<1> USE <1>b, SizeAssumption DEF sessionVars, jobVars, Sessions, Entries
<1>0. /\ keys \in [Sessions -> [Entries -> Keys \cup {NoKey}]]
      /\ num \in [Sessions -> -1 .. MAX_NUMBER_SUB]
      /\ arg \in [Sessions -> Keys \cup {NoKey}]
      /\ rm \in [Sessions -> 1 .. MAX_NUMBER_SUB + 1]
      /\ node \in [Nodes -> [Fds -> Nat]]
      /\ snap \in [Fds -> Nat]
      /\ granted \in [Sessions -> SUBSET Keys]
      /\ lag \in [Sessions -> SUBSET Keys]
  BY DEF TypeOK
<1>1. ASSUME NEW s \in Sessions, NEW f \in Fds, Connect(s, f)
      PROVE  TypeOK'
  BY <1>1 DEF Connect, TypeOK
<1>2. ASSUME NEW s \in Sessions, NEW k \in Keys, SubscribeCheck(s, k)
      PROVE  TypeOK'
  BY <1>2 DEF SubscribeCheck, TypeOK
<1>3. ASSUME NEW s \in Sessions, SubscribeAdd(s)
      PROVE  TypeOK'
  <2>1. node' \in [Nodes -> [Fds -> Nat]]
    BY <1>0, <1>3, TableTypes DEF SubscribeAdd
  <2>2. keys' \in [Sessions -> [Entries -> Keys \cup {NoKey}]]
    <3>1. [keys[s] EXCEPT ![num[s] + 1] = arg[s]] \in [Entries -> Keys \cup {NoKey}]
      BY <1>0
    <3>2. \/ keys' = keys
          \/ keys' = [keys EXCEPT ![s] = [keys[s] EXCEPT ![num[s] + 1] = arg[s]]]
      BY <1>3 DEF SubscribeAdd
    <3> QED
      BY <1>0, <3>1, <3>2
  <2>3. num' \in [Sessions -> -1 .. MAX_NUMBER_SUB]
    <3>1. \/ num' = num
          \/ num[s] < MAX_NUMBER_SUB /\ num' = [num EXCEPT ![s] = num[s] + 1]
      BY <1>3 DEF SubscribeAdd
    <3>2. num \in [Sessions -> -1 .. MAX_NUMBER_SUB]
      BY <1>0
    <3>3. num[s] < MAX_NUMBER_SUB => num[s] + 1 \in -1 .. MAX_NUMBER_SUB
      BY <3>2
    <3> QED
      BY <3>1, <3>2, <3>3
  <2>4. granted' \in [Sessions -> SUBSET Keys]
    <3>1. \/ granted' = granted
          \/ /\ granted' = [granted EXCEPT ![s] = granted[s] \cup {arg[s]}]
             /\ arg[s] \in Keys
      BY <1>3 DEF SubscribeAdd, KeyAtHand
    <3> QED
      BY <1>0, <3>1
  <2> QED
    BY <1>3, <2>1, <2>2, <2>3, <2>4 DEF SubscribeAdd, TypeOK
<1>4. ASSUME NEW s \in Sessions, NEW k \in Keys, Unsubscribe(s, k)
      PROVE  TypeOK'
  <2>1. node' \in [Nodes -> [Fds -> Nat]]
    BY <1>0, <1>4, TableTypes DEF Unsubscribe
  <2>2. ShiftUp(s, First(Places(s, k))) \in [Entries -> Keys \cup {NoKey}]
    BY <1>0 DEF ShiftUp
  <2>3. keys' \in [Sessions -> [Entries -> Keys \cup {NoKey}]]
    BY <1>0, <1>4, <2>2 DEF Unsubscribe
  <2>4. num' \in [Sessions -> -1 .. MAX_NUMBER_SUB]
    <3>1. num[s] >= 0 /\ num' = [num EXCEPT ![s] = num[s] - 1]
      BY <1>4 DEF Unsubscribe
    <3>2. num \in [Sessions -> -1 .. MAX_NUMBER_SUB]
      BY <1>0
    <3> QED
      BY <3>1, <3>2
  <2>5. granted' \in [Sessions -> SUBSET Keys] /\ lag' \in [Sessions -> SUBSET Keys]
    BY <1>0, <1>4 DEF Unsubscribe
  <2>6. UNCHANGED <<spc, fd, arg, rm, store, writing, todo, cur, snap>>
    BY <1>4 DEF Unsubscribe
  <2> QED
    BY <2>1, <2>3, <2>4, <2>5, <2>6 DEF TypeOK
<1>5. ASSUME NEW s \in Sessions, DisconnectClose(s)
      PROVE  TypeOK'
  <2>1. /\ spc' = [spc EXCEPT ![s] = "closed"] /\ rm' = [rm EXCEPT ![s] = 1]
        /\ granted' = [granted EXCEPT ![s] = {}] /\ lag' = [lag EXCEPT ![s] = {}]
        /\ UNCHANGED <<fd, keys, num, arg, node, store, writing, todo, cur, snap>>
    BY <1>5 DEF DisconnectClose
  <2>2. rm' \in [Sessions -> 1 .. MAX_NUMBER_SUB + 1]
    BY <1>0, <2>1
  <2>3. granted' \in [Sessions -> SUBSET Keys] /\ lag' \in [Sessions -> SUBSET Keys]
    BY <1>0, <2>1
  <2> QED
    BY <2>1, <2>2, <2>3 DEF TypeOK
<1>6. ASSUME NEW s \in Sessions, DisconnectRemove(s)
      PROVE  TypeOK'
  <2>1. node' \in [Nodes -> [Fds -> Nat]]
    BY <1>0, <1>6, TableTypes DEF DisconnectRemove
  <2>2. rm' \in [Sessions -> 1 .. MAX_NUMBER_SUB + 1]
    <3>1. rm[s] <= num[s] /\ rm' = [rm EXCEPT ![s] = rm[s] + 1]
      BY <1>6 DEF DisconnectRemove
    <3>2. rm \in [Sessions -> 1 .. MAX_NUMBER_SUB + 1] /\ num[s] \in -1 .. MAX_NUMBER_SUB
      BY <1>0
    <3>3. rm[s] + 1 \in 1 .. MAX_NUMBER_SUB + 1
      BY <3>1, <3>2
    <3> QED
      BY <3>1, <3>2, <3>3
  <2>3. UNCHANGED <<spc, fd, keys, num, arg, store, writing, todo, cur, snap, granted, lag>>
    BY <1>6 DEF DisconnectRemove
  <2> QED
    BY <2>1, <2>2, <2>3 DEF TypeOK
<1>7. ASSUME NEW s \in Sessions, DisconnectFinish(s)
      PROVE  TypeOK'
  <2>1. /\ fd' = [fd EXCEPT ![s] = NoFd] /\ keys' = [keys EXCEPT ![s] = NoEntries]
        /\ num' = [num EXCEPT ![s] = 0] /\ rm' = [rm EXCEPT ![s] = 1]
        /\ spc' = [spc EXCEPT ![s] = "free"]
        /\ UNCHANGED <<arg, node, store, writing, todo, cur, snap, granted, lag>>
    BY <1>7 DEF DisconnectFinish
  <2>2. NoEntries \in [Entries -> Keys \cup {NoKey}]
    BY DEF NoEntries
  <2>3. /\ keys' \in [Sessions -> [Entries -> Keys \cup {NoKey}]]
        /\ num' \in [Sessions -> -1 .. MAX_NUMBER_SUB]
        /\ rm' \in [Sessions -> 1 .. MAX_NUMBER_SUB + 1]
    BY <1>0, <2>1, <2>2
  <2> QED
    BY <2>1, <2>3 DEF TypeOK
<1>8. ASSUME NEW batch \in Batches, JobLock(batch)
      PROVE  TypeOK'
  BY <1>8, BatchAssumption DEF JobLock, TypeOK
<1>9. CASE JobApply
  <2>1. /\ Head(todo) \in Keys \X (Values \cup {Missing})
        /\ Tail(todo) \in Seq(Keys \X (Values \cup {Missing}))
    BY <1>9 DEF JobApply, TypeOK
  <2>2. Bucket[Head(todo)[1]] \in Nodes
    BY <2>1 DEF Nodes
  <2>3. snap' \in [Fds -> Nat] /\ lag' \in [Sessions -> SUBSET Keys]
    BY <1>0, <1>9, <2>1, <2>2 DEF JobApply
  <2>4. store' \in [Keys -> Values \cup {Missing}] /\ cur' \in Keys \cup {NoKey}
    <3>1. store \in [Keys -> Values \cup {Missing}] /\ cur \in Keys \cup {NoKey}
      BY DEF TypeOK
    <3> QED
      BY <1>9, <2>1, <3>1 DEF JobApply
  <2>5. todo' = Tail(todo) /\ UNCHANGED <<spc, fd, keys, num, arg, rm, node, writing, granted>>
    BY <1>9 DEF JobApply
  <2> QED
    BY <2>1, <2>3, <2>4, <2>5 DEF TypeOK
<1>10. ASSUME NEW f \in Fds, JobSend(f)
       PROVE  TypeOK'
  <2>1. snap' \in [Fds -> Nat]
    BY <1>0, <1>10 DEF JobSend
  <2>2. lag' \in [Sessions -> SUBSET Keys]
    BY <1>0, <1>10 DEF JobSend
  <2>3. UNCHANGED <<spc, fd, keys, num, arg, rm, node, store, writing, todo, cur, granted>>
    BY <1>10 DEF JobSend
  <2> QED
    BY <2>1, <2>2, <2>3 DEF TypeOK
<1>11. CASE JobUnlock
  BY <1>11 DEF JobUnlock, TypeOK
<1>12. CASE UNCHANGED workVars
  BY <1>12 DEF workVars, TypeOK
<1> QED
  BY <1>a, <1>1, <1>2, <1>3, <1>4, <1>5, <1>6, <1>7, <1>8, <1>9, <1>10, <1>11, <1>12
  DEF Work, SessionStep, JobStep

\* A SUBSCRIBE keeps the key it checked until it enters it, and no longer.
LEMMA KeyAtHandStep ==
  ASSUME TypeOK, KeyAtHand, [Work]_workVars
  PROVE  KeyAtHand'
<1>0. spc \in [Sessions -> {"free", "serve", "add", "closed"}] /\ arg \in [Sessions -> Keys \cup {NoKey}]
  BY DEF TypeOK
<1> USE <1>0, KeyAssumption DEF KeyAtHand
<1>1. ASSUME NEW s \in Sessions, NEW f \in Fds, Connect(s, f)
      PROVE  KeyAtHand'
  BY <1>1 DEF Connect
<1>2. ASSUME NEW s \in Sessions, NEW k \in Keys, SubscribeCheck(s, k)
      PROVE  KeyAtHand'
  BY <1>2 DEF SubscribeCheck
<1>3. ASSUME NEW s \in Sessions, SubscribeAdd(s)
      PROVE  KeyAtHand'
  BY <1>3 DEF SubscribeAdd
<1>4. ASSUME NEW s \in Sessions, DisconnectClose(s) \/ DisconnectFinish(s)
      PROVE  KeyAtHand'
  BY <1>4 DEF DisconnectClose, DisconnectFinish
<1>5. CASE UNCHANGED <<spc, arg>>
  BY <1>5
<1> QED
  BY <1>1, <1>2, <1>3, <1>4, <1>5
  DEF Work, SessionStep, JobStep, Unsubscribe, DisconnectRemove, JobLock, JobApply, JobSend,
      JobUnlock, workVars, sessionVars

-----------------------------------------------------------------------------
(* Descriptors.                                                            *)

\* The kernel gives a number to two pipes only after the first one was closed.
LEMMA DescriptorsStep ==
  ASSUME TypeOK, DescriptorsApart, [Work]_workVars
  PROVE  DescriptorsApart'
<1>0. spc \in [Sessions -> {"free", "serve", "add", "closed"}] /\ fd \in [Sessions -> Fds \cup {NoFd}]
  BY DEF TypeOK
<1> USE <1>0 DEF DescriptorsApart
<1>1. ASSUME NEW t \in Sessions, NEW f \in Fds, Connect(t, f)
      PROVE  DescriptorsApart'
  <2>1. \A s \in Sessions : spc[s] \in {"serve", "add"} => fd[s] # f
    BY <1>1 DEF Connect, OpenFds
  <2>2. fd' = [fd EXCEPT ![t] = f] /\ spc' = [spc EXCEPT ![t] = "serve"]
    BY <1>1 DEF Connect
  <2> QED
    BY <2>1, <2>2
<1>2. ASSUME NEW t \in Sessions, NEW k \in Keys, SubscribeCheck(t, k)
      PROVE  DescriptorsApart'
  BY <1>2 DEF SubscribeCheck
<1>3. ASSUME NEW t \in Sessions, SubscribeAdd(t)
      PROVE  DescriptorsApart'
  BY <1>3 DEF SubscribeAdd
<1>4. ASSUME NEW t \in Sessions, DisconnectClose(t)
      PROVE  DescriptorsApart'
  BY <1>4 DEF DisconnectClose
<1>5. ASSUME NEW t \in Sessions, DisconnectFinish(t)
      PROVE  DescriptorsApart'
  BY <1>5 DEF DisconnectFinish
<1>6. CASE UNCHANGED <<spc, fd>>
  BY <1>6
<1> QED
  BY <1>1, <1>2, <1>3, <1>4, <1>5, <1>6
  DEF Work, SessionStep, JobStep, Unsubscribe, DisconnectRemove, JobLock, JobApply, JobSend,
      JobUnlock, workVars, sessionVars

-----------------------------------------------------------------------------
(* Key lists.                                                              *)

\* subscribe_key_index_list finds the first of the places there are.
LEMMA FirstIsLeast ==
  ASSUME NEW P \in SUBSET Nat, P # {}
  PROVE  First(P) \in P /\ \A j \in P : First(P) <= j
<1>1. PICK i \in P : \A j \in P : ~ (<<j, i>> \in OpToRel(<, Nat))
  BY NatLessThanWellFounded, WFMin
<1>2. ASSUME NEW j \in P
      PROVE  i <= j
  <2>1. <<j, i>> \in Nat \X Nat /\ ~ (<<j, i>> \in {p \in Nat \X Nat : p[1] < p[2]})
    BY <1>1 DEF OpToRel
  <2>2. ~ (j < i)
    BY <2>1
  <2> QED
    BY <2>2
<1> QED
  BY <1>2 DEF First

\* The entry that UNSUBSCRIBE removes: stale entries lie behind the used ones.
LEMMA FirstPlaceIsUsed ==
  ASSUME TypeOK, ListsSound, NEW s \in Sessions, NEW k, spc[s] = "serve", k \in granted[s]
  PROVE  First(Places(s, k)) \in Used(s) /\ keys[s][First(Places(s, k))] = k
<1>1. PICK j \in Used(s) : keys[s][j] = k
  BY DEF ListsSound
<1>2. Places(s, k) \in SUBSET Nat /\ j \in Places(s, k)
  BY <1>1 DEF Places, Used, Entries
<1>3. First(Places(s, k)) \in Places(s, k) /\ First(Places(s, k)) <= j
  BY <1>2, FirstIsLeast
<1>4. num[s] \in Int
  BY DEF TypeOK
<1> QED
  BY <1>1, <1>3, <1>4, SizeAssumption DEF Places, Used, Entries

\* remove_key_from_subscribed_list takes one key out of the used entries and keeps
\* the others, each once.
LEMMA ShiftRemoves ==
  ASSUME TypeOK, ListsSound, NEW s \in Sessions, NEW i \in Used(s),
         NEW U, U = {j \in Entries : j <= num[s] - 1}
  PROVE  /\ \A j \in U : ShiftUp(s, i)[j] \in Keys
         /\ \A j, l \in U : ShiftUp(s, i)[j] = ShiftUp(s, i)[l] => j = l
         /\ {ShiftUp(s, i)[j] : j \in U} = {keys[s][j] : j \in Used(s)} \ {keys[s][i]}
<1> DEFINE old(j) == IF i <= j THEN j + 1 ELSE j
<1>1. num[s] \in Int /\ num[s] <= MAX_NUMBER_SUB
  BY SizeAssumption DEF TypeOK
<1>2. \A j \in U : /\ ShiftUp(s, i)[j] = keys[s][old(j)]
                   /\ old(j) \in Used(s) /\ old(j) # i
  BY <1>1, SizeAssumption DEF ShiftUp, Used, Entries
<1>3. \A j, l \in U : old(j) = old(l) => j = l
  BY SizeAssumption DEF Entries, Used
<1>4. \A j \in Used(s) \ {i} : \E l \in U : old(l) = j
  <2> TAKE j \in Used(s) \ {i}
  <2>1. CASE j < i
    <3>1. j \in U /\ old(j) = j
      BY <2>1, <1>1, SizeAssumption DEF Used, Entries
    <3> QED
      BY <3>1
  <2>2. CASE i < j
    <3>1. j - 1 \in U /\ old(j - 1) = j
      BY <2>2, <1>1, SizeAssumption DEF Used, Entries
    <3> QED
      BY <3>1
  <2> QED
    BY <2>1, <2>2, SizeAssumption DEF Used, Entries
<1>5. \A j, l \in Used(s) : keys[s][j] = keys[s][l] => j = l
  BY DEF ListsSound
<1>6. \A j \in Used(s) : keys[s][j] \in Keys
  BY DEF ListsSound
<1> HIDE DEF old
<1>7. {ShiftUp(s, i)[j] : j \in U} = {keys[s][j] : j \in Used(s)} \ {keys[s][i]}
  BY <1>2, <1>4, <1>5
<1> QED
  BY <1>2, <1>3, <1>5, <1>6, <1>7

\* The key lists, step by step, when clients only unsubscribe from what they are
\* subscribed to: removal finds the key among the used entries.
LEMMA ListsStep ==
  ASSUME Disciplined, TypeOK, KeyAtHand, ListsSound, [Work]_workVars
  PROVE  ListsSound'
<1>0. /\ spc \in [Sessions -> {"free", "serve", "add", "closed"}]
      /\ fd \in [Sessions -> Fds \cup {NoFd}]
      /\ keys \in [Sessions -> [Entries -> Keys \cup {NoKey}]]
      /\ num \in [Sessions -> -1 .. MAX_NUMBER_SUB]
      /\ arg \in [Sessions -> Keys \cup {NoKey}]
      /\ granted \in [Sessions -> SUBSET Keys]
      /\ lag \in [Sessions -> SUBSET Keys]
  BY DEF TypeOK
<1> DEFINE Sound(s) ==
      /\ num[s] >= 0
      /\ \A i \in Used(s) : keys[s][i] \in Keys
      /\ \A i, j \in Used(s) : keys[s][i] = keys[s][j] => i = j
      /\ spc[s] = "free" => num[s] = 0
      /\ spc[s] # "free" => fd[s] \in Fds
      /\ spc[s] \in {"serve", "add"} => granted[s] = {keys[s][i] : i \in Used(s)}
      /\ spc[s] \in {"free", "closed"} => granted[s] = {} /\ lag[s] = {}
<1>a. \A s \in Sessions : Sound(s)
  BY DEF ListsSound
<1>b. SUFFICES ASSUME NEW s \in Sessions
               PROVE  Sound(s)'
  BY DEF ListsSound, Used
<1>c. ASSUME spc'[s] = spc[s], fd'[s] = fd[s], keys'[s] = keys[s], num'[s] = num[s],
             granted'[s] = granted[s], lag'[s] \subseteq lag[s] \cup granted[s]
      PROVE  Sound(s)'
  <2>1. Used(s)' = Used(s)
    BY <1>c DEF Used
  <2> QED
    BY <1>a, <1>c, <2>1
<1>1. ASSUME NEW t \in Sessions, NEW f \in Fds, Connect(t, f)
      PROVE  Sound(s)'
  <2>1. CASE t = s
    <3>1. spc[s] = "free" /\ num[s] = 0 /\ granted[s] = {} /\ Used(s) = {}
      BY <1>a, <1>1, <2>1, SizeAssumption DEF Connect, Used, Entries
    <3>2. Used(s)' = {}
      BY <1>1, <3>1 DEF Connect, Used
    <3> QED
      BY <1>0, <1>1, <2>1, <3>1, <3>2 DEF Connect
  <2>2. CASE t # s
    BY <1>0, <1>1, <1>c, <2>2 DEF Connect
  <2> QED
    BY <2>1, <2>2
<1>2. ASSUME NEW t \in Sessions, NEW k \in Keys, SubscribeCheck(t, k)
      PROVE  Sound(s)'
  <2>1. CASE t = s
    <3>1. Used(s)' = Used(s)
      BY <1>2 DEF SubscribeCheck, Used
    <3> QED
      BY <1>0, <1>a, <1>2, <2>1, <3>1 DEF SubscribeCheck
  <2>2. CASE t # s
    BY <1>0, <1>2, <1>c, <2>2 DEF SubscribeCheck
  <2> QED
    BY <2>1, <2>2
<1>3. ASSUME NEW t \in Sessions, SubscribeAdd(t)
      PROVE  Sound(s)'
  <2>1. CASE t = s /\ num[s] < MAX_NUMBER_SUB /\ Places(s, arg[s]) = {}
    <3> DEFINE n == num[s] + 1
    <3>1. /\ keys'[s] = [keys[s] EXCEPT ![n] = arg[s]] /\ num'[s] = n
          /\ granted'[s] = granted[s] \cup {arg[s]} /\ spc[s] = "add" /\ spc'[s] = "serve"
          /\ fd'[s] = fd[s]
      BY <1>0, <1>3, <2>1 DEF SubscribeAdd
    <3>2. n \in Entries /\ num[s] \in Nat
      BY <1>0, <1>a, <2>1, SizeAssumption DEF Entries
    <3>3. Used(s)' = Used(s) \cup {n} /\ n \notin Used(s)
      BY <3>1, <3>2, SizeAssumption DEF Used, Entries
    <3>4. arg[s] \in Keys /\ \A i \in Entries : keys[s][i] # arg[s]
      BY <2>1, <3>1 DEF KeyAtHand, Places
    <3>5. keys'[s][n] = arg[s] /\ \A i \in Used(s) : keys'[s][i] = keys[s][i] /\ i \in Entries
      BY <1>0, <3>1, <3>2, <3>3 DEF Used
    <3>6. {keys'[s][i] : i \in Used(s)'} = {keys[s][i] : i \in Used(s)} \cup {arg[s]}
      BY <3>3, <3>5
    <3>7. granted[s] = {keys[s][i] : i \in Used(s)} /\ fd[s] \in Fds
      BY <1>a, <3>1
    <3>8. \A i, j \in Used(s)' : keys'[s][i] = keys'[s][j] => i = j
      BY <1>a, <3>3, <3>4, <3>5
    <3>9. \A i \in Used(s)' : keys'[s][i] \in Keys
      BY <1>a, <3>3, <3>4, <3>5
    <3> QED
      BY <3>1, <3>2, <3>6, <3>7, <3>8, <3>9
  <2>2. CASE t = s /\ ~ (num[s] < MAX_NUMBER_SUB /\ Places(s, arg[s]) = {})
    <3>1. /\ keys'[s] = keys[s] /\ num'[s] = num[s] /\ granted'[s] = granted[s]
          /\ spc[s] = "add" /\ spc'[s] = "serve" /\ fd'[s] = fd[s] /\ lag'[s] = lag[s]
      BY <1>0, <1>3, <2>2 DEF SubscribeAdd
    <3>2. Used(s)' = Used(s)
      BY <3>1 DEF Used
    <3> QED
      BY <1>a, <3>1, <3>2
  <2>3. CASE t # s
    <3>1. /\ keys'[s] = keys[s] /\ num'[s] = num[s] /\ granted'[s] = granted[s]
          /\ spc'[s] = spc[s] /\ fd'[s] = fd[s] /\ lag'[s] = lag[s]
      BY <1>0, <1>3, <2>3 DEF SubscribeAdd
    <3> QED
      BY <1>c, <3>1
  <2> QED
    BY <2>1, <2>2, <2>3
<1>4. ASSUME NEW t \in Sessions, NEW k \in Keys, Unsubscribe(t, k)
      PROVE  Sound(s)'
  <2>1. CASE t = s
    <3> DEFINE i == First(Places(s, k))
    <3>1. /\ keys'[s] = ShiftUp(s, i) /\ num'[s] = num[s] - 1 /\ granted'[s] = granted[s] \ {k}
          /\ spc[s] = "serve" /\ spc'[s] = "serve" /\ fd'[s] = fd[s] /\ k \in granted[s]
      BY <1>0, <1>4, <2>1 DEF Unsubscribe
    <3>2. i \in Used(s) /\ keys[s][i] = k
      BY <3>1, FirstPlaceIsUsed
    <3> DEFINE U == {j \in Entries : j <= num[s] - 1}
    <3>3. num'[s] >= 0 /\ Used(s)' = U
      BY <1>0, <3>1, <3>2, SizeAssumption DEF Used, Entries
    <3>a. /\ \A j \in U : ShiftUp(s, i)[j] \in Keys
          /\ \A j, l \in U : ShiftUp(s, i)[j] = ShiftUp(s, i)[l] => j = l
          /\ {ShiftUp(s, i)[j] : j \in U} = {keys[s][j] : j \in Used(s)} \ {keys[s][i]}
      <4> HIDE DEF i
      <4> QED
        BY <3>2, ShiftRemoves
    <3> HIDE DEF i, U
    <3>4. /\ \A j \in Used(s)' : keys'[s][j] \in Keys
          /\ \A j, l \in Used(s)' : keys'[s][j] = keys'[s][l] => j = l
          /\ {keys'[s][j] : j \in Used(s)'} = {keys[s][j] : j \in Used(s)} \ {k}
      BY <3>1, <3>2, <3>3, <3>a
    <3>5. granted[s] = {keys[s][j] : j \in Used(s)} /\ fd[s] \in Fds
      BY <1>a, <3>1
    <3> QED
      BY <3>1, <3>3, <3>4, <3>5
  <2>2. CASE t # s
    <3>1. /\ keys'[s] = keys[s] /\ num'[s] = num[s] /\ granted'[s] = granted[s]
          /\ spc'[s] = spc[s] /\ fd'[s] = fd[s] /\ lag'[s] = lag[s]
      BY <1>0, <1>4, <2>2 DEF Unsubscribe
    <3> QED
      BY <1>c, <3>1
  <2> QED
    BY <2>1, <2>2
<1>5. ASSUME NEW t \in Sessions, DisconnectClose(t)
      PROVE  Sound(s)'
  <2>1. CASE t = s
    <3>1. Used(s)' = Used(s)
      BY <1>5 DEF DisconnectClose, Used
    <3> QED
      BY <1>0, <1>a, <1>5, <2>1, <3>1 DEF DisconnectClose
  <2>2. CASE t # s
    BY <1>0, <1>5, <1>c, <2>2 DEF DisconnectClose
  <2> QED
    BY <2>1, <2>2
<1>6. ASSUME NEW t \in Sessions, DisconnectFinish(t)
      PROVE  Sound(s)'
  <2>1. CASE t = s
    <3>1. /\ num'[s] = 0 /\ spc'[s] = "free" /\ granted'[s] = granted[s] /\ lag'[s] = lag[s]
          /\ spc[s] = "closed"
      BY <1>0, <1>6, <2>1 DEF DisconnectFinish
    <3>2. Used(s)' = {}
      BY <3>1, SizeAssumption DEF Used, Entries
    <3> QED
      BY <1>a, <3>1, <3>2
  <2>2. CASE t # s
    BY <1>0, <1>6, <1>c, <2>2 DEF DisconnectFinish
  <2> QED
    BY <2>1, <2>2
<1>7. CASE JobApply
  BY <1>0, <1>7, <1>c DEF JobApply, sessionVars
<1>8. ASSUME NEW f \in Fds, JobSend(f)
      PROVE  Sound(s)'
  BY <1>0, <1>8, <1>c DEF JobSend, sessionVars
<1>9. CASE UNCHANGED <<spc, fd, keys, num, granted, lag>>
  BY <1>9, <1>c
<1> QED
  BY <1>1, <1>2, <1>3, <1>4, <1>5, <1>6, <1>7, <1>8, <1>9
  DEF Work, SessionStep, JobStep, DisconnectRemove, JobLock, JobUnlock, workVars, sessionVars

-----------------------------------------------------------------------------
(* The hash table of descriptors.                                          *)

\* Each used entry of a list stands for one key, so that it makes no difference
\* whether a session's entries or its keys are counted.
LEMMA EntriesAreKeys ==
  ASSUME TypeOK, ListsSound, NEW b, NEW f
  PROVE  /\ IsFiniteSet(Holders(b, f))
         /\ Cardinality(Holders(b, f)) =
              Cardinality({e \in Sessions \X Entries : fd[e[1]] = f /\ e[2] \in Owed(e[1], b)})
<1> DEFINE P == {e \in Sessions \X Entries : fd[e[1]] = f /\ e[2] \in Owed(e[1], b)}
           g == [e \in P |-> <<e[1], keys[e[1]][e[2]]>>]
<1>1. IsFiniteSet(P)
  <2>1. IsFiniteSet(Sessions) /\ IsFiniteSet(Entries)
    BY FS_Interval, SizeAssumption DEF Sessions, Entries
  <2>2. IsFiniteSet(Sessions \X Entries)
    BY <2>1, FS_Product
  <2> QED
    BY <2>2, FS_Subset
<1>2. g \in [P -> Holders(b, f)]
  <2> SUFFICES ASSUME NEW e \in P
               PROVE  <<e[1], keys[e[1]][e[2]]>> \in Holders(b, f)
    OBVIOUS
  <2>1. /\ e[1] \in Sessions /\ fd[e[1]] = f /\ e[2] \in Used(e[1])
        /\ spc[e[1]] = "closed" => e[2] >= rm[e[1]]
        /\ Bucket[keys[e[1]][e[2]]] = b
    BY DEF Owed, Used
  <2>2. keys[e[1]][e[2]] \in Keys /\ keys[e[1]][e[2]] \in KeysOwed(e[1])
    BY <2>1 DEF KeysOwed, ListsSound
  <2> QED
    BY <2>1, <2>2 DEF Holders
<1>3. ASSUME NEW d \in P, NEW e \in P, g[d] = g[e]
      PROVE  d = e
  <2>1. d[1] = e[1] /\ keys[d[1]][d[2]] = keys[e[1]][e[2]]
    BY <1>3
  <2>2. d[2] \in Used(d[1]) /\ e[2] \in Used(e[1]) /\ d[1] \in Sessions
    BY DEF Owed, Used
  <2>3. d[2] = e[2]
    BY <2>1, <2>2 DEF ListsSound
  <2> QED
    BY <2>1, <2>3
<1>4. ASSUME NEW h \in Holders(b, f)
      PROVE  \E e \in P : g[e] = h
  <2>1. /\ h = <<h[1], h[2]>> /\ h[1] \in Sessions /\ fd[h[1]] = f
        /\ h[2] \in KeysOwed(h[1]) /\ Bucket[h[2]] = b
    BY DEF Holders
  <2>2. PICK i \in Used(h[1]) : /\ spc[h[1]] = "closed" => i >= rm[h[1]]
                                /\ keys[h[1]][i] = h[2]
    BY <2>1 DEF KeysOwed
  <2>3. <<h[1], i>> \in P
    BY <2>1, <2>2 DEF Owed, Used
  <2>4. g[<<h[1], i>>] = h
    BY <2>1, <2>2, <2>3
  <2> QED
    BY <2>3, <2>4
<1>5. g \in Bijection(P, Holders(b, f))
  <2> HIDE DEF g, P
  <2> QED
    BY <1>2, <1>3, <1>4, Fun_IsBij
<1> QED
  BY <1>1, <1>5, FS_Bijection, Fun_ExistsBij

\* A step that neither touches the table nor what the sessions have in it.
LEMMA TableKept ==
  ASSUME TableHolds, node' = node,
         \A s \in Sessions : /\ KeysOwed(s)' = KeysOwed(s)
                             /\ fd'[s] = fd[s] \/ KeysOwed(s) = {}
  PROVE  TableHolds'
<1> SUFFICES ASSUME NEW b \in Nodes, NEW f \in Fds
             PROVE  node'[b][f] = Cardinality(Holders(b, f)')
  BY DEF TableHolds
<1>1. ASSUME NEW e \in Sessions \X Keys
      PROVE  /\ fd'[e[1]] = f /\ e[2] \in KeysOwed(e[1])' /\ Bucket[e[2]] = b
             <=> fd[e[1]] = f /\ e[2] \in KeysOwed(e[1]) /\ Bucket[e[2]] = b
  OBVIOUS
<1>2. Holders(b, f)' = Holders(b, f)
  BY <1>1 DEF Holders
<1> QED
  BY <1>2 DEF TableHolds

\* The entries of one node of the table are finitely many.
LEMMA EntriesOfNode ==
  ASSUME NEW S \in SUBSET (Fds \X (1 .. MAX_SESSION_COUNT))
  PROVE  IsFiniteSet(S) /\ Cardinality(S) \in Nat
<1>1. IsFiniteSet(Fds) /\ IsFiniteSet(1 .. MAX_SESSION_COUNT)
  <2>1. MAX_SESSION_COUNT \in Int /\ MAX_SESSION_COUNT + 1 \in Int
    BY SizeAssumption
  <2> QED
    BY <2>1, FS_Interval DEF Fds
<1>2. IsFiniteSet(Fds \X (1 .. MAX_SESSION_COUNT))
  BY <1>1, FS_Product
<1> QED
  BY <1>2, FS_Subset, FS_CardinalityType

\* A key is entered: one more holder of the descriptor in the node of the key, and
\* one more entry there, as the node has room.
LEMMA TableAdds ==
  ASSUME TypeOK, ListsSound, TableHolds, NEW t \in Sessions, NEW k \in Keys, fd' = fd,
         KeysOwed(t)' = KeysOwed(t) \cup {k}, k \notin KeysOwed(t),
         \A s \in Sessions \ {t} : KeysOwed(s)' = KeysOwed(s),
         AddKey(k, fd[t]), Count(Bucket[k]) < MAX_SESSION_COUNT
  PROVE  TableHolds'
<1> SUFFICES ASSUME NEW b \in Nodes, NEW f \in Fds
             PROVE  node'[b][f] = Cardinality(Holders(b, f)')
  BY DEF TableHolds
<1>1. /\ node \in [Nodes -> [Fds -> Nat]]
      /\ node' = [node EXCEPT ![Bucket[k]] = [node[Bucket[k]] EXCEPT ![fd[t]] = node[Bucket[k]][fd[t]] + 1]]
  <2>1. ~ (Count(Bucket[k]) >= MAX_SESSION_COUNT)
    <3> DEFINE c == Count(Bucket[k])
    <3>1. c < MAX_SESSION_COUNT
      OBVIOUS
    <3>2. c \in Nat
      BY EntriesOfNode DEF Count
    <3> HIDE DEF c
    <3>3. ~ (c >= MAX_SESSION_COUNT)
      BY <3>1, <3>2, SizeAssumption
    <3> QED
      BY <3>3 DEF c
  <2> QED
    BY <2>1 DEF AddKey, TypeOK
<1>2. CASE b = Bucket[k] /\ f = fd[t]
  <2>1. Holders(b, f)' = Holders(b, f) \cup {<<t, k>>}
    BY <1>2 DEF Holders
  <2>2. <<t, k>> \notin Holders(b, f)
    BY DEF Holders
  <2>3. Cardinality(Holders(b, f)') = Cardinality(Holders(b, f)) + 1
    <3> DEFINE H == Holders(b, f)
               e == <<t, k>>
    <3>1. IsFiniteSet(H) /\ e \notin H
      BY <2>2, EntriesAreKeys
    <3> HIDE DEF H, e
    <3>2. Cardinality(H \cup {e}) = Cardinality(H) + 1
      BY <3>1, FS_AddElement
    <3> QED
      BY <2>1, <3>2 DEF H, e
  <2>4. node'[b][f] = node[b][f] + 1
    BY <1>1, <1>2
  <2> QED
    BY <2>3, <2>4 DEF TableHolds
<1>3. CASE ~ (b = Bucket[k] /\ f = fd[t])
  <2>1. Holders(b, f)' = Holders(b, f)
    BY <1>3 DEF Holders
  <2>2. node'[b][f] = node[b][f]
    BY <1>1, <1>3
  <2> QED
    BY <2>1, <2>2 DEF TableHolds
<1> QED
  BY <1>2, <1>3

\* A key is taken out: its holder has an entry in the node, and one is removed.
LEMMA TableRemoves ==
  ASSUME TypeOK, ListsSound, TableHolds, NEW t \in Sessions, NEW k \in Keys, fd' = fd,
         KeysOwed(t)' = KeysOwed(t) \ {k}, k \in KeysOwed(t),
         \A s \in Sessions \ {t} : KeysOwed(s)' = KeysOwed(s),
         fd[t] \in Fds, RemoveKey(k, fd[t])
  PROVE  TableHolds'
<1>1. /\ node \in [Nodes -> [Fds -> Nat]] /\ Bucket[k] \in Nodes
      /\ node[Bucket[k]][fd[t]] = Cardinality(Holders(Bucket[k], fd[t]))
      /\ IsFiniteSet(Holders(Bucket[k], fd[t]))
      /\ <<t, k>> \in Holders(Bucket[k], fd[t])
  <2>1. node \in [Nodes -> [Fds -> Nat]] /\ Bucket[k] \in Nodes
    BY DEF TypeOK, Nodes
  <2>2. IsFiniteSet(Holders(Bucket[k], fd[t]))
    BY EntriesAreKeys
  <2>3. <<t, k>> \in Holders(Bucket[k], fd[t])
    BY DEF Holders
  <2> QED
    BY <2>1, <2>2, <2>3 DEF TableHolds
<1>2. node[Bucket[k]][fd[t]] # 0
  BY <1>1, FS_EmptySet
<1>3. node' = [node EXCEPT ![Bucket[k]] = [node[Bucket[k]] EXCEPT ![fd[t]] = node[Bucket[k]][fd[t]] - 1]]
  BY <1>2 DEF RemoveKey
<1> SUFFICES ASSUME NEW b \in Nodes, NEW f \in Fds
             PROVE  node'[b][f] = Cardinality(Holders(b, f)')
  BY DEF TableHolds
<1>4. CASE b = Bucket[k] /\ f = fd[t]
  <2>1. Holders(b, f)' = Holders(b, f) \ {<<t, k>>}
    <3>1. ASSUME NEW s \in Sessions, NEW l \in Keys
          PROVE  l \in KeysOwed(s)' <=> l \in KeysOwed(s) /\ ~ (s = t /\ l = k)
      OBVIOUS
    <3>2. ASSUME NEW e \in Sessions \X Keys
          PROVE  /\ e[1] \in Sessions /\ e[2] \in Keys
                 /\ e = <<t, k>> <=> e[1] = t /\ e[2] = k
      OBVIOUS
    <3>3. ASSUME NEW e \in Sessions \X Keys
          PROVE  e \in Holders(b, f)' <=> e \in Holders(b, f) /\ e # <<t, k>>
      <4>1. e[2] \in KeysOwed(e[1])' <=> e[2] \in KeysOwed(e[1]) /\ e # <<t, k>>
        BY <3>1, <3>2
      <4> QED
        BY <4>1 DEF Holders
    <3> QED
      BY <3>3 DEF Holders
  <2>2. Cardinality(Holders(b, f)') = Cardinality(Holders(b, f)) - 1
    <3> DEFINE H == Holders(b, f)
               e == <<t, k>>
    <3>1. IsFiniteSet(H) /\ e \in H
      BY <1>1, <1>4
    <3> HIDE DEF H, e
    <3>2. Cardinality(H \ {e}) = Cardinality(H) - 1
      BY <3>1, FS_RemoveElement
    <3> QED
      BY <2>1, <3>2 DEF H, e
  <2>3. node'[b][f] = node[b][f] - 1
    BY <1>1, <1>3, <1>4
  <2> QED
    BY <2>2, <2>3 DEF TableHolds
<1>5. CASE ~ (b = Bucket[k] /\ f = fd[t])
  <2>1. Holders(b, f)' = Holders(b, f)
    BY <1>5 DEF Holders
  <2>2. node'[b][f] = node[b][f]
    BY <1>1, <1>3, <1>5
  <2> QED
    BY <2>1, <2>2 DEF TableHolds
<1> QED
  BY <1>4, <1>5

\* A session whose own variables stay as they are keeps its keys in the table.
LEMMA OwedKept ==
  ASSUME NEW s, spc'[s] = spc[s], keys'[s] = keys[s], num'[s] = num[s], rm'[s] = rm[s]
  PROVE  KeysOwed(s)' = KeysOwed(s)
  BY DEF KeysOwed, Used

\* The table, step by step, when clients only unsubscribe from what they are subscribed
\* to and no node is full when a key is entered.
LEMMA TableStep ==
  ASSUME Disciplined, NeverFull, TypeOK, KeyAtHand, ListsSound, TableHolds, [Work]_workVars
  PROVE  TableHolds'
<1>0. /\ spc \in [Sessions -> {"free", "serve", "add", "closed"}]
      /\ fd \in [Sessions -> Fds \cup {NoFd}]
      /\ keys \in [Sessions -> [Entries -> Keys \cup {NoKey}]]
      /\ num \in [Sessions -> -1 .. MAX_NUMBER_SUB]
      /\ arg \in [Sessions -> Keys \cup {NoKey}]
      /\ rm \in [Sessions -> 1 .. MAX_NUMBER_SUB + 1]
  BY DEF TypeOK
<1>1. ASSUME NEW t \in Sessions, NEW f \in Fds, Connect(t, f)
      PROVE  TableHolds'
  <2>1. KeysOwed(t) = {} /\ KeysOwed(t)' = {}
    <3>1. num[t] = 0
      BY <1>1 DEF Connect, ListsSound
    <3>2. Used(t) = {}
      BY <3>1, SizeAssumption DEF Used, Entries
    <3>3. Used(t)' = {}
      BY <1>1, <3>2 DEF Connect, Used
    <3> QED
      BY <3>2, <3>3 DEF KeysOwed
  <2>2. ASSUME NEW s \in Sessions, s # t
        PROVE  KeysOwed(s)' = KeysOwed(s) /\ fd'[s] = fd[s]
    BY <1>0, <1>1, <2>2, OwedKept DEF Connect
  <2>3. node' = node
    BY <1>1 DEF Connect
  <2> QED
    BY <2>1, <2>2, <2>3, TableKept
<1>2. ASSUME NEW t \in Sessions, NEW k \in Keys, SubscribeCheck(t, k)
      PROVE  TableHolds'
  <2>1. ASSUME NEW s \in Sessions
        PROVE  KeysOwed(s)' = KeysOwed(s)
    <3>1. Used(s)' = Used(s) /\ keys' = keys /\ rm' = rm
      BY <1>2 DEF SubscribeCheck, Used
    <3>2. spc'[s] = "closed" <=> spc[s] = "closed"
      BY <1>0, <1>2 DEF SubscribeCheck
    <3> QED
      BY <3>1, <3>2 DEF KeysOwed
  <2>2. node' = node /\ fd' = fd
    BY <1>2 DEF SubscribeCheck
  <2> QED
    BY <2>1, <2>2, TableKept
<1>3. ASSUME NEW t \in Sessions, SubscribeAdd(t)
      PROVE  TableHolds'
  <2>0. fd' = fd /\ spc[t] = "add" /\ spc'[t] = "serve" /\ rm' = rm /\ arg[t] \in Keys
    BY <1>0, <1>3 DEF SubscribeAdd, KeyAtHand
  <2>1. ASSUME NEW s \in Sessions \ {t}
        PROVE  KeysOwed(s)' = KeysOwed(s)
    <3>1. spc'[s] = spc[s] /\ keys'[s] = keys[s] /\ num'[s] = num[s] /\ rm'[s] = rm[s]
      BY <1>0, <1>3 DEF SubscribeAdd
    <3> QED
      BY <3>1, OwedKept
  <2>2. CASE num[t] < MAX_NUMBER_SUB /\ Places(t, arg[t]) = {}
    <3> DEFINE n == num[t] + 1
    <3>1. /\ keys'[t] = [keys[t] EXCEPT ![n] = arg[t]] /\ num'[t] = n
          /\ AddKey(arg[t], fd[t])
      BY <1>0, <1>3, <2>2 DEF SubscribeAdd
    <3>2. n \in Entries /\ num[t] \in Nat
      BY <1>0, <2>2, SizeAssumption DEF Entries, ListsSound
    <3>3. Used(t)' = Used(t) \cup {n} /\ n \notin Used(t) /\ Used(t) \subseteq Entries
      BY <3>1, <3>2, SizeAssumption DEF Used, Entries
    <3>4. \A i \in Entries : keys[t][i] # arg[t]
      BY <2>2 DEF Places
    <3>5. keys'[t][n] = arg[t] /\ \A i \in Used(t) : keys'[t][i] = keys[t][i]
      BY <1>0, <3>1, <3>2, <3>3
    <3>6. KeysOwed(t)' = {keys'[t][i] : i \in Used(t)'} /\ KeysOwed(t) = {keys[t][i] : i \in Used(t)}
      BY <2>0 DEF KeysOwed
    <3>7. KeysOwed(t)' = KeysOwed(t) \cup {arg[t]}
      BY <3>3, <3>5, <3>6
    <3>8. arg[t] \notin KeysOwed(t)
      BY <3>3, <3>4, <3>6
    <3>9. Count(Bucket[arg[t]]) < MAX_SESSION_COUNT
      BY <2>0, <2>2 DEF NeverFull
    <3> QED
      BY <2>0, <2>1, <3>1, <3>7, <3>8, <3>9, TableAdds
  <2>3. CASE ~ (num[t] < MAX_NUMBER_SUB /\ Places(t, arg[t]) = {})
    <3>1. keys' = keys /\ num' = num /\ node' = node
      BY <1>3, <2>3 DEF SubscribeAdd
    <3>2. KeysOwed(t)' = KeysOwed(t)
      BY <2>0, <3>1 DEF KeysOwed, Used
    <3> QED
      BY <2>0, <2>1, <3>1, <3>2, TableKept
  <2> QED
    BY <2>2, <2>3
<1>4. ASSUME NEW t \in Sessions, NEW k \in Keys, Unsubscribe(t, k)
      PROVE  TableHolds'
  <2> DEFINE i == First(Places(t, k))
             U == {j \in Entries : j <= num[t] - 1}
  <2>1. /\ keys'[t] = ShiftUp(t, i) /\ num'[t] = num[t] - 1
        /\ spc[t] = "serve" /\ spc' = spc /\ fd' = fd /\ rm' = rm /\ k \in granted[t]
        /\ RemoveKey(k, fd[t])
    BY <1>0, <1>4 DEF Unsubscribe
  <2>2. i \in Used(t) /\ keys[t][i] = k
    BY <2>1, FirstPlaceIsUsed
  <2>3. Used(t)' = U
    BY <1>0, <2>1, SizeAssumption DEF Used, Entries
  <2>4. {ShiftUp(t, i)[j] : j \in U} = {keys[t][j] : j \in Used(t)} \ {keys[t][i]}
    <3> HIDE DEF i
    <3> QED
      BY <2>2, ShiftRemoves
  <2>5. KeysOwed(t)' = {keys'[t][j] : j \in Used(t)'} /\ KeysOwed(t) = {keys[t][j] : j \in Used(t)}
    BY <2>1 DEF KeysOwed
  <2> HIDE DEF i, U
  <2>6. KeysOwed(t)' = KeysOwed(t) \ {k} /\ k \in KeysOwed(t)
    <3>1. keys'[t] = ShiftUp(t, i)
      BY <2>1
    <3>2. KeysOwed(t)' = {ShiftUp(t, i)[j] : j \in U}
      BY <2>3, <2>5, <3>1
    <3>3. k \in {keys[t][j] : j \in Used(t)} /\ keys[t][i] = k
      BY <2>2
    <3> QED
      BY <2>4, <2>5, <3>2, <3>3
  <2>7. ASSUME NEW s \in Sessions \ {t}
        PROVE  KeysOwed(s)' = KeysOwed(s)
    <3>1. spc'[s] = spc[s] /\ keys'[s] = keys[s] /\ num'[s] = num[s] /\ rm'[s] = rm[s]
      BY <1>0, <1>4 DEF Unsubscribe
    <3> QED
      BY <3>1, OwedKept
  <2>8. fd[t] \in Fds
    BY <2>1 DEF ListsSound
  <2> QED
    BY <2>1, <2>6, <2>7, <2>8, TableRemoves
<1>5. ASSUME NEW t \in Sessions, DisconnectClose(t)
      PROVE  TableHolds'
  <2>1. KeysOwed(t)' = KeysOwed(t)
    <3>1. Used(t)' = Used(t) /\ keys' = keys /\ spc[t] = "serve" /\ rm'[t] = 1
      BY <1>0, <1>5 DEF DisconnectClose, Used
    <3>2. \A j \in Used(t) : j >= 1
      BY SizeAssumption DEF Used, Entries
    <3> QED
      BY <3>1, <3>2 DEF KeysOwed
  <2>2. ASSUME NEW s \in Sessions, s # t
        PROVE  KeysOwed(s)' = KeysOwed(s)
    BY <1>0, <1>5, <2>2, OwedKept DEF DisconnectClose
  <2>3. node' = node /\ fd' = fd
    BY <1>5 DEF DisconnectClose
  <2> QED
    BY <2>1, <2>2, <2>3, TableKept
<1>6. ASSUME NEW t \in Sessions, DisconnectRemove(t)
      PROVE  TableHolds'
  <2> DEFINE r == rm[t]
             k == keys[t][r]
  <2>1. /\ spc' = spc /\ keys' = keys /\ num' = num /\ fd' = fd /\ spc[t] = "closed"
        /\ rm'[t] = r + 1 /\ RemoveKey(k, fd[t]) /\ r <= num[t]
    BY <1>0, <1>6 DEF DisconnectRemove
  <2>2. r \in Used(t) /\ Used(t) \subseteq Int /\ r \in Int
    BY <1>0, <2>1, SizeAssumption DEF Used, Entries
  <2>3. k \in Keys /\ k \in KeysOwed(t) /\ fd[t] \in Fds
    BY <2>1, <2>2 DEF ListsSound, KeysOwed
  <2>4. \A j \in Used(t) : j >= r + 1 <=> j >= r /\ j # r
    BY <2>2
  <2>5. KeysOwed(t)' = {keys[t][j] : j \in {l \in Used(t) : l >= r + 1}}
    <3>1. Used(t)' = Used(t)
      BY <2>1 DEF Used
    <3> QED
      BY <2>1, <3>1 DEF KeysOwed
  <2>6. KeysOwed(t) = {keys[t][j] : j \in {l \in Used(t) : l >= r}}
    BY <2>1 DEF KeysOwed
  <2>7. \A j, l \in Used(t) : keys[t][j] = keys[t][l] => j = l
    BY DEF ListsSound
  <2> HIDE DEF r
  <2>8. KeysOwed(t)' = KeysOwed(t) \ {k}
    BY <2>2, <2>4, <2>5, <2>6, <2>7
  <2>9. ASSUME NEW s \in Sessions \ {t}
        PROVE  KeysOwed(s)' = KeysOwed(s)
    <3>1. spc'[s] = spc[s] /\ keys'[s] = keys[s] /\ num'[s] = num[s] /\ rm'[s] = rm[s]
      BY <1>0, <1>6 DEF DisconnectRemove
    <3> QED
      BY <3>1, OwedKept
  <2> HIDE DEF k
  <2> QED
    BY <2>1, <2>3, <2>8, <2>9, TableRemoves
<1>7. ASSUME NEW t \in Sessions, DisconnectFinish(t)
      PROVE  TableHolds'
  <2>1. KeysOwed(t) = {} /\ KeysOwed(t)' = {}
    <3>1. spc[t] = "closed" /\ rm[t] > num[t] /\ num'[t] = 0
      BY <1>0, <1>7 DEF DisconnectFinish
    <3>2. \A j \in Used(t) : ~ (j >= rm[t])
      BY <1>0, <3>1, SizeAssumption DEF Used, Entries
    <3>3. Used(t)' = {}
      BY <3>1, SizeAssumption DEF Used, Entries
    <3> QED
      BY <3>1, <3>2, <3>3 DEF KeysOwed
  <2>2. ASSUME NEW s \in Sessions, s # t
        PROVE  KeysOwed(s)' = KeysOwed(s) /\ fd'[s] = fd[s]
    BY <1>0, <1>7, <2>2, OwedKept DEF DisconnectFinish
  <2>3. node' = node
    BY <1>7 DEF DisconnectFinish
  <2> QED
    BY <2>1, <2>2, <2>3, TableKept
<1>8. CASE UNCHANGED <<spc, fd, keys, num, rm, node>>
  BY <1>8, OwedKept, TableKept
<1> QED
  BY <1>1, <1>2, <1>3, <1>4, <1>5, <1>6, <1>7, <1>8
  DEF Work, SessionStep, JobStep, JobLock, JobApply, JobSend, JobUnlock, workVars, sessionVars

-----------------------------------------------------------------------------
(* Notifications.                                                          *)

\* get_fds finds the descriptor of every client that is subscribed to the key.
LEMMA SubscribersFound ==
  ASSUME TypeOK, ListsSound, TableHolds, NEW s \in Sessions, NEW k \in granted[s]
  PROVE  spc[s] \in {"serve", "add"} /\ fd[s] \in Fds /\ node[Bucket[k]][fd[s]] > 0
<1>1. spc[s] \in {"serve", "add"} /\ k \in Keys
  BY DEF TypeOK, ListsSound
<1>2. fd[s] \in Fds /\ granted[s] = {keys[s][i] : i \in Used(s)}
  BY <1>1 DEF ListsSound
<1>3. k \in KeysOwed(s)
  BY <1>1, <1>2 DEF KeysOwed
<1>4. <<s, k>> \in Holders(Bucket[k], fd[s])
  BY <1>1, <1>3 DEF Holders
<1>5. IsFiniteSet(Holders(Bucket[k], fd[s]))
  BY EntriesAreKeys
<1>6. Cardinality(Holders(Bucket[k], fd[s])) # 0 /\ Cardinality(Holders(Bucket[k], fd[s])) \in Nat
  BY <1>4, <1>5, FS_EmptySet, FS_CardinalityType
<1>7. node[Bucket[k]][fd[s]] = Cardinality(Holders(Bucket[k], fd[s]))
  BY <1>1, <1>2 DEF TableHolds, Nodes
<1> QED
  BY <1>1, <1>2, <1>6, <1>7

\* Between two lookups nobody waits for a notification.
LEMMA NobodyWaits ==
  ASSUME TypeOK, ListsSound, TableHolds, ClientsOnTheirTurn, ~writing \/ snap = NoFds
  PROVE  \A s \in Sessions : lag[s] = {}
<1> SUFFICES ASSUME NEW s \in Sessions, NEW k \in lag[s]
             PROVE  FALSE
  OBVIOUS
<1>1. writing /\ k \in granted[s] /\ snap[fd[s]] > 0
  BY DEF ClientsOnTheirTurn
<1>2. fd[s] \in Fds
  BY <1>1, SubscribersFound
<1> QED
  BY <1>1, <1>2 DEF NoFds

\* The clients that wait for a notification, step by step: the sessions come and go,
\* and change their lists, while the job thread goes through its copy.
LEMMA TurnStep ==
  ASSUME TypeOK, ListsSound, TableHolds, ClientsOnTheirTurn, [Work]_workVars
  PROVE  ClientsOnTheirTurn'
<1>0. /\ spc \in [Sessions -> {"free", "serve", "add", "closed"}]
      /\ fd \in [Sessions -> Fds \cup {NoFd}]
      /\ node \in [Nodes -> [Fds -> Nat]]
      /\ snap \in [Fds -> Nat]
      /\ granted \in [Sessions -> SUBSET Keys]
      /\ lag \in [Sessions -> SUBSET Keys]
  BY DEF TypeOK
<1>a. ASSUME UNCHANGED <<writing, cur, snap>>,
             \A s \in Sessions : \A k \in lag'[s] :
               k \in lag[s] /\ fd'[s] = fd[s] /\ (k \in granted[s] => k \in granted'[s])
      PROVE  ClientsOnTheirTurn'
  BY <1>a DEF ClientsOnTheirTurn
<1>1. ASSUME NEW t \in Sessions, NEW f \in Fds, Connect(t, f)
      PROVE  ClientsOnTheirTurn'
  <2>1. lag[t] = {}
    BY <1>1 DEF Connect, ListsSound
  <2>2. \A s \in Sessions : s = t \/ fd'[s] = fd[s]
    BY <1>0, <1>1 DEF Connect
  <2>3. UNCHANGED <<writing, cur, snap, granted, lag>>
    BY <1>1 DEF Connect, jobVars
  <2> QED
    BY <1>a, <2>1, <2>2, <2>3
<1>2. ASSUME NEW t \in Sessions, SubscribeAdd(t)
      PROVE  ClientsOnTheirTurn'
  <2>1. UNCHANGED <<writing, cur, snap, lag, fd>>
    BY <1>2 DEF SubscribeAdd, jobVars
  <2>2. \A s \in Sessions : granted[s] \subseteq granted'[s]
    BY <1>0, <1>2 DEF SubscribeAdd
  <2> QED
    BY <1>a, <2>1, <2>2
<1>3. ASSUME NEW t \in Sessions, NEW k \in Keys, Unsubscribe(t, k)
      PROVE  ClientsOnTheirTurn'
  <2>1. UNCHANGED <<writing, cur, snap, fd>>
    BY <1>3 DEF Unsubscribe, jobVars
  <2>2. /\ lag' = [lag EXCEPT ![t] = lag[t] \ {k}]
        /\ granted' = [granted EXCEPT ![t] = granted[t] \ {k}]
    BY <1>3 DEF Unsubscribe
  <2> QED
    BY <1>0, <1>a, <2>1, <2>2
<1>4. ASSUME NEW t \in Sessions, DisconnectClose(t)
      PROVE  ClientsOnTheirTurn'
  <2>1. UNCHANGED <<writing, cur, snap, fd>>
    BY <1>4 DEF DisconnectClose, jobVars
  <2>2. lag' = [lag EXCEPT ![t] = {}] /\ granted' = [granted EXCEPT ![t] = {}]
    BY <1>4 DEF DisconnectClose
  <2> QED
    BY <1>0, <1>a, <2>1, <2>2
<1>5. ASSUME NEW t \in Sessions, DisconnectFinish(t)
      PROVE  ClientsOnTheirTurn'
  <2>1. lag[t] = {}
    BY <1>5 DEF DisconnectFinish, ListsSound
  <2>2. \A s \in Sessions : s = t \/ fd'[s] = fd[s]
    BY <1>0, <1>5 DEF DisconnectFinish
  <2>3. UNCHANGED <<writing, cur, snap, granted, lag>>
    BY <1>5 DEF DisconnectFinish, jobVars
  <2> QED
    BY <1>a, <2>1, <2>2, <2>3
<1>6. ASSUME NEW batch \in Batches, JobLock(batch)
      PROVE  ClientsOnTheirTurn'
  <2>1. \A s \in Sessions : lag[s] = {}
    BY <1>6, NobodyWaits DEF JobLock
  <2>2. writing' = TRUE /\ lag' = lag
    BY <1>6 DEF JobLock
  <2> QED
    BY <2>1, <2>2 DEF ClientsOnTheirTurn
<1>7. CASE JobApply
  <2> DEFINE k == Head(todo)[1]
             v == Head(todo)[2]
  <2>1. writing /\ writing' = writing /\ snap = NoFds /\ UNCHANGED <<fd, granted>>
    BY <1>7 DEF JobApply, sessionVars
  <2>2. \A s \in Sessions : lag[s] = {}
    BY <2>1, NobodyWaits
  <2>3. CASE v # Missing /\ store[k] = v
    <3>1. UNCHANGED <<cur, snap, lag>>
      BY <1>7, <2>3 DEF JobApply
    <3> QED
      BY <2>1, <2>2, <3>1, <1>a
  <2>4. CASE ~ (v # Missing /\ store[k] = v)
    <3>1. /\ cur' = k /\ snap' = node[Bucket[k]]
          /\ lag' = [s \in Sessions |-> lag[s] \cup (granted[s] \cap {k})]
      BY <1>7, <2>4 DEF JobApply
    <3> HIDE DEF k
    <3>2. ASSUME NEW s \in Sessions, NEW l \in lag'[s]
          PROVE  l = k /\ k \in granted[s] /\ snap'[fd[s]] > 0
      <4>1. l = k /\ k \in granted[s]
        BY <2>2, <3>1
      <4>2. node[Bucket[k]][fd[s]] > 0
        BY <4>1, SubscribersFound
      <4> QED
        BY <3>1, <4>1, <4>2
    <3> QED
      BY <2>1, <3>1, <3>2 DEF ClientsOnTheirTurn
  <2> QED
    BY <2>3, <2>4
<1>8. ASSUME NEW f \in Fds, JobSend(f)
      PROVE  ClientsOnTheirTurn'
  <2>1. /\ writing /\ UNCHANGED <<writing, cur, fd, granted>>
        /\ snap' = [snap EXCEPT ![f] = snap[f] - 1]
        /\ lag' = [s \in Sessions |->
                     IF fd[s] = f /\ spc[s] \in {"serve", "add"} THEN lag[s] \ {cur}
                                                                 ELSE lag[s]]
    BY <1>8 DEF JobSend, sessionVars
  <2>2. ASSUME NEW s \in Sessions, NEW k \in lag'[s]
        PROVE  k = cur /\ k \in granted[s] /\ snap'[fd[s]] > 0
    <3>1. k \in lag[s]
      BY <2>1
    <3>2. k = cur /\ k \in granted[s] /\ snap[fd[s]] > 0
      BY <3>1 DEF ClientsOnTheirTurn
    <3>3. spc[s] \in {"serve", "add"} /\ fd[s] \in Fds
      BY <3>2, SubscribersFound
    <3>4. fd[s] # f
      BY <2>1, <3>2, <3>3
    <3>5. snap'[fd[s]] = snap[fd[s]]
      BY <1>0, <2>1, <3>3, <3>4
    <3> QED
      BY <3>2, <3>5
  <2> QED
    BY <2>1, <2>2 DEF ClientsOnTheirTurn
<1>9. CASE JobUnlock
  <2>1. snap = NoFds /\ UNCHANGED <<snap, lag>>
    BY <1>9 DEF JobUnlock
  <2>2. \A s \in Sessions : lag[s] = {}
    BY <2>1, NobodyWaits
  <2> QED
    BY <2>1, <2>2 DEF ClientsOnTheirTurn
<1>10. CASE UNCHANGED <<writing, cur, snap, lag, fd, granted>>
  BY <1>10, <1>a
<1> QED
  BY <1>1, <1>2, <1>3, <1>4, <1>5, <1>6, <1>7, <1>8, <1>9, <1>10
  DEF Work, SessionStep, JobStep, SubscribeCheck, DisconnectRemove, workVars, sessionVars, jobVars

-----------------------------------------------------------------------------
(* Room in the nodes.                                                      *)

\* What the proofs use of a bijection: it maps into its range and is injective.
LEMMA BijectionMaps ==
  ASSUME NEW S, NEW T, NEW F \in Bijection(S, T)
  PROVE  /\ F \in [S -> T]
         /\ \A x \in S : F[x] \in T
         /\ \A x, y \in S : F[x] = F[y] => x = y
<1>1. F \in [S -> T] /\ \A x, y \in S : F[x] = F[y] => x = y
  BY DEF Bijection, Injection, IsInjective
<1> QED
  BY <1>1

\* When no two keys share a node, the entries of a node belong to different sessions,
\* and none of them to the one that is about to subscribe.
LEMMA RoomInNodes ==
  ASSUME BucketsApart, TypeOK, KeyAtHand, ListsSound, TableHolds
  PROVE  NeverFull
<1> SUFFICES ASSUME NEW s \in Sessions, spc[s] = "add", Places(s, arg[s]) = {}
             PROVE  Count(Bucket[arg[s]]) < MAX_SESSION_COUNT
  BY DEF NeverFull
<1> DEFINE k == arg[s]
           b == Bucket[k]
           E == {e \in Fds \X (1 .. MAX_SESSION_COUNT) : e[2] <= node[b][e[1]]}
           T == Sessions \ {s}
           G == [f \in Fds |-> CHOOSE g : g \in Bijection(1 .. node[b][f], Holders(b, f))]
           g == [e \in E |-> G[e[1]][e[2]][1]]
<1>1. k \in Keys /\ b \in Nodes /\ k \notin KeysOwed(s)
  BY DEF KeyAtHand, Nodes, Places, KeysOwed, Used
<1>2. ASSUME NEW f \in Fds
      PROVE  G[f] \in Bijection(1 .. node[b][f], Holders(b, f))
  <2>1. IsFiniteSet(Holders(b, f)) /\ node[b][f] = Cardinality(Holders(b, f))
    BY <1>1, EntriesAreKeys DEF TableHolds
  <2>2. Bijection(1 .. node[b][f], Holders(b, f)) # {}
    BY <2>1, FS_CardinalityType, Fun_ExistsBij
  <2> QED
    BY <2>2
<1>3. ASSUME NEW e \in E
      PROVE  /\ e[1] \in Fds /\ e[2] \in 1 .. node[b][e[1]]
             /\ G[e[1]][e[2]] = <<g[e], k>> /\ g[e] \in T /\ fd[g[e]] = e[1]
  <2>1. e[1] \in Fds /\ e[2] \in 1 .. MAX_SESSION_COUNT /\ e[2] <= node[b][e[1]]
    OBVIOUS
  <2>2. node[b][e[1]] \in Nat
    BY <1>1, <2>1 DEF TypeOK
  <2>3. e[2] \in 1 .. node[b][e[1]]
    BY <2>1, <2>2, SizeAssumption
  <2> DEFINE h == G[e[1]][e[2]]
  <2>4. h \in Holders(b, e[1])
    <3>1. G[e[1]] \in Bijection(1 .. node[b][e[1]], Holders(b, e[1]))
      BY <1>2, <2>1
    <3> HIDE DEF G, b
    <3> DEFINE D == 1 .. node[b][e[1]]
               R == Holders(b, e[1])
               F == G[e[1]]
    <3>2. F \in Bijection(D, R) /\ e[2] \in D
      BY <2>3, <3>1
    <3>3. F[e[2]] \in R
      <4> HIDE DEF D, R, F
      <4> QED
        BY <3>2, BijectionMaps
    <3> QED
      BY <3>3
  <2>5. /\ h = <<h[1], h[2]>> /\ h[1] \in Sessions /\ h[2] \in Keys /\ fd[h[1]] = e[1]
        /\ h[2] \in KeysOwed(h[1]) /\ Bucket[h[2]] = b
    <3> HIDE DEF h
    <3> QED
      BY <2>4 DEF Holders
  <2>6. h[2] = k
    BY <1>1, <2>5 DEF BucketsApart
  <2>7. h[1] # s
    BY <1>1, <2>5, <2>6
  <2>8. g[e] = h[1]
    OBVIOUS
  <2> QED
    BY <2>1, <2>3, <2>5, <2>6, <2>7, <2>8
<1>4. ASSUME NEW d \in E, NEW e \in E, g[d] = g[e]
      PROVE  d = e
  <2>1. d[1] = e[1] /\ G[d[1]][d[2]] = G[d[1]][e[2]]
    <3> HIDE DEF g, G, E, T, k, b
    <3>1. G[d[1]][d[2]] = <<g[d], k>> /\ fd[g[d]] = d[1]
      BY <1>3
    <3>2. G[e[1]][e[2]] = <<g[e], k>> /\ fd[g[e]] = e[1]
      BY <1>3
    <3> QED
      BY <1>4, <3>1, <3>2
  <2>2. d[1] \in Fds /\ d[2] \in 1 .. node[b][d[1]] /\ e[2] \in 1 .. node[b][d[1]]
    <3> HIDE DEF g, G, E
    <3> QED
      BY <1>3, <2>1
  <2>3. G[d[1]] \in Bijection(1 .. node[b][d[1]], Holders(b, d[1]))
    BY <1>2, <2>2
  <2>4. d[2] = e[2]
    <3> DEFINE D == 1 .. node[b][d[1]]
               R == Holders(b, d[1])
               F == G[d[1]]
    <3>1. F \in Bijection(D, R) /\ d[2] \in D /\ e[2] \in D /\ F[d[2]] = F[e[2]]
      BY <2>1, <2>2, <2>3
    <3> HIDE DEF D, R, F
    <3> QED
      BY <3>1, BijectionMaps
  <2>5. d = <<d[1], d[2]>> /\ e = <<e[1], e[2]>>
    OBVIOUS
  <2> QED
    BY <2>1, <2>4, <2>5
<1>5. g \in Injection(E, T)
  <2>1. g \in [E -> T]
    BY <1>3
  <2> HIDE DEF g, E, T
  <2> QED
    BY <1>4, <2>1, Fun_IsInj
<1>6. IsFiniteSet(T) /\ Cardinality(T) = MAX_SESSION_COUNT - 1
  <2>1. IsFiniteSet(Sessions) /\ Cardinality(Sessions) = MAX_SESSION_COUNT
    BY FS_Interval, SizeAssumption DEF Sessions
  <2> QED
    BY <2>1, FS_RemoveElement
<1>7. Cardinality(E) <= Cardinality(T)
  <2> HIDE DEF g, E, T
  <2> QED
    BY <1>5, <1>6, FS_Injection
<1>8. Count(b) = Cardinality(E) /\ Cardinality(E) \in Nat
  BY EntriesOfNode DEF Count
<1> QED
  BY <1>6, <1>7, <1>8, SizeAssumption

-----------------------------------------------------------------------------
(* The theorems.                                                           *)

\* Before the first client and the first job nobody is owed anything.
LEMMA Initially == Init => IInv
<1> SUFFICES ASSUME Init
             PROVE  IInv
  OBVIOUS
<1>1. TypeOK
  <2>1. writing \in BOOLEAN
    BY Zenon DEF Init
  <2>2. todo \in Seq(Keys \X (Values \cup {Missing}))
    BY DEF Init
  <2> QED
    BY <2>1, <2>2, SizeAssumption
    DEF Init, TypeOK, Sessions, Entries, NoEntries, NoFds, Fds, NoFd
<1>2. KeyAtHand /\ DescriptorsApart
  BY KeyAssumption DEF Init, KeyAtHand, DescriptorsApart
<1>3. \A s \in Sessions : Used(s) = {}
  BY SizeAssumption DEF Init, Used, Entries
<1>4. ListsSound
  BY <1>3 DEF Init, ListsSound
<1>5. TableHolds
  <2> SUFFICES ASSUME NEW b \in Nodes, NEW f \in Fds
               PROVE  node[b][f] = Cardinality(Holders(b, f))
    BY DEF TableHolds
  <2>1. Holders(b, f) = {}
    BY <1>3 DEF Holders, KeysOwed
  <2>2. node[b][f] = 0
    BY DEF Init, NoFds
  <2> QED
    BY <2>1, <2>2, FS_EmptySet
<1>6. ClientsOnTheirTurn
  BY DEF Init, ClientsOnTheirTurn
<1> QED
  BY <1>1, <1>2, <1>4, <1>5, <1>6 DEF IInv

\* ListsSound in the words of ListExact: num_keys counts the keys of the client.
LEMMA ListsAreExact ==
  ASSUME TypeOK, ListsSound
  PROVE  ListExact
<1> SUFFICES ASSUME NEW s \in Sessions, spc[s] \in {"serve", "add"}
             PROVE  /\ granted[s] = {keys[s][i] : i \in Used(s)}
                    /\ Cardinality(granted[s]) = num[s]
  BY DEF ListExact, Used
<1>1. num[s] \in Nat /\ num[s] <= MAX_NUMBER_SUB
  BY SizeAssumption DEF TypeOK, ListsSound
<1>2. Used(s) = 1 .. num[s]
  BY <1>1, SizeAssumption DEF Used, Entries
<1>3. granted[s] = {keys[s][i] : i \in Used(s)}
  BY DEF ListsSound
<1>4. \A i, j \in Used(s) : keys[s][i] = keys[s][j] => i = j
  BY DEF ListsSound
<1> DEFINE n == num[s]
           K == granted[s]
           g == [i \in 1 .. n |-> keys[s][i]]
<1>5. g \in Bijection(1 .. n, K)
  <2>1. g \in [1 .. n -> K]
    BY <1>2, <1>3
  <2>2. \A i, j \in 1 .. n : g[i] = g[j] => i = j
    BY <1>2, <1>4
  <2>3. \A k \in K : \E i \in 1 .. n : g[i] = k
    BY <1>2, <1>3
  <2> HIDE DEF g, n, K
  <2> QED
    BY <2>1, <2>2, <2>3, Fun_IsBij
<1>6. Cardinality(K) = n
  <2> HIDE DEF g
  <2>1. ExistsBijection(1 .. n, K)
    BY <1>5 DEF ExistsBijection
  <2> QED
    BY <1>1, <2>1, FS_CountingElements
<1> QED
  BY <1>3, <1>6

\* TableHolds in the words of TableExact, entries of key lists in the place of keys.
LEMMA TableIsExact ==
  ASSUME TypeOK, ListsSound, TableHolds
  PROVE  TableExact
<1> SUFFICES ASSUME NEW b \in Nodes, NEW f \in Fds
             PROVE  node[b][f] =
                      Cardinality({e \in Sessions \X Entries : fd[e[1]] = f /\ e[2] \in Owed(e[1], b)})
  BY DEF TableExact
<1> QED
  BY EntriesAreKeys DEF TableHolds

\* Each step of a client thread and of the job thread keeps the invariant, as long as
\* add_key does not meet a full node.
LEMMA Inductive ==
  ASSUME Disciplined
  PROVE  NeverFull /\ IInv /\ [Next]_vars => IInv'
<1> SUFFICES ASSUME NeverFull, IInv, [Next]_vars
             PROVE  IInv'
  OBVIOUS
<1> QED
  BY StepWorks, TypeStep, KeyAtHandStep, DescriptorsStep, ListsStep, TableStep, TurnStep DEF IInv

\* Every variable keeps its type, whatever the clients do and whether or not a node of
\* the table is ever full.
THEOREM TypeCorrect == Spec => []TypeOK
<1>1. Init => TypeOK /\ KeyAtHand
  BY Initially DEF IInv
<1>2. TypeOK /\ KeyAtHand /\ [Next]_vars => TypeOK' /\ KeyAtHand'
  BY StepWorks, TypeStep, KeyAtHandStep
<1> QED
  BY <1>1, <1>2, PTL DEF Spec

\* The first num_keys entries of a key list are, each once, the keys the client was
\* told it is subscribed to, if clients only unsubscribe from what they are subscribed
\* to (broker_unsubscribe shows what happens otherwise), full nodes or not.
THEOREM ListTheorem == Disciplined => (Spec => []ListExact)
<1> SUFFICES ASSUME Disciplined
             PROVE  Spec => []ListExact
  OBVIOUS
<1> DEFINE J == TypeOK /\ KeyAtHand /\ ListsSound
<1>1. Init => J
  BY Initially DEF IInv
<1>2. J /\ [Next]_vars => J'
  BY StepWorks, TypeStep, KeyAtHandStep, ListsStep
<1>3. J => ListExact
  BY ListsAreExact
<1> QED
  BY <1>1, <1>2, <1>3, PTL DEF Spec

\* In a run in which add_key never meets a full node, every state satisfies the
\* inductive invariant.
THEOREM Invariance == Disciplined => (Spec /\ []NeverFull => []IInv)
<1> SUFFICES ASSUME Disciplined
             PROVE  Spec /\ []NeverFull => []IInv
  OBVIOUS
<1>1. NeverFull /\ IInv /\ [Next]_vars => IInv'
  BY Inductive
<1> QED
  BY <1>1, Initially, PTL DEF Spec

\* Then the table holds each descriptor once for each subscription of the sessions that
\* have it, dying sessions included.
THEOREM TableTheorem == Disciplined => (Spec /\ []NeverFull => []TableExact)
<1> SUFFICES ASSUME Disciplined
             PROVE  Spec /\ []NeverFull => []TableExact
  OBVIOUS
<1>1. IInv => TableExact
  BY TableIsExact DEF IInv
<1> QED
  BY <1>1, Invariance, PTL

\* And when the lock of the store is free, every client has been sent the last change
\* of each key it is subscribed to.
THEOREM NotifiedTheorem == Disciplined => (Spec /\ []NeverFull => []NotifiedBeforeUnlock)
<1> SUFFICES ASSUME Disciplined
             PROVE  Spec /\ []NeverFull => []NotifiedBeforeUnlock
  OBVIOUS
<1>1. IInv => NotifiedBeforeUnlock
  BY NobodyWaits DEF IInv, NotifiedBeforeUnlock
<1> QED
  BY <1>1, Invariance, PTL

\* A node of one key never fills up: there is room for one entry of each session, as
\* add_key's comment says.  (broker_full shows a node that two keys share.)
THEOREM RoomTheorem == Disciplined /\ BucketsApart => (Spec => []NeverFull)
<1> SUFFICES ASSUME Disciplined, BucketsApart
             PROVE  Spec => []NeverFull
  OBVIOUS
<1>1. IInv => NeverFull
  BY RoomInNodes DEF IInv
<1>2. IInv /\ [Next]_vars => IInv'
  BY <1>1, Inductive
<1> QED
  BY <1>1, <1>2, Initially, PTL DEF Spec

\* Without hypotheses on the run, for a hash function that keeps the keys apart: the
\* table is exact, and every client is notified before the lock of the store is free.
THEOREM BrokerTheorem ==
  Disciplined /\ BucketsApart => (Spec => [](TableExact /\ NotifiedBeforeUnlock))
<1> SUFFICES ASSUME Disciplined, BucketsApart
             PROVE  Spec => [](TableExact /\ NotifiedBeforeUnlock)
  OBVIOUS
<1> QED
  BY RoomTheorem, TableTheorem, NotifiedTheorem, PTL

-----------------------------------------------------------------------------
(* The service.                                                            *)

\* SUBSCRIBE, first half, is a client asking for a key.
LEMMA CheckSimulates ==
  ASSUME TypeOK, KeyAtHand, NEW s \in Sessions, NEW k \in Keys, SubscribeCheck(s, k)
  PROVE  Service!Ask(s, k)
<1>1. arg[s] = NoKey
  BY KeyAssumption DEF TypeOK, KeyAtHand, SubscribeCheck
<1> QED
  BY <1>1 DEF SubscribeCheck, jobVars, Service!Ask

\* SUBSCRIBE, second half, is the answer: the key is new to the client, and one
\* more is not too many, because the list holds what the client was told.
LEMMA AddSimulates ==
  ASSUME TypeOK, KeyAtHand, ListsSound, NEW s \in Sessions, SubscribeAdd(s)
  PROVE  Service!Answer(s)
<1>1. arg[s] \in Keys /\ arg[s] # NoKey
  BY KeyAssumption DEF KeyAtHand, SubscribeAdd
<1>2. /\ arg' = [arg EXCEPT ![s] = NoKey]
      /\ UNCHANGED <<store, writing, todo, lag>>
  BY DEF SubscribeAdd, jobVars
<1>3. CASE num[s] < MAX_NUMBER_SUB /\ Places(s, arg[s]) = {}
  <2>1. granted' = [granted EXCEPT ![s] = granted[s] \cup {arg[s]}]
    BY <1>3 DEF SubscribeAdd
  <2>2. granted[s] = {keys[s][i] : i \in Used(s)}
    BY DEF ListsSound, SubscribeAdd
  <2>3. arg[s] \notin granted[s]
    BY <1>3, <2>2 DEF Places, Used
  <2>4. Cardinality(granted[s]) = num[s]
    BY ListsAreExact DEF ListExact, SubscribeAdd
  <2>5. Service!Cardinality(granted[s]) = Cardinality(granted[s])
    BY Zenon DEF Service!Cardinality, Cardinality
  <2> QED
    BY <1>1, <1>2, <1>3, <2>1, <2>3, <2>4, <2>5 DEF Service!Answer
<1>4. CASE ~ (num[s] < MAX_NUMBER_SUB /\ Places(s, arg[s]) = {})
  <2>1. UNCHANGED granted
    BY <1>4 DEF SubscribeAdd
  <2> QED
    BY <1>1, <1>2, <2>1 DEF Service!Answer
<1> QED
  BY <1>3, <1>4

\* A change waits until everybody was told of the one before, since a client that
\* was not is still among the copied descriptors.
LEMMA ApplySimulates ==
  ASSUME TypeOK, ListsSound, TableHolds, ClientsOnTheirTurn, JobApply
  PROVE  Service!Change
<1>1. \A s \in Sessions : lag[s] = {}
  BY NobodyWaits DEF JobApply
<1>2. Service!Told
  BY <1>1 DEF Service!Told
<1>3. writing /\ todo # <<>> /\ todo' = Tail(todo) /\ UNCHANGED <<arg, granted, writing>>
  BY DEF JobApply, sessionVars
<1>4. CASE Head(todo)[2] # Missing /\ store[Head(todo)[1]] = Head(todo)[2]
  <2>1. UNCHANGED <<store, lag>>
    BY <1>4 DEF JobApply
  <2> QED
    BY <1>2, <1>3, <1>4, <2>1 DEF Service!Change
<1>5. CASE ~ (Head(todo)[2] # Missing /\ store[Head(todo)[1]] = Head(todo)[2])
  <2> DEFINE k == Head(todo)[1]
  <2>1. /\ store' = [store EXCEPT ![k] = Head(todo)[2]]
        /\ lag' = [s \in Sessions |-> lag[s] \cup (granted[s] \cap {k})]
    BY <1>5 DEF JobApply
  <2>2. \A s \in Sessions : lag[s] \cup (granted[s] \cap {k}) = {k} \cap granted[s]
    BY <1>1
  <2>3. lag' = [s \in Sessions |-> {k} \cap granted[s]]
    BY <2>1, <2>2
  <2> QED
    BY <1>2, <1>3, <1>5, <2>1, <2>3 DEF Service!Change
<1> QED
  BY <1>4, <1>5

\* A write to a copied descriptor tells one client, or nobody when the descriptor is
\* closed or the client that has its number is owed nothing.
LEMMA SendSimulates ==
  ASSUME TypeOK, DescriptorsApart, ListsSound, ClientsOnTheirTurn, NEW f \in Fds, JobSend(f)
  PROVE  UNCHANGED lag \/ \E s \in Sessions : Service!Notify(s)
<1> DEFINE Reached == {s \in Sessions : fd[s] = f /\ spc[s] \in {"serve", "add"}}
<1>1. /\ lag' = [s \in Sessions |-> IF s \in Reached THEN lag[s] \ {cur} ELSE lag[s]]
      /\ UNCHANGED <<arg, granted, store, writing, todo>>
  BY DEF JobSend, sessionVars
<1>2. lag \in [Sessions -> SUBSET Keys]
  BY DEF TypeOK
<1>3. \A s \in Sessions : lag[s] \ {cur} = {}
  BY DEF ClientsOnTheirTurn
<1>4. \A s, t \in Reached : s = t
  BY DEF DescriptorsApart
<1>5. ASSUME NEW s \in Reached, lag[s] # {}
      PROVE  Service!Notify(s)
  <2>1. lag' = [lag EXCEPT ![s] = {}]
    BY <1>1, <1>2, <1>3, <1>4
  <2> QED
    BY <1>1, <1>5, <2>1 DEF Service!Notify
<1>6. CASE \A s \in Reached : lag[s] = {}
  <2>1. \A s \in Sessions : lag'[s] = lag[s]
    BY <1>1, <1>6
  <2> QED
    BY <1>1, <1>2, <2>1
<1> QED
  BY <1>5, <1>6

\* Every step of the sessions and of the job thread is a step of the service, or
\* changes nothing that it shows.
LEMMA StepSimulates ==
  ASSUME Disciplined, IInv, [Work]_workVars
  PROVE  [Service!Next]_(Service!vars)
<1>0. TypeOK /\ KeyAtHand /\ DescriptorsApart /\ ListsSound /\ TableHolds /\ ClientsOnTheirTurn
  BY DEF IInv
<1>1. ASSUME NEW s \in Sessions, NEW k \in Keys, SubscribeCheck(s, k)
      PROVE  Service!Next
  BY <1>0, <1>1, CheckSimulates DEF Service!Next
<1>2. ASSUME NEW s \in Sessions, SubscribeAdd(s)
      PROVE  Service!Next
  BY <1>0, <1>2, AddSimulates DEF Service!Next
<1>3. ASSUME NEW s \in Sessions, spc[s] = "serve"
      PROVE  arg[s] = NoKey
  BY <1>0, <1>3 DEF KeyAtHand, TypeOK
<1>4. ASSUME NEW s \in Sessions, NEW k \in Keys, Unsubscribe(s, k)
      PROVE  Service!Next
  <2>1. Service!Unsubscribe(s, k)
    BY <1>3, <1>4 DEF Unsubscribe, jobVars, Service!Unsubscribe
  <2> QED
    BY <2>1 DEF Service!Next
<1>5. ASSUME NEW s \in Sessions, DisconnectClose(s)
      PROVE  Service!Next
  <2>1. Service!Leave(s)
    BY <1>3, <1>5 DEF DisconnectClose, jobVars, Service!Leave
  <2> QED
    BY <2>1 DEF Service!Next
<1>6. ASSUME NEW batch \in Batches, JobLock(batch)
      PROVE  Service!Next
  <2>1. Service!Begin(batch)
    BY <1>6 DEF JobLock, sessionVars, Service!Begin, Service!clients
  <2> QED
    BY <2>1 DEF Service!Next
<1>7. CASE JobApply
  BY <1>0, <1>7, ApplySimulates DEF Service!Next
<1>8. ASSUME NEW f \in Fds, JobSend(f)
      PROVE  [Service!Next]_(Service!vars)
  <2>1. UNCHANGED <<arg, granted, store, writing, todo>>
    BY <1>8 DEF JobSend, sessionVars
  <2>2. CASE UNCHANGED lag
    BY <2>1, <2>2 DEF Service!vars, Service!clients
  <2>3. ASSUME NEW s \in Sessions, Service!Notify(s)
        PROVE  Service!Next
    BY <2>3 DEF Service!Next
  <2> QED
    BY <1>0, <1>8, <2>2, <2>3, SendSimulates
<1>9. CASE JobUnlock
  <2>1. \A s \in Sessions : lag[s] = {}
    BY <1>0, <1>9, NobodyWaits DEF JobUnlock
  <2>2. Service!End
    BY <1>9, <2>1 DEF JobUnlock, sessionVars, Service!End, Service!Told, Service!clients
  <2> QED
    BY <2>2 DEF Service!Next
<1>10. CASE UNCHANGED <<arg, granted, lag, store, writing, todo>>
  BY <1>10 DEF Service!vars, Service!clients
<1> QED
  BY <1>1, <1>2, <1>4, <1>5, <1>6, <1>7, <1>8, <1>9, <1>10
  DEF Work, SessionStep, JobStep, Connect, DisconnectRemove, DisconnectFinish, workVars,
      sessionVars, jobVars

\* In a run in which add_key never meets a full node, the lists, the table, the copies
\* of it and the descriptors do for the clients what the service promises.
THEOREM Refinement == Disciplined => (Spec /\ []NeverFull => ImplementsService)
<1> SUFFICES ASSUME Disciplined
             PROVE  Spec /\ []NeverFull => ImplementsService
  OBVIOUS
<1>1. Init => Service!Init
  <2> SUFFICES ASSUME Init
               PROVE  Service!Init
    OBVIOUS
  <2>1. writing = FALSE
    BY Zenon DEF Init
  <2> QED
    BY <2>1 DEF Init, Service!Init
<1>2. IInv /\ [Next]_vars => [Service!Next]_(Service!vars)
  BY StepWorks, StepSimulates
<1> QED
  BY <1>1, <1>2, Invariance, PTL DEF Spec, ImplementsService, Service!Spec

\* For a hash function that keeps the keys apart, every run does.
THEOREM ServiceTheorem == Disciplined /\ BucketsApart => (Spec => ImplementsService)
<1> SUFFICES ASSUME Disciplined, BucketsApart
             PROVE  Spec => ImplementsService
  OBVIOUS
<1> QED
  BY RoomTheorem, Refinement, PTL
=============================================================================
