---------------------------- MODULE NotifyService ----------------------------
(***************************************************************************)
(* What subscribers are promised, without key lists, a hash table, pipes   *)
(* and their descriptors: a change of a key is sent to every client that   *)
(* is subscribed to it before the next key is changed, and a batch is over *)
(* only when everybody was sent everything.  A client is subscribed to at  *)
(* most MAX_NUMBER_SUB keys, each of which existed when it asked.          *)
(***************************************************************************)
EXTENDS Integers, Sequences, FiniteSets

CONSTANTS
  Clients,
  MAX_NUMBER_SUB,
  Keys,
  Missing,  \* the key does not exist
  NoKey,    \* no request
  Batches   \* the batches of changes

VARIABLES
  asked,    \* the key that each client asked for and that existed then
  subs,     \* the keys that each client is subscribed to
  store,
  open,     \* a batch of changes is under way
  rest,     \* what is left of it
  owed      \* the keys of whose change each client is still to be told

clients == <<asked, subs, owed>>
vars == <<clients, store, open, rest>>

Init ==
  /\ asked = [c \in Clients |-> NoKey]
  /\ subs = [c \in Clients |-> {}]
  /\ store = [k \in Keys |-> Missing]
  /\ open = FALSE /\ rest = <<>>
  /\ owed = [c \in Clients |-> {}]

Told == \A c \in Clients : owed[c] = {}

\* A client asks for a key: no batch is under way, and the key exists.
Ask(c, k) ==
  /\ ~open /\ store[k] # Missing /\ asked[c] = NoKey
  /\ asked' = [asked EXCEPT ![c] = k]
  /\ UNCHANGED <<subs, owed, store, open, rest>>

\* It is subscribed or refused, perhaps in the middle of a batch: it hears of the
\* changes that come after.
Answer(c) ==
  /\ asked[c] # NoKey
  /\ asked' = [asked EXCEPT ![c] = NoKey]
  /\ \/ /\ asked[c] \notin subs[c] /\ Cardinality(subs[c]) < MAX_NUMBER_SUB
        /\ subs' = [subs EXCEPT ![c] = @ \cup {asked[c]}]
     \/ UNCHANGED subs
  /\ UNCHANGED <<owed, store, open, rest>>

Unsubscribe(c, k) ==
  /\ asked[c] = NoKey /\ k \in subs[c]
  /\ subs' = [subs EXCEPT ![c] = @ \ {k}]
  /\ owed' = [owed EXCEPT ![c] = @ \ {k}]
  /\ UNCHANGED <<asked, store, open, rest>>

Leave(c) ==
  /\ asked[c] = NoKey
  /\ subs' = [subs EXCEPT ![c] = {}]
  /\ owed' = [owed EXCEPT ![c] = {}]
  /\ UNCHANGED <<asked, store, open, rest>>

Begin(batch) ==
  /\ ~open
  /\ open' = TRUE /\ rest' = batch
  /\ UNCHANGED <<clients, store>>

\* The next pair of the batch, when everybody was told of the one before.  A pair
\* that gives a key the value it has is no change; deleting always is.
Change ==
  /\ open /\ rest # <<>> /\ Told
  /\ rest' = Tail(rest)
  /\ LET k == Head(rest)[1]
         v == Head(rest)[2]
     IN IF v # Missing /\ store[k] = v
        THEN UNCHANGED <<store, owed>>
        ELSE /\ store' = [store EXCEPT ![k] = v]
             /\ owed' = [c \in Clients |-> {k} \cap subs[c]]
  /\ UNCHANGED <<asked, subs, open>>

\* One client is told.
Notify(c) ==
  /\ owed[c] # {}
  /\ owed' = [owed EXCEPT ![c] = {}]
  /\ UNCHANGED <<asked, subs, store, open, rest>>

End ==
  /\ open /\ rest = <<>> /\ Told
  /\ open' = FALSE
  /\ UNCHANGED <<clients, store, rest>>

Next ==
  \/ \E c \in Clients :
       \/ \E k \in Keys : Ask(c, k) \/ Unsubscribe(c, k)
       \/ Answer(c) \/ Leave(c) \/ Notify(c)
  \/ \E batch \in Batches : Begin(batch)
  \/ Change \/ End

Spec == Init /\ [][Next]_vars
=============================================================================
