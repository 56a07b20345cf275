------------------------------ MODULE KvsTable ------------------------------
(***************************************************************************)
(* The hash table of the store (kvs.c): TABLE_SIZE chains of key nodes.  A *)
(* chain is the sequence of its nodes from the head of the list, a node is *)
(* its key and its value.                                                  *)
(***************************************************************************)
EXTENDS Naturals, Sequences, SequencesExt

CONSTANTS
  TABLE_SIZE,
  Keys, Values,
  Missing,     \* read_pair returns NULL
  Hash         \* hash: the index of the chain of each key

Buckets == 0 .. TABLE_SIZE - 1

\* hash gives -1 for a key that starts with neither a letter nor a digit, and the
\* word in front of the table is then taken for a chain: undefined behaviour,
\* which the keys of the model do not have.  'a' and '0' share a chain.
ASSUME TableAssumption == TABLE_SIZE \in Nat \ {0}
ASSUME HashAssumption  == Hash \in [Keys -> Buckets]
ASSUME ValueAssumption == Missing \notin Values

Node == Keys \X Values
Table == [Buckets -> Seq(Node)]

\* create_hash_table.
EmptyTable == [b \in Buckets |-> <<>>]

\* Where the search from the head of a chain meets k; 0 at its end.
Place(chain, k) == SelectInSeq(chain, LAMBDA node : node[1] = k)

read_pair(table, k) ==
  LET chain == table[Hash[k]]
  IN IF Place(chain, k) = 0 THEN Missing ELSE chain[Place(chain, k)][2]

\* Mutant: a new node is linked without a search for the key.
write_pair_NoSearch(table, k, v) ==
  [table EXCEPT ![Hash[k]] = <<<<k, v>>>> \o @]

\* Overwrite the value of the key's node, or link a new node at the head.
write_pair(table, k, v) ==
  [table EXCEPT ![Hash[k]] =
     IF Place(@, k) = 0 THEN <<<<k, v>>>> \o @ ELSE [@ EXCEPT ![Place(@, k)] = <<k, v>>]]

\* Mutant: the value is freed and the node stays in its chain.
delete_pair_KeepsNode(table, k) ==
  [table EXCEPT ![Hash[k]] = IF Place(@, k) = 0 THEN @ ELSE [@ EXCEPT ![Place(@, k)][2] = Missing]]

\* Take the key's node out of its chain.
delete_pair(table, k) ==
  [table EXCEPT ![Hash[k]] = IF Place(@, k) = 0 THEN @ ELSE RemoveAt(@, Place(@, k))]

\* What the loops of kvs_show and of a backup's child write: every chain in turn.
Listing(table) == FlattenSeq([b \in 1 .. TABLE_SIZE |-> table[b - 1]])

\* A listing, or a chain, as a map.
AsMap(listing) ==
  [k \in Keys |-> IF Place(listing, k) = 0 THEN Missing ELSE listing[Place(listing, k)][2]]

\* The table as a map.
Contents(table) == [k \in Keys |-> read_pair(table, k)]

-----------------------------------------------------------------------------
(* What every operation relies on and keeps.                               *)

\* A chain holds each of its keys once, and belongs to the hash of all of them.
Sound(table) ==
  \A b \in Buckets : /\ \A i \in DOMAIN table[b] : Hash[table[b][i][1]] = b
                     /\ \A i, j \in DOMAIN table[b] : table[b][i][1] = table[b][j][1] => i = j
=============================================================================
