------------------------------- MODULE MCBroker -------------------------------
(* Instances of Broker for TLC. *)
EXTENDS Broker, TLC

CONSTANTS k1, k2, v1

\* chash gives every key a node of its own, or all of them the same one.
Apart    == [k \in Keys |-> k]
Together == [k \in Keys |-> "node"]

\* A WRITE of both keys and a DELETE of one: together they create, rewrite,
\* delete and delete again.
MixedBatches == {<<<<k1, v1>>, <<k2, v1>>>>, <<<<k1, Missing>>>>}
\* WRITEs that create every key, and nothing else.
Creation     == {<<<<k1, v1>>, <<k2, v1>>>>}
=============================================================================
