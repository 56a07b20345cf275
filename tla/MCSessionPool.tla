---------------------------- MODULE MCSessionPool ----------------------------
(* Instances of SessionPool for TLC. *)
EXTENDS SessionPool, TLC

Symmetric == Permutations(Clients \ Crashers)
=============================================================================
