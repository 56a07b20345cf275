----------------------------- MODULE MCClientApi -----------------------------
(* Instances of ClientApi for TLC. *)
EXTENDS ClientApi
=============================================================================
