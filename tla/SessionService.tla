---------------------------- MODULE SessionService ----------------------------
(***************************************************************************)
(* What the session pool promises, with no threads and no locks: clients   *)
(* are admitted in the order in which they registered (or refused, when    *)
(* the host fails to read or to open), at most MAX_SESSION_COUNT of them   *)
(* are in session together, and a client is never queued or in session     *)
(* twice.                                                                  *)
(***************************************************************************)
EXTENDS Integers, Sequences, FiniteSets

CONSTANTS
  MAX_SESSION_COUNT, Clients,
  Failures \* whether a registration may be refused

VARIABLES
  queue,     \* registered clients that are not admitted yet, oldest first
  inSession  \* the clients in session

Init == queue = <<>> /\ inSession = {}

Register(c) ==
  /\ c \notin inSession
  /\ \A k \in DOMAIN queue : queue[k] # c
  /\ queue' = Append(queue, c)
  /\ UNCHANGED inSession

Admit ==
  /\ queue # <<>>
  /\ Cardinality(inSession) < MAX_SESSION_COUNT
  /\ Head(queue) \notin inSession
  /\ inSession' = inSession \cup {Head(queue)}
  /\ queue' = Tail(queue)

Refuse ==
  /\ Failures /\ queue # <<>>
  /\ queue' = Tail(queue)
  /\ UNCHANGED inSession

Leave(c) ==
  /\ c \in inSession
  /\ inSession' = inSession \ {c}
  /\ UNCHANGED queue

Next == Admit \/ Refuse \/ \E c \in Clients : Register(c) \/ Leave(c)

Spec == Init /\ [][Next]_<<queue, inSession>>
=============================================================================
