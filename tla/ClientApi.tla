------------------------------ MODULE ClientApi ------------------------------
(***************************************************************************)
(* A client program (client/api.c, client/main.c): its main thread, its    *)
(* kvs_notifications thread, and at the other end of three pipes first the *)
(* host of the server (handle_fifo in main.c), which opens them, and then  *)
(* the session thread that serves the client (client.c).  The sections of api.c between  *)
(* lock and unlock of disconnect_mutex are single steps: they block        *)
(* nowhere, except pthread_cond_wait, which releases the mutex.  The client *)
(* installs no signal handler, so its reads are never interrupted.         *)
(***************************************************************************)
EXTENDS Naturals, FiniteSets

CONSTANTS
  MaxPending,      \* bound on the notifications that wait in the pipe
  SpuriousWakeups  \* pthread_cond_wait may return without a signal

ASSUME PendingAssumption == MaxPending \in Nat
ASSUME WakeupAssumption  == SpuriousWakeups \in BOOLEAN

VARIABLES
  pc,              \* main thread: the call it is in
  op,              \* the operation it asks the server for
  npc,             \* kvs_notifications thread
  disconnect, thread_finished,
  asleep,          \* main sleeps in pthread_cond_wait on disconnect_cond
  ends,            \* "open", or "closed" once the client closed its pipe ends
  request, reply,  \* the message in the request and in the response pipe
  pending,         \* notifications in the notification pipe
  spc,             \* the host, and from "top" the session thread
  answer,          \* it answers a DISCONNECT before it closes the response pipe
  fds,             \* the pipes the server has open: fds[0], fds[1], fds[2]
  force_disconnect,
  subscribed       \* the session has a subscription

mainVars    == <<pc, op, asleep, ends>>
sharedVars  == <<disconnect, thread_finished>>
notifVars   == <<npc, pending>>
pipeVars    == <<request, reply>>
sessionVars == <<spc, answer, fds, force_disconnect, subscribed>>
vars        == <<mainVars, sharedVars, notifVars, pipeVars, sessionVars>>

Operations == {"subscribe", "unsubscribe"}
Nothing    == "nothing"
Messages   == Operations \cup {"connect", "disconnect", Nothing}
Pipes      == {"request", "response", "notification"}

\* The client has made its pipes, nobody has opened them.  The notification thread
\* starts once it is connected.
Init ==
  /\ pc = "register" /\ op = "connect"
  /\ npc = "none"
  /\ disconnect = FALSE /\ thread_finished = FALSE /\ asleep = FALSE
  /\ ends = "open"
  /\ request = Nothing /\ reply = Nothing /\ pending = 0
  /\ spc = "host" /\ answer = FALSE
  /\ fds = {}
  /\ force_disconnect = FALSE /\ subscribed = FALSE

\* The process runs: main has not returned and SIGPIPE has not killed it.
Running == pc \notin {"exit", "killed"}

-----------------------------------------------------------------------------
(* The handshake: kvs_connect and handle_fifo.                             *)

\* The registration is written to the server's FIFO, in one write.
Register ==
  /\ pc = "register"
  /\ pc' = "open"
  /\ UNCHANGED <<op, asleep, ends, sharedVars, notifVars, pipeVars, sessionVars>>

\* The host reads it.
TakeRegistration ==
  /\ spc = "host" /\ pc = "open"
  /\ spc' = "open"
  /\ UNCHANGED <<mainVars, sharedVars, notifVars, pipeVars, answer, fds, force_disconnect,
                 subscribed>>

ClientOrder == <<"response", "request", "notification">>

\* Mutant: the host opens the pipes in the order of the registration message.
HostOrder_AsSent == <<"request", "response", "notification">>

HostOrder == <<"response", "request", "notification">>

\* An open of one end of a FIFO blocks until the other end is opened: each side
\* goes on to its next pipe when both are at the same one.
OpenPipe ==
  /\ pc = "open" /\ spc = "open"
  /\ LET n == Cardinality(fds) + 1
     IN /\ ClientOrder[n] = HostOrder[n]
        /\ fds' = fds \cup {ClientOrder[n]}
        /\ IF n < 3 THEN UNCHANGED <<pc, spc>> ELSE pc' = "connect" /\ spc' = "activate"
  /\ UNCHANGED <<op, asleep, ends, sharedVars, notifVars, pipeVars, answer, force_disconnect,
                 subscribed>>

\* activate_client, until a session thread has taken the client: see SessionPool.
Activate ==
  /\ spc = "activate"
  /\ spc' = "top"
  /\ UNCHANGED <<mainVars, sharedVars, notifVars, pipeVars, answer, fds, force_disconnect,
                 subscribed>>

-----------------------------------------------------------------------------
(* The main thread.                                                        *)

\* read_all on the response pipe: the message, or 0 bytes at its end.
GetsReply == reply # Nothing /\ reply' = Nothing
AtEnd     == reply = Nothing /\ "response" \notin fds /\ UNCHANGED reply

\* write_all on the request pipe.  Nothing ignores SIGPIPE: without a reader the
\* write kills the process, the EPIPE branch is not reached.
Send(message, next) ==
  IF "request" \in fds
  THEN request' = message /\ pc' = next
  ELSE pc' = "killed" /\ UNCHANGED request

\* The end of kvs_connect: with the server's reply main starts the thread; at
\* the end of the pipe the zeroed reply is not OK and the program ends.
Connected ==
  /\ pc = "connect"
  /\ \/ GetsReply /\ pc' = "idle" /\ npc' = "check"
     \/ AtEnd /\ pc' = "exit" /\ UNCHANGED npc
  /\ UNCHANGED <<op, asleep, ends, sharedVars, pending, request, sessionVars>>

\* kvs_subscribe, kvs_unsubscribe: result 2 when the session is known to be over,
\* which makes main join the thread.
Request(o) ==
  /\ pc = "idle"
  /\ IF disconnect THEN pc' = "join" /\ UNCHANGED op ELSE pc' = "send" /\ op' = o
  /\ UNCHANGED <<asleep, ends, sharedVars, notifVars, pipeVars, sessionVars>>

SendRequest ==
  /\ pc = "send"
  /\ Send(op, "await")
  /\ UNCHANGED <<op, asleep, ends, sharedVars, notifVars, reply, sessionVars>>

\* At the end of the response pipe disconnect is set and kvs_disconnect called,
\* which then has nothing to do; main goes on with its next command.
Reply ==
  /\ pc = "await"
  /\ \/ GetsReply /\ UNCHANGED disconnect
     \/ AtEnd /\ disconnect' = TRUE
  /\ pc' = "idle"
  /\ UNCHANGED <<op, asleep, ends, thread_finished, notifVars, request, sessionVars>>

\* kvs_disconnect, on DISCONNECT or at the end of the commands.
Disconnect ==
  /\ pc = "idle"
  /\ IF disconnect
     THEN pc' = "join" /\ UNCHANGED <<op, disconnect, asleep>>
     ELSE /\ disconnect' = TRUE
          /\ op' = "disconnect"
          /\ IF thread_finished
             THEN pc' = "bye" /\ UNCHANGED asleep
             ELSE pc' = "wait" /\ asleep' = TRUE
  /\ UNCHANGED <<ends, thread_finished, notifVars, pipeVars, sessionVars>>

\* POSIX lets pthread_cond_wait return without a signal.
SpuriousWakeup ==
  /\ SpuriousWakeups
  /\ pc = "wait" /\ asleep
  /\ asleep' = FALSE
  /\ UNCHANGED <<pc, op, ends, sharedVars, notifVars, pipeVars, sessionVars>>

\* Mutant: an if where the code has a while.
Recheck_If ==
  /\ pc = "wait" /\ ~asleep
  /\ pc' = "bye"
  /\ UNCHANGED <<op, asleep, ends, sharedVars, notifVars, pipeVars, sessionVars>>

\* The condition of the while is read again.
Recheck ==
  /\ pc = "wait" /\ ~asleep
  /\ IF thread_finished
     THEN pc' = "bye" /\ UNCHANGED asleep
     ELSE asleep' = TRUE /\ UNCHANGED pc
  /\ UNCHANGED <<op, ends, sharedVars, notifVars, pipeVars, sessionVars>>

SendDisconnect ==
  /\ pc = "bye"
  /\ Send("disconnect", "awaitBye")
  /\ UNCHANGED <<op, asleep, ends, sharedVars, notifVars, reply, sessionVars>>

\* With the reply, or at the end of the pipe.
DisconnectReply ==
  /\ pc = "awaitBye"
  /\ GetsReply \/ AtEnd
  /\ pc' = "close"
  /\ UNCHANGED <<op, asleep, ends, sharedVars, notifVars, request, sessionVars>>

ClosePipes ==
  /\ pc = "close"
  /\ ends' = "closed"
  /\ pc' = "join"
  /\ UNCHANGED <<op, asleep, sharedVars, notifVars, pipeVars, sessionVars>>

\* pthread_join, then main returns.
Join ==
  /\ pc = "join" /\ npc = "done"
  /\ pc' = "exit"
  /\ UNCHANGED <<op, asleep, ends, sharedVars, notifVars, pipeVars, sessionVars>>

-----------------------------------------------------------------------------
(* The kvs_notifications thread.                                           *)

\* Mutant: the signal is forgotten.
Finish_NoSignal ==
  /\ thread_finished' = TRUE
  /\ npc' = "done"
  /\ UNCHANGED asleep

\* thread_finished is set and disconnect_cond signalled, with the mutex held.
Finish ==
  /\ thread_finished' = TRUE
  /\ asleep' = FALSE
  /\ npc' = "done"

NotifCheck ==
  /\ Running /\ npc = "check"
  /\ IF disconnect
     THEN Finish
     ELSE npc' = "read" /\ UNCHANGED <<thread_finished, asleep>>
  /\ UNCHANGED <<pc, op, ends, disconnect, pending, pipeVars, sessionVars>>

\* Mutant: the end of the pipe is taken for a notification.
NotifRead_NoEndTest ==
  /\ Running /\ npc = "read"
  /\ pending > 0 \/ "notification" \notin fds
  /\ pending' = pending - 1
  /\ npc' = "check"
  /\ UNCHANGED <<mainVars, sharedVars, pipeVars, sessionVars>>

\* A notification is read and printed.
NotifRead ==
  /\ Running /\ npc = "read" /\ pending > 0
  /\ pending' = pending - 1
  /\ npc' = "check"
  /\ UNCHANGED <<mainVars, sharedVars, pipeVars, sessionVars>>

\* Mutant: the end of the pipe is treated like a failed read, which is retried.
NotifEnd_Ignored ==
  /\ Running /\ npc = "read" /\ pending = 0 /\ "notification" \notin fds
  /\ npc' = "check"
  /\ UNCHANGED <<mainVars, sharedVars, pending, pipeVars, sessionVars>>

\* Mutant: disconnect is set, but the thread goes on reading.
NotifEnd_Continues ==
  /\ Running /\ npc = "read" /\ pending = 0 /\ "notification" \notin fds
  /\ disconnect' = TRUE
  /\ UNCHANGED <<mainVars, thread_finished, notifVars, pipeVars, sessionVars>>

\* The server closed the notification pipe.
NotifEnd ==
  /\ Running /\ npc = "read" /\ pending = 0 /\ "notification" \notin fds
  /\ disconnect' = TRUE
  /\ Finish
  /\ UNCHANGED <<pc, op, ends, pending, pipeVars, sessionVars>>

-----------------------------------------------------------------------------
(* The session thread of the server, and what happens to it.  The client   *)
(* does not die of itself here; SessionPool has the sessions of clients     *)
(* that crash.                                                             *)

\* SIGUSR1: disconnect_all_clients marks the session, once there is one.
ForceDisconnect ==
  /\ spc \notin {"host", "open", "activate"} /\ ~force_disconnect
  /\ force_disconnect' = TRUE
  /\ UNCHANGED <<mainVars, sharedVars, notifVars, pipeVars, spc, answer, fds, subscribed>>

\* A job writes or deletes a key the session is subscribed to.
Notify ==
  /\ subscribed /\ "notification" \in fds /\ pending < MaxPending
  /\ pending' = pending + 1
  /\ UNCHANGED <<mainVars, sharedVars, npc, pipeVars, sessionVars>>

\* A marked session ends before its client is greeted.
SessionTop ==
  /\ spc = "top"
  /\ IF force_disconnect
     THEN spc' = "close" /\ UNCHANGED reply
     ELSE spc' = "check" /\ reply' = "connect"
  /\ UNCHANGED <<mainVars, sharedVars, notifVars, request, answer, fds, force_disconnect,
                 subscribed>>

SessionCheck ==
  /\ spc = "check"
  /\ spc' = IF force_disconnect THEN "close" ELSE "read"
  /\ UNCHANGED <<mainVars, sharedVars, notifVars, pipeVars, answer, fds, force_disconnect,
                 subscribed>>

\* Mutant: a request that fails is not answered.
SessionServe_Silent ==
  /\ spc = "read" /\ request # Nothing
  /\ request' = Nothing
  /\ IF request = "disconnect"
     THEN spc' = "close" /\ answer' = TRUE /\ UNCHANGED reply
     ELSE spc' = "check" /\ reply' \in {request, Nothing} /\ UNCHANGED answer
  /\ UNCHANGED <<mainVars, sharedVars, notifVars, fds, force_disconnect, subscribed>>

\* A request is read and answered; only DISCONNECT leads to the end of the
\* session, with an answer.  A failed request is answered too.
SessionServe ==
  /\ spc = "read" /\ request # Nothing
  /\ request' = Nothing
  /\ IF request = "disconnect"
     THEN spc' = "close" /\ answer' = TRUE /\ UNCHANGED <<reply, subscribed>>
     ELSE /\ spc' = "check" /\ reply' = request
          /\ subscribed' \in (IF request = "subscribe" THEN {subscribed, TRUE}
                                                        ELSE {subscribed, FALSE})
          /\ UNCHANGED answer
  /\ UNCHANGED <<mainVars, sharedVars, notifVars, fds, force_disconnect>>

\* disconnect_client closes the pipes in the order 0, 2, 1 and sends its answer
\* before the last.  What the client wrote and nobody read is gone.
SessionCloseRequest ==
  /\ spc = "close" /\ "request" \in fds
  /\ fds' = fds \ {"request"}
  /\ request' = Nothing
  /\ UNCHANGED <<mainVars, sharedVars, notifVars, reply, spc, answer, force_disconnect,
                 subscribed>>

SessionCloseNotification ==
  /\ spc = "close" /\ "request" \notin fds /\ "notification" \in fds
  /\ fds' = fds \ {"notification"}
  /\ UNCHANGED <<mainVars, sharedVars, notifVars, pipeVars, spc, answer, force_disconnect,
                 subscribed>>

\* Mutant: every client is answered, also one that did not ask to disconnect.
SessionCloseResponse_Always ==
  /\ spc = "close" /\ fds = {"response"}
  /\ reply' = "disconnect"
  /\ fds' = {}
  /\ spc' = "over" /\ subscribed' = FALSE
  /\ UNCHANGED <<mainVars, sharedVars, notifVars, request, answer, force_disconnect>>

SessionCloseResponse ==
  /\ spc = "close" /\ fds = {"response"}
  /\ reply' = IF answer THEN "disconnect" ELSE reply
  /\ fds' = {}
  /\ spc' = "over" /\ subscribed' = FALSE
  /\ UNCHANGED <<mainVars, sharedVars, notifVars, request, answer, force_disconnect>>

-----------------------------------------------------------------------------

\* The calls main makes once it has a command, and the threads.
MainStep  == Register \/ OpenPipe \/ Connected \/ SendRequest \/ Reply \/ Recheck \/ SendDisconnect
             \/ DisconnectReply \/ ClosePipes \/ Join
NotifStep == NotifCheck \/ NotifRead \/ NotifEnd
HostStep    == TakeRegistration \/ Activate
SessionStep == SessionTop \/ SessionCheck \/ SessionServe \/ SessionCloseRequest
               \/ SessionCloseNotification \/ SessionCloseResponse

Next == \/ MainStep \/ NotifStep \/ HostStep \/ SessionStep
        \/ \E o \in Operations : Request(o)
        \/ Disconnect \/ SpuriousWakeup \/ ForceDisconnect \/ Notify

Spec == Init /\ [][Next]_vars

\* The threads keep running, and the host finds a free session.  Commands, notifications, SIGUSR1 and spurious
\* wakeups need not come.
FairSpec == Spec /\ WF_vars(MainStep) /\ WF_vars(NotifStep)
                 /\ WF_vars(HostStep) /\ WF_vars(SessionStep)

-----------------------------------------------------------------------------
(* Correctness.                                                            *)

\* Every variable keeps its type.  kvs_notifications never takes the end of the
\* notification pipe for a notification.
TypeOK ==
  /\ pc \in {"register", "open", "connect", "idle", "send", "await", "wait", "bye", "awaitBye", "close",
             "join", "exit", "killed"}
  /\ op \in Messages
  /\ npc \in {"none", "check", "read", "done"}
  /\ disconnect \in BOOLEAN /\ thread_finished \in BOOLEAN /\ asleep \in BOOLEAN
  /\ ends \in {"open", "closed"}
  /\ request \in Messages /\ reply \in Messages
  /\ pending \in 0 .. MaxPending
  /\ spc \in {"host", "open", "activate", "top", "check", "read", "close", "over"}
  /\ answer \in BOOLEAN
  /\ fds \in SUBSET Pipes
  /\ force_disconnect \in BOOLEAN /\ subscribed \in BOOLEAN

\* kvs_disconnect closes the pipes, or sends DISCONNECT, only after the
\* notification thread has left the pipe it reads.
ClosedAfterThread == pc \in {"bye", "awaitBye", "close"} \/ ends = "closed" => npc = "done"

\* The thread signals after it sets thread_finished, main checks before it
\* sleeps: main never sleeps on a condition that already holds.
NoLostSignal == asleep => ~thread_finished

\* read_all on the response pipe takes no look at the opcode: what it reads must
\* answer the request that main made, also when the server ends the session.
RepliesMatch == reply # Nothing => pc \in {"connect", "await", "awaitBye"} /\ reply = op

\* Main never waits for what cannot come any more.  While it reads the response pipe
\* its request or the reply is on its way, or the session is at its end and closes
\* the pipe; while it joins a thread that runs, the pipe the thread reads is closed.
WaitsAnswered ==
  /\ pc = "connect" => spc \in {"activate", "top", "close", "over"} \/ reply # Nothing
  /\ pc \in {"await", "awaitBye"} =>
       request # Nothing \/ reply # Nothing \/ spc \in {"close", "over"}
  /\ pc = "join" /\ npc # "done" => "notification" \notin fds

\* Which pipes the server has open follows from where the host and the session
\* thread are: they are opened in the order 1, 0, 2 and closed in the order 0, 2, 1.
PipesOrdered ==
  /\ spc = "host" => fds = {}
  /\ spc = "open" => fds \in {{}, {"response"}, {"response", "request"}}
  /\ spc \in {"activate", "top", "check", "read"} => fds = Pipes
  /\ spc = "close" => fds \in {Pipes, {"response", "notification"}, {"response"}}
  /\ spc = "over" => fds = {}

\* How far main and the server's side may be ahead of each other in kvs_connect.
HandshakeInStep ==
  /\ pc = "register" => spc = "host"
  /\ pc = "open" => spc \in {"host", "open"}
  /\ spc = "host" => pc \in {"register", "open"}
  /\ spc = "open" => pc = "open"
  /\ spc \in {"activate", "top"} => pc = "connect" /\ reply = Nothing

\* The life of the notification thread, and when main sleeps for it.
ThreadLife ==
  /\ npc = "none" => pc \in {"register", "open", "connect", "exit"}
  /\ pc \in {"register", "open", "connect"} => npc = "none"
  /\ thread_finished <=> npc = "done"
  /\ asleep => pc = "wait"

\* At most one message is on its way, that of the operation that main waits for,
\* and only a session that was asked to end answers as it ends.
OneConversation ==
  /\ pc \in {"register", "open", "connect"} => op = "connect"
  /\ pc \in {"send", "await"} => op \in Operations
  /\ pc \in {"wait", "bye", "awaitBye"} => op = "disconnect"
  /\ request # Nothing =>
       pc \in {"await", "awaitBye"} /\ request = op /\ reply = Nothing /\ "request" \in fds
  /\ answer => spc \in {"close", "over"}
  /\ answer /\ spc = "close" => pc = "awaitBye" /\ request = Nothing /\ reply = Nothing

\* What disconnect means: main is in kvs_disconnect, or the session is over.
DisconnectMeaning ==
  /\ pc \in {"register", "open", "connect"} => ~disconnect
  /\ pc \in {"wait", "bye", "awaitBye", "close", "join"} => disconnect
  /\ disconnect /\ pc # "wait" => npc = "done" \/ "notification" \notin fds

\* The inductive invariant (ClientApiProofs).
IInv == /\ TypeOK /\ PipesOrdered /\ HandshakeInStep /\ ThreadLife /\ OneConversation
        /\ DisconnectMeaning
        /\ ClosedAfterThread /\ NoLostSignal /\ RepliesMatch /\ WaitsAnswered

\* kvs_connect ends: neither side waits for ever in an open, whatever happens to the
\* session afterwards.
ConnectEnds == pc = "register" ~> pc \in {"idle", "exit"}

\* A call of kvs_subscribe or kvs_unsubscribe ends: with the reply, with the news
\* that the session is over, or with the process.
RequestEnds == pc = "send" ~> pc \in {"idle", "killed"}

\* pthread_join returns however main learned that the session is over.
JoinEnds == pc = "join" ~> pc = "exit"

\* When the server ends the session the client comes to know it, although it
\* may never send another request.
EndIsNoticed == spc = "over" ~> disconnect \/ ~Running

\* "Disconnects from an KVS server" (api.h:15).
DisconnectEnds == pc = "wait" ~> pc = "exit"
=============================================================================
