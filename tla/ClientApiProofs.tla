--------------------------- MODULE ClientApiProofs ---------------------------
(***************************************************************************)
(* Proofs about ClientApi, for any bound on the notifications that wait    *)
(* and with or without spurious wakeups.  Each conjunct of IInv has a      *)
(* lemma that shows that a step keeps it; Inductive puts them together.    *)
(***************************************************************************)
EXTENDS ClientApi, FiniteSetTheorems, TLAPS

\* handle_fifo and kvs_connect: how many of the pipes are open while the two
\* sides open them one by one.
LEMMA OpenCounts ==
  /\ Cardinality({}) = 0
  /\ Cardinality({"response"}) = 1
  /\ Cardinality({"response", "request"}) = 2
<1>1. Cardinality({}) = 0 /\ IsFiniteSet({})
  BY FS_EmptySet
<1>2. Cardinality({"response"}) = 1 /\ IsFiniteSet({"response"})
  BY FS_Singleton
<1>3. Cardinality({"response"} \cup {"request"}) = 2
  BY <1>2, FS_AddElement
<1> QED
  BY <1>1, <1>2, <1>3

\* One step of the opening: both sides are at the same pipe, and after the third
\* both go on.
LEMMA OpenPipeEffect ==
  ASSUME PipesOrdered, OpenPipe
  PROVE  \/ fds = {} /\ fds' = {"response"} /\ UNCHANGED <<pc, spc>>
         \/ fds = {"response"} /\ fds' = {"response", "request"} /\ UNCHANGED <<pc, spc>>
         \/ /\ fds = {"response", "request"} /\ fds' = Pipes
            /\ pc' = "connect" /\ spc' = "activate"
<1>1. CASE fds = {}
  BY <1>1, OpenCounts DEF OpenPipe, ClientOrder
<1>2. CASE fds = {"response"}
  BY <1>2, OpenCounts DEF OpenPipe, ClientOrder
<1>3. CASE fds = {"response", "request"}
  BY <1>3, OpenCounts DEF OpenPipe, ClientOrder, Pipes
<1> QED
  BY <1>1, <1>2, <1>3 DEF PipesOrdered, OpenPipe

-----------------------------------------------------------------------------

\* The types of all variables, step by step.
LEMMA TypeStep ==
  ASSUME IInv, Next
  PROVE  TypeOK'
<1> USE DEF TypeOK, mainVars, sharedVars, notifVars, pipeVars, sessionVars
<1>0. TypeOK
  BY DEF IInv
<1>1. CASE Register
  BY <1>0, <1>1 DEF Register
<1>2. CASE TakeRegistration
  BY <1>0, <1>2 DEF TakeRegistration
<1>3. CASE Activate
  BY <1>0, <1>3 DEF Activate
<1>4. CASE Connected
  BY <1>0, <1>4 DEF Connected, GetsReply, AtEnd, Messages, Nothing
<1>5. CASE SendRequest
  BY <1>0, <1>5 DEF SendRequest, Send, Messages
<1>6. CASE Reply
  <2>1. disconnect' \in BOOLEAN
    <3>1. disconnect \in BOOLEAN
      BY <1>0, Zenon
    <3> QED
      BY <1>6, <3>1, Zenon DEF Reply
  <2> QED
    BY <1>0, <1>6, <2>1 DEF Reply, GetsReply, AtEnd, Messages, Nothing
<1>7. CASE Disconnect
  <2>1. disconnect' \in BOOLEAN /\ asleep' \in BOOLEAN
    <3>1. disconnect \in BOOLEAN /\ asleep \in BOOLEAN
      BY <1>0, Zenon
    <3> QED
      BY <1>7, <3>1, Zenon DEF Disconnect
  <2> QED
    BY <1>0, <1>7, <2>1 DEF Disconnect, Messages
<1>8. CASE SpuriousWakeup
  <2>1. asleep' = FALSE /\ UNCHANGED <<pc, op, ends, disconnect, thread_finished, npc, request,
                                       reply, pending, fds, spc, answer, force_disconnect, subscribed>>
    BY <1>8, Zenon DEF SpuriousWakeup
  <2>2. asleep' \in BOOLEAN
    BY <2>1, Zenon
  <2> QED
    BY <1>0, <2>1, <2>2
<1>9. CASE Recheck
  <2>1. asleep' \in BOOLEAN
    <3>1. asleep \in BOOLEAN
      BY <1>0, Zenon
    <3> QED
      BY <1>9, <3>1, Zenon DEF Recheck
  <2> QED
    BY <1>0, <1>9, <2>1 DEF Recheck
<1>10. CASE SendDisconnect
  BY <1>0, <1>10 DEF SendDisconnect, Send, Messages
<1>11. CASE DisconnectReply
  BY <1>0, <1>11 DEF DisconnectReply, GetsReply, AtEnd, Messages
<1>12. CASE ClosePipes
  BY <1>0, <1>12 DEF ClosePipes
<1>13. CASE Join
  BY <1>0, <1>13 DEF Join
<1>14. CASE NotifCheck
  <2>1. thread_finished' \in BOOLEAN /\ asleep' \in BOOLEAN
    BY <1>0, <1>14, Zenon DEF NotifCheck, Finish
  <2> QED
    BY <1>0, <1>14, <2>1 DEF NotifCheck, Finish
<1>15. CASE NotifRead
  BY <1>0, <1>15, PendingAssumption DEF NotifRead
<1>16. CASE NotifEnd
  BY <1>0, <1>16, PendingAssumption DEF NotifEnd, Finish
<1>17. CASE ForceDisconnect
  <2>1. force_disconnect' \in BOOLEAN
    BY <1>0, <1>17, Zenon DEF ForceDisconnect
  <2> QED
    BY <1>0, <1>17, <2>1 DEF ForceDisconnect
<1>18. CASE Notify
  BY <1>0, <1>18, PendingAssumption DEF Notify
<1>19. CASE SessionTop
  BY <1>0, <1>19 DEF SessionTop, Messages
<1>20. CASE SessionCheck
  BY <1>0, <1>20 DEF SessionCheck
<1>21. CASE SessionServe
  <2>1. answer' \in BOOLEAN /\ subscribed' \in BOOLEAN
    BY <1>0, <1>21, Zenon DEF SessionServe
  <2>2. request' \in Messages /\ reply' \in Messages /\ spc' \in {"check", "close"}
    BY <1>0, <1>21 DEF SessionServe, Messages, Nothing
  <2>3. UNCHANGED <<pc, op, npc, disconnect, thread_finished, asleep, ends, pending, fds,
                    force_disconnect>>
    BY <1>21 DEF SessionServe
  <2> QED
    BY <1>0, <2>1, <2>2, <2>3
<1>22. CASE SessionCloseRequest
  BY <1>0, <1>22 DEF SessionCloseRequest, Messages
<1>23. CASE SessionCloseNotification
  BY <1>0, <1>23 DEF SessionCloseNotification
<1>24. CASE SessionCloseResponse
  <2>1. subscribed' \in BOOLEAN
    BY <1>0, <1>24, Zenon DEF SessionCloseResponse, Messages, Pipes
  <2> QED
    BY <1>0, <1>24, <2>1 DEF SessionCloseResponse, Messages, Pipes
<1>25. ASSUME NEW o \in Operations, Request(o)
       PROVE  TypeOK'
  BY <1>0, <1>25 DEF Request, Messages
<1>26. CASE OpenPipe
  BY <1>0, <1>26, OpenPipeEffect DEF OpenPipe, Pipes, IInv
<1> QED
  BY <1>1, <1>2, <1>3, <1>4, <1>5, <1>6, <1>7, <1>8, <1>9, <1>10, <1>11, <1>12, <1>13, <1>14, <1>15, <1>16, <1>17, <1>18, <1>19, <1>20, <1>21, <1>22, <1>23, <1>24, <1>25, <1>26
  DEF Next, MainStep, NotifStep, HostStep, SessionStep

\* The host opens the pipes of a client one by one, disconnect_client closes them in
\* another order; no other step opens or closes an end of the server.
LEMMA PipesStep ==
  ASSUME IInv, Next
  PROVE  PipesOrdered'
<1> USE DEF PipesOrdered, mainVars, sharedVars, notifVars, pipeVars, sessionVars
<1>0. TypeOK /\ PipesOrdered /\ HandshakeInStep
  BY DEF IInv
<1>1. CASE TakeRegistration
  BY <1>0, <1>1 DEF TakeRegistration
<1>2. CASE OpenPipe
  BY <1>0, <1>2, OpenPipeEffect DEF OpenPipe
<1>3. CASE Activate
  BY <1>0, <1>3 DEF Activate
<1>4. CASE SessionTop \/ SessionCheck \/ SessionServe
  BY <1>0, <1>4 DEF SessionTop, SessionCheck, SessionServe, Nothing
<1>5. CASE SessionCloseRequest \/ SessionCloseNotification
  BY <1>0, <1>5 DEF SessionCloseRequest, SessionCloseNotification, Pipes
<1>6. CASE SessionCloseResponse
  BY <1>0, <1>6 DEF SessionCloseResponse
<1>7. CASE UNCHANGED <<spc, fds>>
  BY <1>0, <1>7
<1> QED
  BY <1>1, <1>2, <1>3, <1>4, <1>5, <1>6, <1>7
  DEF Next, MainStep, NotifStep, HostStep, SessionStep, Register, Connected, GetsReply,
      AtEnd, Request, SendRequest, Send, Reply, Disconnect, SpuriousWakeup, Recheck,
      SendDisconnect, DisconnectReply, ClosePipes, Join, NotifCheck, Finish, NotifRead,
      NotifEnd, ForceDisconnect, Notify

\* kvs_connect and handle_fifo: main leaves the handshake only with the answer of
\* the session thread.
LEMMA HandshakeStep ==
  ASSUME IInv, Next
  PROVE  HandshakeInStep'
<1> USE DEF HandshakeInStep, mainVars, sharedVars, notifVars, pipeVars, sessionVars
<1>0. TypeOK /\ PipesOrdered /\ HandshakeInStep /\ RepliesMatch
  BY DEF IInv
<1>1. CASE Register \/ TakeRegistration
  BY <1>0, <1>1 DEF Register, TakeRegistration
<1>2. CASE OpenPipe
  BY <1>0, <1>2, OpenPipeEffect DEF OpenPipe, RepliesMatch
<1>3. CASE Activate
  BY <1>0, <1>3 DEF Activate
<1>4. CASE Connected
  BY <1>0, <1>4 DEF Connected, GetsReply, AtEnd, Pipes, PipesOrdered
<1>5. ASSUME NEW o \in Operations, Request(o)
      PROVE  HandshakeInStep'
  BY <1>0, <1>5 DEF Request
<1>6. CASE SendRequest \/ SendDisconnect
  BY <1>0, <1>6 DEF SendRequest, Send, SendDisconnect
<1>7. CASE Reply \/ DisconnectReply
  BY <1>0, <1>7 DEF Reply, GetsReply, AtEnd, DisconnectReply
<1>8. CASE Disconnect \/ Recheck
  BY <1>0, <1>8 DEF Disconnect, Recheck
<1>9. CASE ClosePipes \/ Join
  BY <1>0, <1>9 DEF ClosePipes, Join
<1>10. CASE SessionTop \/ SessionCheck \/ SessionServe
  BY <1>0, <1>10 DEF SessionTop, SessionCheck, SessionServe, Nothing
<1>11. CASE SessionCloseRequest \/ SessionCloseNotification \/ SessionCloseResponse
  BY <1>0, <1>11 DEF SessionCloseRequest, SessionCloseNotification, SessionCloseResponse
<1>12. CASE UNCHANGED <<pc, spc, reply>>
  BY <1>0, <1>12
<1> QED
  BY <1>1, <1>2, <1>3, <1>4, <1>5, <1>6, <1>7, <1>8, <1>9, <1>10, <1>11, <1>12
  DEF Next, MainStep, NotifStep, HostStep, SessionStep, SpuriousWakeup, NotifCheck,
      Finish, NotifRead, NotifEnd, ForceDisconnect, Notify

\* The notification thread is started at the end of kvs_connect and sets
\* thread_finished as it ends; main sleeps in kvs_disconnect only.
LEMMA ThreadLifeStep ==
  ASSUME IInv, Next
  PROVE  ThreadLife'
<1> USE DEF ThreadLife, mainVars, sharedVars, notifVars, pipeVars, sessionVars
<1>0. TypeOK /\ PipesOrdered /\ ThreadLife
  BY DEF IInv
<1>1. CASE Register
  BY <1>0, <1>1 DEF Register
<1>2. CASE OpenPipe
  BY <1>0, <1>2, OpenPipeEffect DEF OpenPipe
<1>3. CASE Connected
  BY <1>0, <1>3 DEF Connected, GetsReply, AtEnd
<1>4. ASSUME NEW o \in Operations, Request(o)
      PROVE  ThreadLife'
  BY <1>0, <1>4 DEF Request
<1>5. CASE SendRequest \/ SendDisconnect
  BY <1>0, <1>5 DEF SendRequest, Send, SendDisconnect
<1>6. CASE Reply \/ DisconnectReply
  BY <1>0, <1>6 DEF Reply, GetsReply, AtEnd, DisconnectReply
<1>7. CASE Disconnect
  BY <1>0, <1>7 DEF Disconnect
<1>8. CASE Recheck \/ SpuriousWakeup
  BY <1>0, <1>8 DEF Recheck, SpuriousWakeup
<1>9. CASE ClosePipes \/ Join
  BY <1>0, <1>9 DEF ClosePipes, Join
<1>10. CASE NotifCheck
  BY <1>0, <1>10 DEF NotifCheck, Finish
<1>11. CASE NotifRead \/ NotifEnd
  BY <1>0, <1>11 DEF NotifRead, NotifEnd, Finish, ThreadLife
<1>12. CASE UNCHANGED <<pc, npc, thread_finished, asleep>>
  BY <1>0, <1>12
<1> QED
  BY <1>1, <1>2, <1>3, <1>4, <1>5, <1>6, <1>7, <1>8, <1>9, <1>10, <1>11, <1>12
  DEF Next, MainStep, NotifStep, HostStep, SessionStep, TakeRegistration, Activate,
      ForceDisconnect, Notify, SessionTop, SessionCheck, SessionServe,
      SessionCloseRequest, SessionCloseNotification, SessionCloseResponse

\* Main sends one request and waits for its answer; the session thread takes it
\* and answers, or throws it away when it closes the request pipe.
LEMMA ConversationStep ==
  ASSUME IInv, Next
  PROVE  OneConversation'
<1> USE DEF OneConversation, mainVars, sharedVars, notifVars, pipeVars, sessionVars
<1>0. TypeOK /\ PipesOrdered /\ HandshakeInStep /\ RepliesMatch /\ OneConversation
  BY DEF IInv
<1>1. CASE Register
  BY <1>0, <1>1 DEF Register
<1>2. CASE TakeRegistration \/ Activate
  BY <1>0, <1>2 DEF TakeRegistration, Activate
<1>3. CASE OpenPipe
  BY <1>0, <1>3, OpenPipeEffect DEF OpenPipe
<1>4. CASE Connected
  BY <1>0, <1>4 DEF Connected, GetsReply, AtEnd
<1>5. ASSUME NEW o \in Operations, Request(o)
      PROVE  OneConversation'
  BY <1>0, <1>5 DEF Request
<1>6. CASE SendRequest
  BY <1>0, <1>6 DEF SendRequest, Send, RepliesMatch, Operations, Nothing
<1>7. CASE SendDisconnect
  BY <1>0, <1>7 DEF SendDisconnect, Send, RepliesMatch
<1>8. CASE Reply
  BY <1>0, <1>8 DEF Reply, GetsReply, AtEnd, TypeOK, PipesOrdered, Pipes
<1>9. CASE DisconnectReply
  BY <1>0, <1>9 DEF DisconnectReply, GetsReply, AtEnd, TypeOK, PipesOrdered, Pipes
<1>10. CASE Disconnect
  BY <1>0, <1>10 DEF Disconnect
<1>11. CASE Recheck
  BY <1>0, <1>11 DEF Recheck
<1>12. CASE ClosePipes \/ Join
  BY <1>0, <1>12 DEF ClosePipes, Join
<1>13. CASE SessionTop
  BY <1>0, <1>13 DEF SessionTop, HandshakeInStep
<1>14. CASE SessionCheck
  BY <1>0, <1>14 DEF SessionCheck
<1>15. CASE SessionServe
  BY <1>0, <1>15 DEF SessionServe, Operations
<1>16. CASE SessionCloseRequest
  BY <1>0, <1>16 DEF SessionCloseRequest
<1>17. CASE SessionCloseNotification
  BY <1>0, <1>17 DEF SessionCloseNotification
<1>18. CASE SessionCloseResponse
  BY <1>0, <1>18 DEF SessionCloseResponse
<1>19. CASE UNCHANGED <<pc, op, request, reply, spc, answer, fds>>
  BY <1>0, <1>19
<1> QED
  BY <1>1, <1>2, <1>3, <1>4, <1>5, <1>6, <1>7, <1>8, <1>9, <1>10, <1>11, <1>12, <1>13,
     <1>14, <1>15, <1>16, <1>17, <1>18, <1>19
  DEF Next, MainStep, NotifStep, HostStep, SessionStep, SpuriousWakeup, NotifCheck,
      Finish, NotifRead, NotifEnd, ForceDisconnect, Notify

\* The session thread answers the request main waits for, also as it ends; a reply
\* that is there keeps main waiting until it is read.
LEMMA RepliesStep ==
  ASSUME IInv, Next
  PROVE  RepliesMatch'
<1> USE DEF RepliesMatch, mainVars, sharedVars, notifVars, pipeVars, sessionVars
<1>0. TypeOK /\ HandshakeInStep /\ OneConversation /\ RepliesMatch
  BY DEF IInv
<1>1. CASE Register
  BY <1>0, <1>1 DEF Register
<1>2. CASE OpenPipe
  BY <1>0, <1>2, OpenPipeEffect DEF OpenPipe
<1>3. CASE Connected
  BY <1>0, <1>3 DEF Connected, GetsReply, AtEnd
<1>4. ASSUME NEW o \in Operations, Request(o)
      PROVE  RepliesMatch'
  BY <1>0, <1>4 DEF Request
<1>5. CASE SendRequest \/ SendDisconnect
  BY <1>0, <1>5 DEF SendRequest, Send, SendDisconnect
<1>6. CASE Reply \/ DisconnectReply
  BY <1>0, <1>6 DEF Reply, GetsReply, AtEnd, DisconnectReply
<1>7. CASE Disconnect
  BY <1>0, <1>7 DEF Disconnect
<1>8. CASE Recheck
  BY <1>0, <1>8 DEF Recheck
<1>9. CASE ClosePipes \/ Join
  BY <1>0, <1>9 DEF ClosePipes, Join
<1>10. CASE SessionTop
  BY <1>0, <1>10 DEF SessionTop, HandshakeInStep, OneConversation
<1>11. CASE SessionServe
  BY <1>0, <1>11 DEF SessionServe, OneConversation
<1>12. CASE SessionCloseResponse
  BY <1>0, <1>12 DEF SessionCloseResponse, OneConversation
<1>13. CASE UNCHANGED <<pc, op, reply>>
  BY <1>0, <1>13
<1> QED
  BY <1>1, <1>2, <1>3, <1>4, <1>5, <1>6, <1>7, <1>8, <1>9, <1>10, <1>11, <1>12, <1>13
  DEF Next, MainStep, NotifStep, HostStep, SessionStep, TakeRegistration, Activate,
      SpuriousWakeup, NotifCheck, Finish, NotifRead, NotifEnd, ForceDisconnect, Notify,
      SessionCheck, SessionCloseRequest, SessionCloseNotification

\* kvs_disconnect goes on only after it has seen thread_finished, and the thread
\* does nothing after that.
LEMMA ClosedStep ==
  ASSUME IInv, Next
  PROVE  ClosedAfterThread'
<1> USE DEF ClosedAfterThread, mainVars, sharedVars, notifVars, pipeVars, sessionVars
<1>0. TypeOK /\ ThreadLife /\ ClosedAfterThread
  BY DEF IInv
<1>1. CASE Register
  BY <1>0, <1>1 DEF Register
<1>2. CASE OpenPipe
  BY <1>0, <1>2, OpenPipeEffect DEF OpenPipe
<1>3. CASE Connected
  BY <1>0, <1>3 DEF Connected, GetsReply, AtEnd, ThreadLife
<1>4. ASSUME NEW o \in Operations, Request(o)
      PROVE  ClosedAfterThread'
  BY <1>0, <1>4 DEF Request
<1>5. CASE SendRequest \/ SendDisconnect
  BY <1>0, <1>5 DEF SendRequest, Send, SendDisconnect
<1>6. CASE Reply \/ DisconnectReply
  BY <1>0, <1>6 DEF Reply, GetsReply, AtEnd, DisconnectReply
<1>7. CASE Disconnect \/ Recheck
  BY <1>0, <1>7 DEF Disconnect, Recheck, ThreadLife
<1>8. CASE ClosePipes \/ Join
  BY <1>0, <1>8 DEF ClosePipes, Join
<1>9. CASE NotifCheck
  BY <1>0, <1>9 DEF NotifCheck, Finish
<1>10. CASE NotifRead \/ NotifEnd
  BY <1>0, <1>10 DEF NotifRead, NotifEnd, Finish
<1>11. CASE UNCHANGED <<pc, npc, ends>>
  BY <1>0, <1>11
<1> QED
  BY <1>1, <1>2, <1>3, <1>4, <1>5, <1>6, <1>7, <1>8, <1>9, <1>10, <1>11
  DEF Next, MainStep, NotifStep, HostStep, SessionStep, TakeRegistration, Activate,
      SpuriousWakeup, ForceDisconnect, Notify, SessionTop, SessionCheck, SessionServe,
      SessionCloseRequest, SessionCloseNotification, SessionCloseResponse

\* Main sleeps only after it has seen that thread_finished is not set, and the thread
\* wakes it as it sets it.
LEMMA SignalStep ==
  ASSUME IInv, Next
  PROVE  NoLostSignal'
<1> USE DEF NoLostSignal, mainVars, sharedVars, notifVars, pipeVars, sessionVars
<1>0. TypeOK /\ ThreadLife /\ NoLostSignal
  BY DEF IInv
<1>1. CASE Disconnect
  BY <1>0, <1>1 DEF Disconnect
<1>2. CASE Recheck \/ SpuriousWakeup
  BY <1>0, <1>2 DEF Recheck, SpuriousWakeup
<1>3. CASE NotifCheck \/ NotifEnd
  BY <1>0, <1>3 DEF NotifCheck, Finish, NotifEnd
<1>4. CASE UNCHANGED <<asleep, thread_finished>>
  BY <1>0, <1>4
<1> QED
  BY <1>1, <1>2, <1>3, <1>4
  DEF Next, MainStep, NotifStep, HostStep, SessionStep, Register, TakeRegistration,
      OpenPipe, Activate, Connected, GetsReply, AtEnd, Request, SendRequest, Send,
      Reply, SendDisconnect, DisconnectReply, ClosePipes, Join, NotifRead,
      ForceDisconnect, Notify, SessionTop, SessionCheck, SessionServe,
      SessionCloseRequest, SessionCloseNotification, SessionCloseResponse

\* disconnect is set by kvs_disconnect, which main leaves only when the thread is done,
\* or at the end of a pipe, which the server closes after the notification pipe.
LEMMA DisconnectStep ==
  ASSUME IInv, Next
  PROVE  DisconnectMeaning'
<1> USE DEF DisconnectMeaning, mainVars, sharedVars, notifVars, pipeVars, sessionVars
<1>0. TypeOK /\ PipesOrdered /\ ThreadLife /\ DisconnectMeaning /\ ClosedAfterThread
  BY DEF IInv
<1>1. CASE Register
  BY <1>0, <1>1 DEF Register
<1>2. CASE OpenPipe
  BY <1>0, <1>2, OpenPipeEffect DEF OpenPipe, Pipes
<1>3. CASE Connected
  BY <1>0, <1>3 DEF Connected, GetsReply, AtEnd
<1>4. ASSUME NEW o \in Operations, Request(o)
      PROVE  DisconnectMeaning'
  BY <1>0, <1>4 DEF Request
<1>5. CASE SendRequest \/ SendDisconnect
  BY <1>0, <1>5 DEF SendRequest, Send, SendDisconnect
<1>6. CASE Reply
  BY <1>0, <1>6 DEF Reply, GetsReply, AtEnd, PipesOrdered, TypeOK, Pipes
<1>7. CASE DisconnectReply
  BY <1>0, <1>7 DEF DisconnectReply, GetsReply, AtEnd
<1>8. CASE Disconnect \/ Recheck
  BY <1>0, <1>8 DEF Disconnect, Recheck, ThreadLife, ClosedAfterThread
<1>9. CASE ClosePipes \/ Join
  BY <1>0, <1>9 DEF ClosePipes, Join
<1>10. CASE NotifCheck
  BY <1>0, <1>10 DEF NotifCheck, Finish
<1>11. CASE NotifRead \/ NotifEnd
  BY <1>0, <1>11 DEF NotifRead, NotifEnd, Finish, ThreadLife
<1>12. CASE SessionCloseRequest \/ SessionCloseNotification \/ SessionCloseResponse
  BY <1>0, <1>12 DEF SessionCloseRequest, SessionCloseNotification, SessionCloseResponse
<1>13. CASE UNCHANGED <<pc, npc, disconnect, fds>>
  BY <1>0, <1>13
<1> QED
  BY <1>1, <1>2, <1>3, <1>4, <1>5, <1>6, <1>7, <1>8, <1>9, <1>10, <1>11, <1>12, <1>13
  DEF Next, MainStep, NotifStep, HostStep, SessionStep, TakeRegistration, Activate,
      SpuriousWakeup, ForceDisconnect, Notify, SessionTop, SessionCheck, SessionServe

\* A request is answered or the session ends, and a pipe that is closed stays closed:
\* whatever main waits for comes.
LEMMA WaitsStep ==
  ASSUME IInv, Next
  PROVE  WaitsAnswered'
<1> USE DEF WaitsAnswered, mainVars, sharedVars, notifVars, pipeVars, sessionVars
<1>0. TypeOK /\ HandshakeInStep /\ OneConversation /\ DisconnectMeaning /\ ClosedAfterThread /\ WaitsAnswered
  BY DEF IInv
<1>1. CASE Register
  BY <1>0, <1>1 DEF Register
<1>2. CASE TakeRegistration
  BY <1>0, <1>2 DEF TakeRegistration
<1>3. CASE OpenPipe
  BY <1>0, <1>3, OpenPipeEffect DEF OpenPipe, Pipes
<1>4. CASE Activate
  BY <1>0, <1>4 DEF Activate
<1>5. CASE Connected
  BY <1>0, <1>5 DEF Connected, GetsReply, AtEnd
<1>6. ASSUME NEW o \in Operations, Request(o)
      PROVE  WaitsAnswered'
  BY <1>0, <1>6 DEF Request, DisconnectMeaning
<1>7. CASE SendRequest \/ SendDisconnect
  BY <1>0, <1>7
  DEF SendRequest, Send, SendDisconnect, OneConversation, Operations, Nothing
<1>8. CASE Reply \/ DisconnectReply
  BY <1>0, <1>8 DEF Reply, GetsReply, AtEnd, DisconnectReply
<1>9. CASE Disconnect \/ Recheck
  BY <1>0, <1>9 DEF Disconnect, Recheck, DisconnectMeaning, ClosedAfterThread
<1>10. CASE ClosePipes \/ Join
  BY <1>0, <1>10 DEF ClosePipes, Join, ClosedAfterThread
<1>11. CASE NotifCheck \/ NotifRead \/ NotifEnd
  BY <1>0, <1>11 DEF NotifCheck, Finish, NotifRead, NotifEnd
<1>12. CASE SessionTop \/ SessionCheck \/ SessionServe
  BY <1>0, <1>12 DEF SessionTop, SessionCheck, SessionServe, Nothing
<1>13. CASE SessionCloseRequest \/ SessionCloseNotification \/ SessionCloseResponse
  BY <1>0, <1>13 DEF SessionCloseRequest, SessionCloseNotification, SessionCloseResponse
<1>14. CASE UNCHANGED <<pc, npc, request, reply, spc, fds>>
  BY <1>0, <1>14
<1> QED
  BY <1>1, <1>2, <1>3, <1>4, <1>5, <1>6, <1>7, <1>8, <1>9, <1>10, <1>11, <1>12, <1>13,
     <1>14
  DEF Next, MainStep, NotifStep, HostStep, SessionStep, SpuriousWakeup, ForceDisconnect,
      Notify

-----------------------------------------------------------------------------
(* The theorems.                                                           *)

\* A client that has made its pipes and that nobody knows yet.
LEMMA Initially == Init => IInv
<1> SUFFICES ASSUME Init
             PROVE  IInv
  OBVIOUS
<1>1. TypeOK
  <2>1. /\ disconnect \in BOOLEAN /\ thread_finished \in BOOLEAN /\ asleep \in BOOLEAN
        /\ answer \in BOOLEAN /\ force_disconnect \in BOOLEAN /\ subscribed \in BOOLEAN
    BY Zenon DEF Init
  <2> QED
    BY <2>1, PendingAssumption DEF Init, TypeOK, Messages, Operations, Pipes
<1>2. PipesOrdered /\ HandshakeInStep
  BY DEF Init, PipesOrdered, HandshakeInStep
<1>3. ThreadLife /\ ClosedAfterThread /\ NoLostSignal
  BY DEF Init, ThreadLife, ClosedAfterThread, NoLostSignal
<1>4. OneConversation /\ RepliesMatch /\ DisconnectMeaning /\ WaitsAnswered
  BY DEF Init, OneConversation, RepliesMatch, DisconnectMeaning, WaitsAnswered
<1> QED
  BY <1>1, <1>2, <1>3, <1>4 DEF IInv

\* Each step of main, the notification thread, the host and the session thread keeps
\* the invariant.
LEMMA Inductive == IInv /\ [Next]_vars => IInv'
<1> SUFFICES ASSUME IInv, [Next]_vars
             PROVE  IInv'
  OBVIOUS
<1>1. CASE Next
  BY <1>1, TypeStep, PipesStep, HandshakeStep, ThreadLifeStep, ConversationStep,
     ClosedStep, SignalStep, RepliesStep, DisconnectStep, WaitsStep DEF IInv
<1>2. CASE UNCHANGED vars
  BY <1>2
  DEF vars, mainVars, sharedVars, notifVars, pipeVars, sessionVars, IInv, TypeOK,
      PipesOrdered, HandshakeInStep, ThreadLife, OneConversation, ClosedAfterThread,
      NoLostSignal, RepliesMatch, DisconnectMeaning, WaitsAnswered
<1> QED
  BY <1>1, <1>2

\* Every reachable state satisfies the inductive invariant.
THEOREM Invariance == Spec => []IInv
  BY Initially, Inductive, PTL DEF Spec

\* Every variable keeps its type, whatever the bound on the notifications that wait.
THEOREM TypeCorrect == Spec => []TypeOK
<1>1. IInv => TypeOK
  BY DEF IInv
<1> QED
  BY <1>1, Invariance, PTL

\* Main closes the pipes, or sends DISCONNECT, only after kvs_notifications has left
\* the pipe it reads, also with spurious wakeups.
THEOREM ClosedTheorem == Spec => []ClosedAfterThread
<1>1. IInv => ClosedAfterThread
  BY DEF IInv
<1> QED
  BY <1>1, Invariance, PTL

\* Main never sleeps in pthread_cond_wait when thread_finished is set already.
THEOREM SignalTheorem == Spec => []NoLostSignal
<1>1. IInv => NoLostSignal
  BY DEF IInv
<1> QED
  BY <1>1, Invariance, PTL

\* What main reads from the response pipe answers the request it made, although
\* nobody looks at the opcode and the server may end the session at any moment.
THEOREM RepliesTheorem == Spec => []RepliesMatch
<1>1. IInv => RepliesMatch
  BY DEF IInv
<1> QED
  BY <1>1, Invariance, PTL

\* Main never waits for what cannot come any more: the safety half of RequestEnds,
\* ConnectEnds and JoinEnds.
THEOREM WaitsTheorem == Spec => []WaitsAnswered
<1>1. IInv => WaitsAnswered
  BY DEF IInv
<1> QED
  BY <1>1, Invariance, PTL
=============================================================================
