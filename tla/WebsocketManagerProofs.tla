----------------------- MODULE WebsocketManagerProofs -----------------------
(* Proofs of the safety properties of WebsocketManager for every value of    *)
(* the constants.                                                            *)
EXTENDS WebsocketManager, TLAPS

(* The lock protects a send, or _on_open as a whole, and nothing else.       *)
OpenStates == {"openAuth", "sendAuth", "replay"}
SendsLocked(t) == call[t].op \in {"subscribe", "unsubscribe"}

LockInv ==
    /\ \A t \in Threads : SendsLocked(t) => lock = t
    /\ rpc \in OpenStates => lock = Reader
    /\ \A t \in Threads : lock = t => SendsLocked(t) \/ (t = Reader /\ rpc \in OpenStates)

(* The reader calls the API only from a callback, and no thread that is not  *)
(* in _on_open sends the replayed account.                                   *)
CallInv ==
    /\ call[Reader].op \notin {"none", "openAuth"} => rpc = "callback"
    /\ \A t \in Threads : call[t].op = "openAuth" => t = Reader /\ rpc = "sendAuth"

(* What is left to replay is left to _on_open; a failed _on_open means a     *)
(* dead socket; an unsubscribe that sends has removed the last callback.     *)
OpenInv ==
    /\ rpc \notin OpenStates => replay = {}
    /\ rpc = "openFailed" => link # "up"
UnsubscribeInv ==
    \A t \in Threads : call[t].op = "unsubscribe" => active[call[t].on] = {}

(* NoLostSubscription, extended to the time _on_open takes.                  *)
Covered(i) ==
    \/ server[i] # "none"
    \/ Telling("subscribe", i)
    \/ RemovalPending(i)
    \/ i \in replay
CoveredInv ==
    rpc \in OpenStates \cup LiveStates /\ link = "up" /\ ws_ready =>
        \A i \in Channels : active[i] # {} => Covered(i)

IInv == TypeOK /\ LockInv /\ CallInv /\ OpenInv /\ UnsubscribeInv /\ CoveredInv

(* The initial values have their types.                                      *)
LEMMA TypeInit == Init => TypeOK
<1> SUFFICES ASSUME Init PROVE TypeOK
  OBVIOUS
<1>1. call \in [Threads -> Calls]
  BY DEF Init, NoCall, Calls
<1>2. id_counter \in 0 .. MaxIds /\ conns \in 0 .. MaxConnects
  BY BoundsAssumption DEF Init
<1>3. inbox \in Seq(Frames)
  BY DEF Init
<1> QED BY <1>1, <1>2, <1>3 DEF Init, TypeOK

(* The steps of the API calls keep every variable in its type.               *)
LEMMA TypeCalls ==
    ASSUME TypeOK, NEW t \in Threads, CallStep(t) \/ NewCall(t)
    PROVE  TypeOK'
<1> USE ThreadsAssumption, ChannelsAssumption, BoundsAssumption
    DEF TypeOK, Ids, Return, manager, threads, reader, network, remote
<1> NoCall \in Calls
  BY DEF Calls
<1>a. ASSUME NEW op \in {"subscribe", "unsubscribe"}, NEW i \in Channels, NEW id \in Ids,
             Begin(t, op, i, id)
      PROVE  call' \in [Threads -> Calls]
  BY <1>a DEF Begin, Calls
<1>b. ASSUME NEW op \in {"authTest", "authSend", "authClosed", "openAuth"}, NEW a \in Accounts,
             Begin(t, op, a, 0)
      PROVE  call' \in [Threads -> Calls]
  BY <1>b DEF Begin, Calls
<1>1. ASSUME NEW i \in Channels, Subscribe(t, i) PROVE TypeOK'
  <2>1. id_counter + 1 \in Ids
    BY <1>1 DEF Subscribe
  <2>2. call' \in [Threads -> Calls]
    BY <1>1, <1>a, <2>1 DEF Subscribe
  <2>3. active' \in [Channels -> SUBSET Ids] /\ id_counter' \in 0 .. MaxIds
    BY <1>1, <2>1 DEF Subscribe
  <2>4. returned' \subseteq Ids /\ lock' \in Threads \cup {None}
    BY <1>1, <2>1 DEF Subscribe
  <2> QED BY <1>1, <2>2, <2>3, <2>4 DEF Subscribe
<1>2. ASSUME NEW i \in Channels, NEW id \in Ids, Unsubscribe(t, i, id) PROVE TypeOK'
  <2>1. call' \in [Threads -> Calls]
    BY <1>2, <1>a DEF Unsubscribe
  <2> QED BY <1>2, <2>1 DEF Unsubscribe
<1>3. ASSUME NEW a \in Accounts, Authenticate(t, a) PROVE TypeOK'
  BY <1>3, <1>b DEF Authenticate
<1>4. ASSUME Stop(t) PROVE TypeOK'
  BY <1>4 DEF Stop, ServerForgets
<1>5. ASSUME NEW o \in Outcomes, SendSubscribe(t, o) PROVE TypeOK'
  <2>1. call[t].on \in Channels /\ call[t].id \in Ids
    BY <1>5 DEF SendSubscribe, Calls, NoCall
  <2>2. server' \in [Channels -> {"none", "on", "refused"}]
    BY <1>5, <2>1 DEF SendSubscribe, ServerAfter, Answer
  <2>3. returned' \subseteq Ids
    BY <1>5, <2>1 DEF SendSubscribe
  <2> QED BY <1>5, <2>2, <2>3 DEF SendSubscribe, ReadyAfterSend
<1>6. ASSUME NEW o \in Outcomes, SendUnsubscribe(t, o) PROVE TypeOK'
  <2>1. call[t].on \in Channels
    BY <1>6 DEF SendUnsubscribe, Calls, NoCall
  <2> QED BY <1>6, <2>1 DEF SendUnsubscribe, ReadyAfterSend, ServerAfter
<1>7. ASSUME NEW o \in Outcomes, AuthSend(t, o) PROVE TypeOK'
  <2>1. call[t].on \in Accounts
    BY <1>7 DEF AuthSend, Calls, NoCall
  <2>2. call' \in [Threads -> Calls]
    BY <1>7, <1>b, <2>1 DEF AuthSend
  <2> QED BY <1>7, <2>1, <2>2 DEF AuthSend, ToldAfter
<1>8. ASSUME AuthTest(t) PROVE TypeOK'
  <2>1. call[t].on \in Accounts
    BY <1>8 DEF AuthTest, Calls, NoCall
  <2> QED BY <1>8, <1>b, <2>1 DEF AuthTest
<1>9. ASSUME AuthClosed(t) PROVE TypeOK'
  BY <1>9 DEF AuthClosed
<1> QED BY <1>1, <1>2, <1>3, <1>4, <1>5, <1>6, <1>7, <1>8, <1>9 DEF CallStep, NewCall

(* The steps of the reader thread keep every variable in its type.           *)
LEMMA TypeReader ==
    ASSUME TypeOK, ReaderStep \/ Connect
    PROVE  TypeOK'
<1> USE ThreadsAssumption, ChannelsAssumption, BoundsAssumption
    DEF TypeOK, AfterFailure, ServerForgets, manager, threads, reader, network, remote
<1>1. CASE OnOpen
  BY <1>1 DEF OnOpen, ReplaySet, Threads
<1>2. CASE OpenAuth
  <2>1. CASE AccountToReplay = None
    BY <1>2, <2>1 DEF OpenAuth
  <2>2. CASE AccountToReplay # None
    <3>1. [op |-> "openAuth", on |-> AccountToReplay, id |-> 0] \in Calls
      BY <2>2 DEF Calls, AccountToReplay
    <3> QED BY <1>2, <2>2, <3>1 DEF OpenAuth, Begin
  <2> QED BY <2>1, <2>2
<1>3. ASSUME NEW o \in Outcomes, SendOpenAuth(o) PROVE TypeOK'
  <2>1. auth_told' \subseteq Accounts
    BY <1>3 DEF SendOpenAuth, ToldAfter, Calls, NoCall, Threads
  <2>2. call' \in [Threads -> Calls]
    BY <1>3 DEF SendOpenAuth, Return, Calls
  <2> QED BY <1>3, <2>1, <2>2 DEF SendOpenAuth, OpenContinues, ReadyAfterSend
<1>4. ASSUME NEW o \in Outcomes, NEW i \in Channels, Replay(i, o) PROVE TypeOK'
  BY <1>4 DEF Replay, OpenContinues, ReadyAfterSend, ServerAfter, Answer
<1>5. CASE OpenDone
  BY <1>5 DEF OpenDone
<1>6. CASE ReadFails
  BY <1>6 DEF ReadFails
<1>7. CASE OnError
  BY <1>7 DEF OnError
<1>8. CASE NewSocket
  BY <1>8 DEF NewSocket
<1>9. CASE ReadStopped
  BY <1>9 DEF ReadStopped
<1>10. CASE OnClose
  BY <1>10 DEF OnClose
<1>a. ASSUME NEW kind, Receive(kind) PROVE Head(inbox).to \subseteq Channels /\ inbox' \in Seq(Frames)
  <2>1. Head(inbox) \in Frames /\ inbox' \in Seq(Frames)
    BY <1>a DEF Receive
  <2> QED BY <2>1 DEF Frames, Data, Removed, Control, Targets
<1>11. CASE OnData
  <2>1. CallbacksFor(Head(inbox).to) \subseteq Ids /\ inbox' \in Seq(Frames)
    BY <1>11, <1>a DEF OnData, CallbacksFor
  <2> QED BY <1>11, <2>1 DEF OnData, LockWhileDispatching
<1>12. CASE OnGroupRemoved
  <2>1. CallbacksFor(Head(inbox).to) \subseteq Ids /\ inbox' \in Seq(Frames)
    BY <1>12, <1>a DEF OnGroupRemoved, CallbacksFor
  <2> QED BY <1>12, <2>1 DEF OnGroupRemoved
<1>13. CASE OnErrorFrame
  BY <1>13, <1>a DEF OnErrorFrame
<1>14. CASE OnGarbledFrame
  BY <1>14, <1>a DEF OnGarbledFrame
<1>15. ASSUME NEW id \in todo, RunCallback(id) PROVE TypeOK'
  BY <1>15 DEF RunCallback
<1>16. CASE CallbackReturns
  BY <1>16 DEF CallbackReturns
<1>17. CASE DispatchDone
  BY <1>17 DEF DispatchDone
<1>18. CASE Connect
  BY <1>18 DEF Connect
<1> QED BY <1>1, <1>2, <1>3, <1>4, <1>5, <1>6, <1>7, <1>8, <1>9, <1>10, <1>11, <1>12,
           <1>13, <1>14, <1>15, <1>16, <1>17, <1>18 DEF ReaderStep

(* So do the network and the server.                                         *)
LEMMA TypeEnvironment ==
    ASSUME TypeOK, Environment
    PROVE  TypeOK'
<1> USE ThreadsAssumption, ChannelsAssumption, BoundsAssumption
    DEF TypeOK, AfterFailure, ServerForgets, ServerSends,
        manager, threads, reader, network, remote
<1>1. CASE ConnectFails
  BY <1>1 DEF ConnectFails
<1>2. CASE ServerClose
  BY <1>2 DEF ServerClose
<1>3. CASE Drop
  BY <1>3 DEF Drop
<1>4. ASSUME NEW c \in Targets, Push(c) PROVE TypeOK'
  <2>1. Data(c) \in Frames
    BY DEF Frames
  <2> QED BY <1>4, <2>1 DEF Push
<1>5. ASSUME NEW k \in {"error", "garbled"}, PushControl(k) PROVE TypeOK'
  <2>1. Control(k) \in Frames
    BY DEF Frames
  <2> QED BY <1>5, <2>1 DEF PushControl
<1>6. ASSUME NEW i \in Groups, Delist(i) PROVE TypeOK'
  <2>1. Removed(i) \in Frames
    BY DEF Frames
  <2>2. server' \in [Channels -> {"none", "on", "refused"}]
    BY <1>6 DEF Delist
  <2>3. inbox' \in Seq(Frames)
    BY <1>6, <2>1 DEF Delist
  <2> QED BY <1>6, <2>2, <2>3 DEF Delist
<1> QED BY <1>1, <1>2, <1>3, <1>4, <1>5, <1>6 DEF Environment

(* TypeOK: every variable keeps the type the code gives it.                  *)
THEOREM TypeCorrect == Spec => []TypeOK
<1>1. TypeOK /\ [Next]_vars => TypeOK'
  <2> SUFFICES ASSUME TypeOK, [Next]_vars PROVE TypeOK'
    OBVIOUS
  <2>1. CASE Next
    BY <2>1, TypeCalls, TypeReader, TypeEnvironment DEF Next
  <2>2. CASE UNCHANGED vars
    BY <2>2 DEF vars, TypeOK, manager, threads, reader, network, remote
  <2> QED BY <2>1, <2>2
<1> QED BY TypeInit, <1>1, PTL DEF Spec

-----------------------------------------------------------------------------
(* The invariant behind the safety theorems.                                 *)

(* The invariant holds at first.                                             *)
LEMMA InvInit == Init => IInv
<1> SUFFICES ASSUME Init PROVE IInv
  OBVIOUS
<1>1. TypeOK
  BY TypeInit
<1>2. \A t \in Threads : call[t].op = "none"
  BY DEF Init, NoCall
<1>3. lock = None /\ rpc = "connect" /\ replay = {}
  BY DEF Init
<1> QED BY <1>1, <1>2, <1>3, ThreadsAssumption
        DEF IInv, LockInv, SendsLocked, CallInv, OpenInv, UnsubscribeInv, CoveredInv,
            OpenStates, LiveStates, Threads

(* While the lock is free no call sends under it and _on_open is not running.*)
LEMMA FreeLock ==
    ASSUME LockInv, lock = None
    PROVE  rpc \notin OpenStates /\ \A t \in Threads : ~SendsLocked(t)
BY ThreadsAssumption DEF LockInv, Threads

(* Lock ownership survives the steps of the API calls.                       *)
LEMMA LockCalls ==
    ASSUME TypeOK, LockInv, CallInv, NEW t \in Threads, CallStep(t) \/ NewCall(t)
    PROVE  LockInv' /\ CallInv'
<1> Reader \in Threads /\ None \notin Threads
  BY ThreadsAssumption DEF Threads
<1>c. call \in [Threads -> Calls]
  BY DEF TypeOK
<1> USE DEF LockInv, CallInv, SendsLocked, OpenStates, NoCall,
            manager, threads, reader, network, remote
<1>1. ASSUME NEW i \in Channels, Subscribe(t, i) PROVE LockInv' /\ CallInv'
  <2>1. CASE ws_ready /\ FirstForIdentifier(i)
    <3>1. lock' = t /\ Begin(t, "subscribe", i, id_counter + 1) /\ rpc' = rpc
      BY <1>1, <2>1 DEF Subscribe
    <3>2. call'[t].op = "subscribe" /\ \A s \in Threads \ {t} : call'[s] = call[s]
      BY <3>1, <1>c DEF Begin
    <3>3. rpc \notin OpenStates /\ \A s \in Threads : ~SendsLocked(s)
      BY <1>1, FreeLock DEF Subscribe
    <3>4. t = Reader => rpc = "callback"
      BY <1>1 DEF Subscribe, Idle
    <3> QED BY <3>1, <3>2, <3>3, <3>4
  <2>2. CASE ~(ws_ready /\ FirstForIdentifier(i))
    BY <1>1, <2>2 DEF Subscribe
  <2> QED BY <2>1, <2>2
<1>2. ASSUME NEW i \in Channels, NEW id \in Ids, Unsubscribe(t, i, id) PROVE LockInv' /\ CallInv'
  <2>1. CASE ws_ready /\ LastForIdentifier(i, id)
    <3>1. lock' = t /\ Begin(t, "unsubscribe", i, id) /\ rpc' = rpc
      BY <1>2, <2>1 DEF Unsubscribe
    <3>2. call'[t].op = "unsubscribe" /\ \A s \in Threads \ {t} : call'[s] = call[s]
      BY <3>1, <1>c DEF Begin
    <3>3. rpc \notin OpenStates /\ \A s \in Threads : ~SendsLocked(s)
      BY <1>2, FreeLock DEF Unsubscribe
    <3>4. t = Reader => rpc = "callback"
      BY <1>2 DEF Unsubscribe, Idle
    <3> QED BY <3>1, <3>2, <3>3, <3>4
  <2>2. CASE ~(ws_ready /\ LastForIdentifier(i, id))
    BY <1>2, <2>2 DEF Unsubscribe
  <2> QED BY <2>1, <2>2
<1>3. ASSUME NEW a \in Accounts, Authenticate(t, a) PROVE LockInv' /\ CallInv'
  BY <1>3, <1>c DEF Authenticate, Idle, Begin
<1>4. ASSUME Stop(t) PROVE LockInv' /\ CallInv'
  <2>1. UNCHANGED <<lock, call, rpc>>
    BY <1>4 DEF Stop
  <2> QED BY <2>1
<1>5. ASSUME NEW o \in Outcomes, SendSubscribe(t, o) PROVE LockInv' /\ CallInv'
  BY <1>5, <1>c DEF SendSubscribe, Return
<1>6. ASSUME NEW o \in Outcomes, SendUnsubscribe(t, o) PROVE LockInv' /\ CallInv'
  BY <1>6, <1>c DEF SendUnsubscribe, Return
<1>7. ASSUME NEW o \in Outcomes, AuthSend(t, o) PROVE LockInv' /\ CallInv'
  BY <1>7, <1>c DEF AuthSend, Begin, Return
<1>8. ASSUME AuthTest(t) PROVE LockInv' /\ CallInv'
  <2>1. UNCHANGED <<lock, rpc>> /\ call[t].op = "authTest"
    BY <1>8 DEF AuthTest
  <2>2. call'[t].op \in {"authSend", "none"} /\ \A s \in Threads \ {t} : call'[s] = call[s]
    BY <1>8, <1>c DEF AuthTest, Begin, Return
  <2> QED BY <2>1, <2>2
<1>9. ASSUME AuthClosed(t) PROVE LockInv' /\ CallInv'
  <2>1. UNCHANGED <<lock, rpc>> /\ call[t].op = "authClosed"
    BY <1>9 DEF AuthClosed
  <2>2. call'[t].op = "none" /\ \A s \in Threads \ {t} : call'[s] = call[s]
    BY <1>9, <1>c DEF AuthClosed, Return
  <2> QED BY <2>1, <2>2
<1> QED BY <1>1, <1>2, <1>3, <1>4, <1>5, <1>6, <1>7, <1>8, <1>9 DEF CallStep, NewCall

(* And the steps of the reader thread.                                       *)
LEMMA LockReader ==
    ASSUME TypeOK, LockInv, CallInv, ReaderStep \/ Connect
    PROVE  LockInv' /\ CallInv'
<1> Reader \in Threads /\ None \notin Threads
  BY ThreadsAssumption DEF Threads
<1>c. call \in [Threads -> Calls]
  BY DEF TypeOK
<1> USE DEF LockInv, CallInv, SendsLocked, OpenStates, NoCall,
            manager, threads, reader, network, remote
<1>1. CASE OnOpen
  BY <1>1, FreeLock DEF OnOpen
<1>2. CASE OpenAuth
  BY <1>2, <1>c DEF OpenAuth, Begin
<1>3. ASSUME NEW o \in Outcomes, SendOpenAuth(o) PROVE LockInv' /\ CallInv'
  <2>1. call[Reader].op = "openAuth" /\ rpc = "sendAuth"
    BY <1>3 DEF SendOpenAuth
  <2>2. call'[Reader].op = "none" /\ \A s \in Threads \ {Reader} : call'[s] = call[s]
    BY <1>3, <1>c DEF SendOpenAuth, Return
  <2>3. \/ rpc' = "openFailed" /\ lock' = None
        \/ rpc' = "replay" /\ lock' = lock
    BY <1>3 DEF SendOpenAuth, OpenContinues
  <2> QED BY <2>1, <2>2, <2>3
<1>4. ASSUME NEW o \in Outcomes, NEW i \in Channels, Replay(i, o) PROVE LockInv' /\ CallInv'
  BY <1>4 DEF Replay, OpenContinues
<1>5. CASE OpenDone
  BY <1>5 DEF OpenDone
<1>6. CASE ReadFails
  BY <1>6 DEF ReadFails, AfterFailure
<1>7. CASE OnError
  BY <1>7 DEF OnError
<1>8. CASE NewSocket
  BY <1>8 DEF NewSocket
<1>9. CASE ReadStopped
  BY <1>9 DEF ReadStopped
<1>10. CASE OnClose
  BY <1>10 DEF OnClose
<1>11. CASE OnData
  BY <1>11 DEF OnData, Receive, LockWhileDispatching
<1>12. CASE OnGroupRemoved
  BY <1>12 DEF OnGroupRemoved, Receive
<1>13. CASE OnErrorFrame
  BY <1>13 DEF OnErrorFrame, Receive
<1>14. CASE OnGarbledFrame
  BY <1>14 DEF OnGarbledFrame, Receive
<1>15. ASSUME NEW id \in todo, RunCallback(id) PROVE LockInv' /\ CallInv'
  BY <1>15 DEF RunCallback
<1>16. CASE CallbackReturns
  BY <1>16 DEF CallbackReturns
<1>17. CASE DispatchDone
  BY <1>17 DEF DispatchDone
<1>18. CASE Connect
  BY <1>18 DEF Connect
<1> QED BY <1>1, <1>2, <1>3, <1>4, <1>5, <1>6, <1>7, <1>8, <1>9, <1>10, <1>11, <1>12,
           <1>13, <1>14, <1>15, <1>16, <1>17, <1>18 DEF ReaderStep

(* The network and the server touch neither the lock nor the calls.          *)
LEMMA LockEnvironment ==
    ASSUME LockInv, CallInv, Environment
    PROVE  LockInv' /\ CallInv'
<1> USE DEF LockInv, CallInv, SendsLocked, OpenStates, manager, threads, reader
<1>1. CASE ConnectFails
  BY <1>1 DEF ConnectFails, AfterFailure
<1>2. CASE ServerClose
  BY <1>2 DEF ServerClose
<1>3. CASE Drop \/ (\E c \in Targets : Push(c)) \/ (\E k \in {"error", "garbled"} : PushControl(k))
           \/ (\E i \in Groups : Delist(i))
  BY <1>3 DEF Drop, Push, PushControl, Delist
<1> QED BY <1>1, <1>2, <1>3 DEF Environment

(* OpenInv: what _on_open leaves behind.                                     *)
LEMMA OpenStep ==
    ASSUME TypeOK, OpenInv, Next
    PROVE  OpenInv'
<1> USE DEF OpenInv, OpenStates, manager, threads, reader, network, remote
<1>1. ASSUME NEW t \in Threads, CallStep(t) \/ NewCall(t) PROVE OpenInv'
  <2>1. UNCHANGED <<rpc, replay>> /\ (link' = link \/ link' = "none")
    BY <1>1 DEF CallStep, NewCall, Subscribe, Unsubscribe, Authenticate, Stop, SendSubscribe,
                SendUnsubscribe, AuthSend, AuthTest, AuthClosed
  <2> QED BY <2>1
<1>2. ASSUME NEW o \in Outcomes, SendOpenAuth(o) \/ \E i \in Channels : Replay(i, o)
      PROVE  OpenInv'
  <2>1. SendMay(o) /\ link' = link
    BY <1>2 DEF SendOpenAuth, Replay
  <2>2. \/ o = "raised" /\ rpc' = "openFailed" /\ replay' = {}
        \/ rpc' = "replay"
    BY <1>2 DEF SendOpenAuth, Replay, OpenContinues
  <2> QED BY <2>1, <2>2 DEF SendMay
<1>3. CASE OnOpen \/ OpenAuth \/ OpenDone \/ ReadFails \/ OnError \/ NewSocket
  BY <1>3 DEF OnOpen, OpenAuth, OpenDone, ReadFails, OnError, NewSocket, AfterFailure
<1>4. CASE ReadStopped \/ OnClose \/ Connect
  BY <1>4 DEF ReadStopped, OnClose, Connect
<1>5. CASE OnData \/ OnGroupRemoved \/ OnErrorFrame \/ OnGarbledFrame
  BY <1>5 DEF OnData, OnGroupRemoved, OnErrorFrame, OnGarbledFrame, Receive
<1>6. CASE (\E id \in todo : RunCallback(id)) \/ CallbackReturns \/ DispatchDone
  BY <1>6 DEF RunCallback, CallbackReturns, DispatchDone
<1>7. CASE Environment
  BY <1>7 DEF Environment, ConnectFails, ServerClose, Drop, Push, PushControl, Delist, AfterFailure
<1> QED BY <1>1, <1>2, <1>3, <1>4, <1>5, <1>6, <1>7 DEF Next, ReaderStep

(* UnsubscribeInv: while an unsubscribe call holds the lock nobody registers *)
(* a callback.                                                               *)
LEMMA UnsubscribeStep ==
    ASSUME TypeOK, LockInv, CallInv, UnsubscribeInv, Next
    PROVE  UnsubscribeInv'
<1> Reader \in Threads /\ None \notin Threads
  BY ThreadsAssumption DEF Threads
<1>c. call \in [Threads -> Calls] /\ active \in [Channels -> SUBSET Ids]
  BY DEF TypeOK
<1>f. lock = None => \A t \in Threads : call[t].op # "unsubscribe"
  BY FreeLock DEF SendsLocked
<1> USE DEF UnsubscribeInv, manager, threads, reader, network, remote
<1>1. ASSUME NEW t \in Threads, NEW i \in Channels, Subscribe(t, i) PROVE UnsubscribeInv'
  BY <1>1, <1>c, <1>f DEF Subscribe, Begin
<1>2. ASSUME NEW t \in Threads, NEW i \in Channels, NEW id \in Ids, Unsubscribe(t, i, id)
      PROVE  UnsubscribeInv'
  <2>1. CASE ws_ready /\ LastForIdentifier(i, id)
    <3>1. active'[i] = {}
      BY <1>2, <2>1, <1>c DEF Unsubscribe, LastForIdentifier
    <3>2. call' = [call EXCEPT ![t] = [op |-> "unsubscribe", on |-> i, id |-> id]]
      BY <1>2, <2>1 DEF Unsubscribe, Begin
    <3> QED BY <1>2, <3>1, <3>2, <1>c, <1>f DEF Unsubscribe
  <2>2. CASE ~(ws_ready /\ LastForIdentifier(i, id))
    BY <1>2, <2>2, <1>f DEF Unsubscribe
  <2> QED BY <2>1, <2>2
<1>3. ASSUME NEW t \in Threads, NEW a \in Accounts, Authenticate(t, a) PROVE UnsubscribeInv'
  BY <1>3, <1>c DEF Authenticate, Begin
<1>4. ASSUME NEW t \in Threads, CallStep(t) PROVE UnsubscribeInv'
  <2>1. active' = active
    BY <1>4 DEF CallStep, SendSubscribe, SendUnsubscribe, AuthSend, AuthTest, AuthClosed
  <2>2. call'[t].op # "unsubscribe" /\ \A s \in Threads \ {t} : call'[s] = call[s]
    BY <1>4, <1>c DEF CallStep, SendSubscribe, SendUnsubscribe, AuthSend, AuthTest, AuthClosed,
                      Begin, Return, NoCall
  <2> QED BY <2>1, <2>2
<1>5. ASSUME NEW t \in Threads, Stop(t) PROVE UnsubscribeInv'
  BY <1>5 DEF Stop
<1>6. CASE OpenAuth \/ \E o \in Outcomes : SendOpenAuth(o)
  <2>1. active' = active
    BY <1>6 DEF OpenAuth, SendOpenAuth
  <2>2. \/ call' = call
        \/ call'[Reader].op # "unsubscribe" /\ \A s \in Threads \ {Reader} : call'[s] = call[s]
    BY <1>6, <1>c DEF OpenAuth, SendOpenAuth, Begin, Return, NoCall
  <2> QED BY <2>1, <2>2
<1>7. CASE OnGroupRemoved
  BY <1>7, <1>f DEF OnGroupRemoved
<1>8. CASE \/ OnOpen \/ OpenDone \/ ReadFails \/ OnError \/ NewSocket \/ ReadStopped \/ OnClose
           \/ OnData \/ OnErrorFrame \/ OnGarbledFrame \/ CallbackReturns \/ DispatchDone
           \/ Connect \/ Environment
           \/ (\E o \in Outcomes, i \in Channels : Replay(i, o))
           \/ (\E id \in todo : RunCallback(id))
  <2>1. UNCHANGED <<active, call>>
    BY <1>8 DEF OnOpen, OpenDone, ReadFails, OnError, NewSocket, ReadStopped, OnClose,
                OnData, OnErrorFrame, OnGarbledFrame, CallbackReturns, DispatchDone,
                Connect, Environment, Replay, RunCallback,
                ConnectFails, ServerClose, Drop, Push, PushControl, Delist
  <2> QED BY <2>1
<1> QED BY <1>1, <1>2, <1>3, <1>4, <1>5, <1>6, <1>7, <1>8 DEF Next, NewCall, ReaderStep

-----------------------------------------------------------------------------
(* CoveredInv: nothing that is registered gets lost.                         *)

(* Reading a frame loses no other frame, and sending one loses none.         *)
LEMMA ReadKeepsPending ==
    ASSUME inbox \in Seq(Frames), inbox # <<>>, inbox' = Tail(inbox),
           NEW i, RemovalPending(i), Head(inbox) # Removed(i)
    PROVE  RemovalPending(i)'
<1>1. PICK k \in DOMAIN inbox : inbox[k] = Removed(i)
  BY DEF RemovalPending
<1>2. k \in 1 .. Len(inbox) /\ k # 1
  BY <1>1
<1>3. k - 1 \in DOMAIN inbox' /\ inbox'[k - 1] = Removed(i)
  BY <1>1, <1>2
<1> QED BY <1>3 DEF RemovalPending, Removed

(* A frame that arrives does not take another out of the inbox.              *)
LEMMA SendKeepsPending ==
    ASSUME inbox \in Seq(Frames), NEW f \in Frames, inbox' = Append(inbox, f),
           NEW i, RemovalPending(i)
    PROVE  RemovalPending(i)'
<1>1. PICK k \in DOMAIN inbox : inbox[k] = Removed(i)
  BY DEF RemovalPending
<1>2. k \in DOMAIN inbox' /\ inbox'[k] = Removed(i)
  BY <1>1
<1> QED BY <1>2 DEF RemovalPending, Removed

(* The calls of the API.                                                     *)
LEMMA CoveredCalls ==
    ASSUME IInv, NEW t \in Threads, CallStep(t) \/ NewCall(t)
    PROVE  CoveredInv'
<1> Reader \in Threads /\ None \notin Threads
  BY ThreadsAssumption DEF Threads
<1>c. call \in [Threads -> Calls] /\ active \in [Channels -> SUBSET Ids]
      /\ server \in [Channels -> {"none", "on", "refused"}]
  BY DEF IInv, TypeOK
<1>f. lock = None => \A s \in Threads : call[s].op \notin {"subscribe", "unsubscribe"}
  BY FreeLock DEF IInv, SendsLocked
<1> USE DEF CoveredInv, Covered, Telling, RemovalPending, Removed,
            manager, threads, reader, network, remote
<1>0. CoveredInv
  BY DEF IInv
<1>1. ASSUME NEW i \in Channels, Subscribe(t, i) PROVE CoveredInv'
  <2>1. CASE ws_ready /\ FirstForIdentifier(i)
    <3>1. call' = [call EXCEPT ![t] = [op |-> "subscribe", on |-> i, id |-> id_counter + 1]]
      BY <1>1, <2>1 DEF Subscribe, Begin
    <3>2. Telling("subscribe", i)'
      BY <3>1, <1>c
    <3>3. \A j \in Channels \ {i} : active'[j] = active[j]
      BY <1>1, <1>c DEF Subscribe
    <3>4. UNCHANGED <<rpc, link, ws_ready, server, inbox, replay>>
      BY <1>1 DEF Subscribe
    <3>5. \A j \in Channels : ~Telling("subscribe", j)
      BY <1>1, <1>f DEF Subscribe
    <3> QED BY <1>0, <3>2, <3>3, <3>4, <3>5
  <2>2. CASE ~ws_ready
    BY <1>1, <2>2 DEF Subscribe
  <2>3. CASE ws_ready /\ ~FirstForIdentifier(i)
    <3>1. \A j \in Channels : active'[j] # {} => active[j] # {}
      BY <1>1, <2>3, <1>c DEF Subscribe, FirstForIdentifier
    <3>2. UNCHANGED <<rpc, link, ws_ready, server, inbox, replay, call>>
      BY <1>1, <2>3 DEF Subscribe
    <3> QED BY <1>0, <3>1, <3>2
  <2> QED BY <2>1, <2>2, <2>3
<1>2. ASSUME NEW i \in Channels, NEW id \in Ids, Unsubscribe(t, i, id) PROVE CoveredInv'
  <2>1. \A j \in Channels : active'[j] # {} => active[j] # {}
    BY <1>2, <1>c DEF Unsubscribe
  <2>2. UNCHANGED <<rpc, link, ws_ready, server, inbox, replay>>
    BY <1>2 DEF Unsubscribe
  <2>3. \A j \in Channels : ~Telling("subscribe", j)
    BY <1>2, <1>f DEF Unsubscribe
  <2> QED BY <1>0, <2>1, <2>2, <2>3
<1>3. CASE (\E a \in Accounts : Authenticate(t, a)) \/ AuthTest(t) \/ AuthClosed(t)
           \/ (\E o \in Outcomes : AuthSend(t, o))
  <2>1. UNCHANGED <<rpc, link, active, server, inbox, replay>> /\ (ws_ready' => ws_ready)
    BY <1>3 DEF Authenticate, AuthTest, AuthClosed, AuthSend
  <2>2. call[t].op # "subscribe" /\ \A s \in Threads \ {t} : call'[s] = call[s]
    BY <1>3, <1>c DEF Authenticate, Idle, AuthTest, AuthClosed, AuthSend, Begin, Return, NoCall
  <2>3. \A j \in Channels : Telling("subscribe", j) => Telling("subscribe", j)'
    BY <2>2
  <2> QED BY <1>0, <2>1, <2>3
<1>4. CASE Stop(t)
  BY <1>4 DEF Stop
<1>5. ASSUME NEW o \in Outcomes, SendSubscribe(t, o), link = "up" PROVE CoveredInv'
  <2>1. server' = [server EXCEPT ![call[t].on] = Answer(call[t].on)]
    BY <1>5 DEF SendSubscribe, SendMay, ServerAfter
  <2>2. \A j \in Channels : server'[j] # "none" \/ (j # call[t].on /\ server'[j] = server[j])
    BY <2>1, <1>c DEF Answer
  <2>3. \A s \in Threads \ {t} : call'[s] = call[s]
    BY <1>5, <1>c DEF SendSubscribe, Return
  <2>4. UNCHANGED <<rpc, link, active, inbox, replay>> /\ (ws_ready' => ws_ready)
    BY <1>5 DEF SendSubscribe, ReadyAfterSend
  <2>5. \A j \in Channels : j # call[t].on /\ Telling("subscribe", j) => Telling("subscribe", j)'
    BY <2>3
  <2> QED BY <1>0, <2>2, <2>4, <2>5
<1>6. ASSUME NEW o \in Outcomes, SendUnsubscribe(t, o), link = "up" PROVE CoveredInv'
  <2>1. server' = [server EXCEPT ![call[t].on] = "none"]
    BY <1>6 DEF SendUnsubscribe, SendMay, ServerAfter
  <2>2. active[call[t].on] = {}
    BY <1>6 DEF SendUnsubscribe, IInv, UnsubscribeInv
  <2>3. call[t].op # "subscribe" /\ \A s \in Threads \ {t} : call'[s] = call[s]
    BY <1>6, <1>c DEF SendUnsubscribe, Return
  <2>4. UNCHANGED <<rpc, link, active, inbox, replay>> /\ (ws_ready' => ws_ready)
    BY <1>6 DEF SendUnsubscribe, ReadyAfterSend
  <2>5. \A j \in Channels : Telling("subscribe", j) => Telling("subscribe", j)'
    BY <2>3
  <2>6. \A j \in Channels : j # call[t].on => server'[j] = server[j]
    BY <2>1, <1>c
  <2> QED BY <1>0, <2>2, <2>4, <2>5, <2>6
<1>7. ASSUME NEW o \in Outcomes, SendSubscribe(t, o) \/ SendUnsubscribe(t, o), link # "up"
      PROVE  CoveredInv'
  BY <1>7 DEF SendSubscribe, SendUnsubscribe
<1> QED BY <1>1, <1>2, <1>3, <1>4, <1>5, <1>6, <1>7 DEF CallStep, NewCall

(* _on_open: what it has not sent yet is in replay.                          *)
LEMMA CoveredOpen ==
    ASSUME IInv,
           OnOpen \/ OpenAuth \/ OpenDone
             \/ \E o \in Outcomes : SendOpenAuth(o) \/ \E i \in Channels : Replay(i, o)
    PROVE  CoveredInv'
<1> Reader \in Threads
  BY DEF Threads
<1>c. call \in [Threads -> Calls] /\ server \in [Channels -> {"none", "on", "refused"}]
  BY DEF IInv, TypeOK
<1> USE DEF CoveredInv, Covered, Telling, RemovalPending, Removed, OpenStates, LiveStates,
            manager, threads, reader, network, remote
<1>0. CoveredInv
  BY DEF IInv
<1>1. CASE OnOpen
  BY <1>1 DEF OnOpen, ReplaySet
<1>2. CASE OpenAuth
  <2>1. UNCHANGED <<link, ws_ready, active, server, inbox, replay>> /\ rpc = "openAuth"
    BY <1>2 DEF OpenAuth
  <2>2. call[Reader].op # "subscribe"
    BY <2>1 DEF IInv, CallInv
  <2>3. \A s \in Threads \ {Reader} : call'[s] = call[s]
    BY <1>2, <1>c DEF OpenAuth, Begin
  <2>4. \A j \in Channels : Telling("subscribe", j) => Telling("subscribe", j)'
    BY <2>2, <2>3
  <2> QED BY <1>0, <2>1, <2>4
<1>3. ASSUME NEW o \in Outcomes, SendOpenAuth(o), link = "up" PROVE CoveredInv'
  <2>1. call[Reader].op = "openAuth" /\ rpc = "sendAuth"
    BY <1>3 DEF SendOpenAuth, IInv, CallInv
  <2>2. UNCHANGED <<link, active, server, inbox, replay>> /\ (ws_ready' => ws_ready)
    BY <1>3 DEF SendOpenAuth, SendMay, OpenContinues, ReadyAfterSend
  <2>3. \A s \in Threads \ {Reader} : call'[s] = call[s]
    BY <1>3, <1>c DEF SendOpenAuth, Return
  <2>4. \A j \in Channels : Telling("subscribe", j) => Telling("subscribe", j)'
    BY <2>1, <2>3
  <2> QED BY <1>0, <2>1, <2>2, <2>4
<1>4. ASSUME NEW o \in Outcomes, NEW i \in Channels, Replay(i, o), link = "up" PROVE CoveredInv'
  <2>1. server' = [server EXCEPT ![i] = Answer(i)] /\ replay' = replay \ {i} /\ rpc = "replay"
    BY <1>4 DEF Replay, SendMay, OpenContinues, ServerAfter
  <2>2. UNCHANGED <<link, active, call, inbox>> /\ (ws_ready' => ws_ready)
    BY <1>4 DEF Replay, ReadyAfterSend
  <2>3. \A j \in Channels : server'[j] # "none" \/ (j # i /\ server'[j] = server[j])
    BY <2>1, <1>c DEF Answer
  <2> QED BY <1>0, <2>1, <2>2, <2>3
<1>5. ASSUME NEW o \in Outcomes, SendOpenAuth(o) \/ \E i \in Channels : Replay(i, o), link # "up"
      PROVE  CoveredInv'
  BY <1>5 DEF SendOpenAuth, Replay
<1>6. CASE OpenDone
  <2>1. UNCHANGED <<link, ws_ready, active, server, call, inbox, replay>> /\ rpc = "replay"
    BY <1>6 DEF OpenDone
  <2> QED BY <1>0, <2>1
<1> QED BY <1>1, <1>2, <1>3, <1>4, <1>5, <1>6

(* The other steps of the reader thread.                                     *)
LEMMA CoveredReader ==
    ASSUME IInv,
           \/ ReadFails \/ OnError \/ NewSocket \/ ReadStopped \/ OnClose
           \/ OnData \/ OnGroupRemoved \/ OnErrorFrame \/ OnGarbledFrame
           \/ (\E id \in todo : RunCallback(id))
           \/ CallbackReturns \/ DispatchDone \/ Connect
    PROVE  CoveredInv'
<1>0. CoveredInv /\ OpenInv /\ inbox \in Seq(Frames) /\ active \in [Channels -> SUBSET Ids]
  BY DEF IInv, TypeOK
<1> USE DEF OpenStates, LiveStates, manager, threads, reader, network, remote
<1>1. CASE ReadFails \/ NewSocket \/ ReadStopped \/ OnClose \/ Connect
  BY <1>1 DEF CoveredInv, ReadFails, NewSocket, ReadStopped, OnClose, Connect, AfterFailure
<1>2. CASE OnError
  <2>1. UNCHANGED <<link, active, server, call, inbox, replay>> /\ (ws_ready' => ws_ready)
    BY <1>2 DEF OnError
  <2>2. rpc' = "sleep" \/ rpc = "garbled" \/ (rpc = "openFailed" /\ link # "up")
    BY <1>2, <1>0 DEF OnError, OpenInv
  <2> QED BY <1>0, <2>1, <2>2 DEF CoveredInv, Covered, Telling, RemovalPending, Removed
<1>3. CASE (\E id \in todo : RunCallback(id)) \/ CallbackReturns \/ DispatchDone
  <2>1. UNCHANGED <<link, ws_ready, active, server, call, inbox, replay>> /\ rpc \in LiveStates
    BY <1>3 DEF RunCallback, CallbackReturns, DispatchDone
  <2> QED BY <1>0, <2>1 DEF CoveredInv, Covered, Telling, RemovalPending, Removed
<1>4. CASE OnData \/ OnGroupRemoved \/ OnErrorFrame \/ OnGarbledFrame
  <2>1. /\ UNCHANGED <<link, ws_ready, server, call, replay>> /\ rpc \in LiveStates
        /\ inbox # <<>> /\ inbox' = Tail(inbox)
    BY <1>4 DEF OnData, OnGroupRemoved, OnErrorFrame, OnGarbledFrame, Receive
  <2>2. ASSUME NEW i \in Channels, active'[i] # {}
        PROVE  active[i] # {} /\ Head(inbox) # Removed(i)
    <3>1. CASE OnGroupRemoved
      BY <2>2, <3>1 DEF OnGroupRemoved, Removed
    <3>2. CASE OnData \/ OnErrorFrame \/ OnGarbledFrame
      <4>1. active' = active
        BY <3>2 DEF OnData, OnErrorFrame, OnGarbledFrame
      <4>2. Head(inbox).kind # "removed"
        BY <3>2 DEF OnData, OnErrorFrame, OnGarbledFrame, Receive
      <4> QED BY <2>2, <4>1, <4>2 DEF Removed
    <3> QED BY <1>4, <3>1, <3>2
  <2>3. \A i \in Channels : active'[i] # {} /\ RemovalPending(i) => RemovalPending(i)'
    BY <1>0, <2>1, <2>2, ReadKeepsPending
  <2>4. \A i \in Channels : Telling("subscribe", i) => Telling("subscribe", i)'
    BY <2>1 DEF Telling
  <2>5. \A i \in Channels : active'[i] # {} /\ Covered(i) => Covered(i)'
    BY <2>1, <2>3, <2>4 DEF Covered
  <2> QED BY <1>0, <2>1, <2>2, <2>5 DEF CoveredInv
<1> QED BY <1>1, <1>2, <1>3, <1>4

(* The network and the server.                                               *)
LEMMA CoveredEnvironment ==
    ASSUME IInv, Environment
    PROVE  CoveredInv'
<1>0. CoveredInv /\ inbox \in Seq(Frames) /\ server \in [Channels -> {"none", "on", "refused"}]
  BY DEF IInv, TypeOK
<1> USE DEF OpenStates, LiveStates, manager, threads, reader, network, remote
<1>1. CASE ConnectFails \/ ServerClose \/ Drop
  BY <1>1 DEF CoveredInv, ConnectFails, ServerClose, Drop, AfterFailure
<1>2. CASE (\E c \in Targets : Push(c)) \/ (\E k \in {"error", "garbled"} : PushControl(k))
  <2>1. UNCHANGED <<rpc, link, ws_ready, active, server, call, replay>>
    BY <1>2 DEF Push, PushControl
  <2>2. PICK f \in Frames : inbox' = Append(inbox, f)
    BY <1>2 DEF Push, PushControl, ServerSends, Frames
  <2>3. \A i \in Channels : RemovalPending(i) => RemovalPending(i)'
    BY <1>0, <2>2, SendKeepsPending
  <2>4. \A i \in Channels : Telling("subscribe", i) => Telling("subscribe", i)'
    BY <2>1 DEF Telling
  <2>5. \A i \in Channels : Covered(i) => Covered(i)'
    BY <2>1, <2>3, <2>4 DEF Covered
  <2> QED BY <1>0, <2>1, <2>5 DEF CoveredInv
<1>3. ASSUME NEW g \in Groups, Delist(g) PROVE CoveredInv'
  <2>1. UNCHANGED <<rpc, link, ws_ready, active, call, replay>>
    BY <1>3 DEF Delist
  <2>2. \A i \in Channels : Telling("subscribe", i) => Telling("subscribe", i)'
    BY <2>1 DEF Telling
  <2>3. CASE server[g] # "on"
    <3>1. UNCHANGED <<inbox, server>>
      BY <1>3, <2>3 DEF Delist
    <3> QED BY <1>0, <2>1, <3>1 DEF CoveredInv, Covered, Telling, RemovalPending, Removed
  <2>4. CASE server[g] = "on"
    <3>1. inbox' = Append(inbox, Removed(g)) /\ server' = [server EXCEPT ![g] = "none"]
      BY <1>3, <2>4 DEF Delist, ServerSends
    <3>2. Removed(g) \in Frames
      BY DEF Frames
    <3>3. \A i \in Channels : RemovalPending(i) => RemovalPending(i)'
      BY <1>0, <3>1, <3>2, SendKeepsPending
    <3>4. RemovalPending(g)'
      <4>1. Len(inbox) + 1 \in DOMAIN inbox' /\ inbox'[Len(inbox) + 1] = Removed(g)
        BY <1>0, <3>1, <3>2
      <4> QED BY <4>1 DEF RemovalPending, Removed
    <3>5. \A i \in Channels \ {g} : server'[i] = server[i]
      BY <1>0, <3>1
    <3>6. \A i \in Channels : Covered(i) => Covered(i)'
      BY <2>1, <2>2, <3>3, <3>4, <3>5 DEF Covered
    <3> QED BY <1>0, <2>1, <3>6 DEF CoveredInv
  <2> QED BY <2>3, <2>4
<1> QED BY <1>1, <1>2, <1>3 DEF Environment

-----------------------------------------------------------------------------
(* Every step keeps the invariant.                                           *)
LEMMA InvStep == IInv /\ [Next]_vars => IInv'
<1> SUFFICES ASSUME IInv, [Next]_vars PROVE IInv'
  OBVIOUS
<1>1. CASE Next
  <2>1. TypeOK'
    BY <1>1, TypeCalls, TypeReader, TypeEnvironment DEF Next, IInv
  <2>2. LockInv' /\ CallInv'
    BY <1>1, LockCalls, LockReader, LockEnvironment DEF Next, IInv
  <2>3. OpenInv'
    BY <1>1, OpenStep DEF IInv
  <2>4. UnsubscribeInv'
    BY <1>1, UnsubscribeStep DEF IInv
  <2>5. CoveredInv'
    BY <1>1, CoveredCalls, CoveredOpen, CoveredReader, CoveredEnvironment DEF Next, ReaderStep
  <2> QED BY <2>1, <2>2, <2>3, <2>4, <2>5 DEF IInv
<1>2. CASE UNCHANGED vars
  <2> USE <1>2 DEF IInv, vars, manager, threads, reader, network, remote
  <2>1. TypeOK'
    BY DEF TypeOK
  <2>2. LockInv' /\ CallInv' /\ OpenInv' /\ UnsubscribeInv'
    BY DEF LockInv, SendsLocked, CallInv, OpenInv, UnsubscribeInv
  <2>3. CoveredInv'
    BY DEF CoveredInv, Covered, Telling, RemovalPending, Removed
  <2> QED BY <2>1, <2>2, <2>3
<1> QED BY <1>1, <1>2

(* IInv, the invariant that the properties below follow from: who holds the  *)
(* lock in which step, what _on_open still owes, and what the server knows   *)
(* agree in every reachable state.                                           *)
THEOREM Invariance == Spec => []IInv
BY InvInit, InvStep, PTL DEF Spec

(* NoLostSubscription: on a live, ready connection every registered          *)
(* identifier has been answered, is about to be sent, or is being removed.   *)
THEOREM SubscriptionsNotLost == Spec => []NoLostSubscription
<1>1. IInv => NoLostSubscription
  BY DEF IInv, CoveredInv, Covered, OpenInv, OpenStates, LiveStates, Live, NoLostSubscription
<1> QED BY <1>1, Invariance, PTL

(* NoSelfDeadlock: a thread that runs application code holds no lock.        *)
THEOREM CallbacksHoldNoLock == Spec => []NoSelfDeadlock
<1>1. IInv => NoSelfDeadlock
  BY DEF IInv, LockInv, SendsLocked, OpenStates, NoSelfDeadlock, Idle, NoCall
<1> QED BY <1>1, Invariance, PTL
=============================================================================
