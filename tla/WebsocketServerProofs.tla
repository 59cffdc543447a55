----------------------- MODULE WebsocketServerProofs -----------------------
(* Proofs of the properties of WebsocketManager that relate the client to    *)
(* the server at the other end of its connection: what it streams, which     *)
(* account it knows, and whether the client still sends.                     *)
EXTENDS WebsocketManagerProofs

(* A socket that is up belongs to a reader that has not noticed its loss,    *)
(* and a server without a connection has forgotten what it was told.         *)
LinkInv ==
    /\ rpc \in {"connect", "dropped", "sleep", "onClose", "done", "openFailed"} => link # "up"
    /\ link # "up" => auth_told = {} /\ \A i \in Channels : server[i] = "none"

(* A grouping that is gone is not streamed, nor is its removal announced     *)
(* before it is gone.                                                        *)
RemovedInv ==
    /\ \A i \in Channels : RemovalPending(i) => i \in Groups /\ i \notin listed
    /\ \A i \in Groups : i \notin listed => server[i] # "on"

(* Whoever is about to ask for a channel has a callback for it.              *)
WantedInv ==
    /\ \A t \in Threads : call[t].op = "subscribe" => active[call[t].on] # {}
    /\ \A i \in replay : active[i] # {}

(* Without authenticate calls sends are on from _on_open to the drop, and in *)
(* any case while something is being sent or streamed.                       *)
ReadyInv ==
    Accounts = {} =>
        /\ link = "up" /\ rpc \in OpenStates \cup LiveStates => ws_ready
        /\ \A t \in Threads : SendsLocked(t) => ws_ready
        /\ \A i \in Channels : server[i] = "on" => ws_ready

(* An unsubscribe is only left out while sends are off.                      *)
LeakInv == (Accounts = {} \/ ~SilentReconnect) /\ ws_ready => NoLeakedStream

(* If every drop is reported, _on_open starts on a connection that nobody    *)
(* has sent on.                                                              *)
FreshInv ==
    ~SilentReconnect =>
        /\ rpc \in {"sleep", "connect", "onOpen"} =>
              /\ ~ws_ready /\ (\A t \in Threads : ~SendsLocked(t))
              /\ \A i \in Channels : server[i] # "on"
        /\ NoDuplicateSubscribe

(* AccountTold, extended to _on_open once it has read the account.           *)
Pending(a) ==
    \E t \in Threads : call[t].op \in {"authTest", "authSend", "openAuth"} /\ call[t].on = a
AuthInv ==
    link = "up" /\ ws_ready /\ auth_account_id # None
        /\ rpc \in {"sendAuth", "replay"} \cup LiveStates
    => auth_account_id \in auth_told \/ Pending(auth_account_id)

SInv == IInv /\ LinkInv /\ RemovedInv /\ WantedInv /\ ReadyInv /\ LeakInv
            /\ FreshInv /\ AuthInv

(* The invariant holds at first.                                             *)
LEMMA ServerInit == Init => SInv
<1> SUFFICES ASSUME Init PROVE SInv
  OBVIOUS
<1>1. IInv
  BY InvInit
<1>2. \A t \in Threads : call[t].op = "none"
  BY DEF Init, NoCall
<1>3. /\ rpc = "connect" /\ replay = {} /\ link = "none" /\ inbox = <<>> /\ listed = Groups
      /\ auth_told = {} /\ auth_account_id = None /\ ~ws_ready
      /\ \A i \in Channels : server[i] = "none"
  BY DEF Init
<1> QED BY <1>1, <1>2, <1>3
        DEF SInv, LinkInv, RemovedInv, RemovalPending, WantedInv, LeakInv, NoLeakedStream,
            ReadyInv, FreshInv, SendsLocked, NoDuplicateSubscribe, AuthInv, OpenStates, LiveStates

-----------------------------------------------------------------------------
(* LinkInv.                                                                  *)
LEMMA LinkStep ==
    ASSUME SInv, Next
    PROVE  LinkInv'
<1> USE DEF LinkInv, OpenStates, LiveStates, manager, threads, reader, network, remote
<1>0. LinkInv /\ OpenInv
  BY DEF SInv, IInv
<1>1. ASSUME NEW t \in Threads, NEW o \in Outcomes,
             SendSubscribe(t, o) \/ SendUnsubscribe(t, o) \/ AuthSend(t, o)
      PROVE  LinkInv'
  BY <1>0, <1>1 DEF SendSubscribe, SendUnsubscribe, AuthSend, SendMay, ServerAfter, ToldAfter
<1>2. ASSUME NEW t \in Threads, AuthTest(t) \/ AuthClosed(t) PROVE LinkInv'
  BY <1>0, <1>2 DEF AuthTest, AuthClosed
<1>3. ASSUME NEW t \in Threads, NewCall(t) PROVE LinkInv'
  BY <1>0, <1>3 DEF NewCall, Subscribe, Unsubscribe, Authenticate, Stop, ServerForgets
<1>4. CASE OnOpen \/ OpenAuth \/ OpenDone
  BY <1>0, <1>4 DEF OnOpen, OpenAuth, OpenDone
<1>5. ASSUME NEW o \in Outcomes, SendOpenAuth(o) \/ \E i \in Channels : Replay(i, o)
      PROVE  LinkInv'
  BY <1>0, <1>5 DEF SendOpenAuth, Replay, OpenContinues, SendMay, ServerAfter, ToldAfter
<1>6. CASE ReadFails \/ OnError \/ NewSocket
  BY <1>0, <1>6 DEF ReadFails, OnError, NewSocket, AfterFailure
<1>7. CASE ReadStopped \/ OnClose
  BY <1>0, <1>7 DEF ReadStopped, OnClose, ServerForgets
<1>8. CASE OnData \/ OnGroupRemoved \/ OnErrorFrame \/ OnGarbledFrame
  BY <1>0, <1>8 DEF OnData, OnGroupRemoved, OnErrorFrame, OnGarbledFrame
<1>9. CASE (\E id \in todo : RunCallback(id)) \/ CallbackReturns \/ DispatchDone
  BY <1>0, <1>9 DEF RunCallback, CallbackReturns, DispatchDone
<1>10. CASE Connect
  BY <1>0, <1>10 DEF Connect
<1>11. CASE ConnectFails \/ ServerClose \/ Drop
  BY <1>0, <1>11 DEF ConnectFails, ServerClose, Drop, ServerForgets, AfterFailure
<1>12. CASE (\E c \in Targets : Push(c)) \/ (\E k \in {"error", "garbled"} : PushControl(k))
  BY <1>0, <1>12 DEF Push, PushControl, ServerSends
<1>13. ASSUME NEW g \in Groups, Delist(g) PROVE LinkInv'
  BY <1>0, <1>13, ChannelsAssumption DEF Delist, ServerSends
<1> QED BY <1>1, <1>2, <1>3, <1>4, <1>5, <1>6, <1>7, <1>8, <1>9, <1>10, <1>11, <1>12, <1>13
        DEF Next, CallStep, ReaderStep, Environment

-----------------------------------------------------------------------------
(* RemovedInv.                                                               *)

(* A removal that is announced after a step was announced before it, or the  *)
(* step announced it.                                                        *)
LEMMA PendingAfterRead ==
    ASSUME inbox \in Seq(Frames), inbox # <<>>, inbox' = Tail(inbox), NEW i, RemovalPending(i)'
    PROVE  RemovalPending(i)
<1>1. PICK k \in DOMAIN inbox' : inbox'[k] = Removed(i)
  BY DEF RemovalPending, Removed
<1>2. k + 1 \in DOMAIN inbox /\ inbox[k + 1] = Removed(i)
  BY <1>1
<1> QED BY <1>2 DEF RemovalPending

(* A removal is on its way after a send only if it was before, or is what    *)
(* was sent.                                                                 *)
LEMMA PendingAfterSend ==
    ASSUME inbox \in Seq(Frames), NEW f \in Frames, inbox' = Append(inbox, f),
           NEW i, RemovalPending(i)'
    PROVE  RemovalPending(i) \/ f = Removed(i)
<1>1. PICK k \in DOMAIN inbox' : inbox'[k] = Removed(i)
  BY DEF RemovalPending, Removed
<1>2. CASE k \in DOMAIN inbox
  BY <1>1, <1>2 DEF RemovalPending
<1>3. CASE k \notin DOMAIN inbox
  <2>1. k = Len(inbox) + 1
    BY <1>1, <1>3
  <2> QED BY <1>1, <2>1
<1> QED BY <1>2, <1>3

(* Only a sent subscribe makes the server stream a channel, one it offers.   *)
LEMMA StreamedStep ==
    ASSUME SInv, Next, NEW i \in Channels, server'[i] = "on", server[i] # "on"
    PROVE  /\ Offered(i) /\ link = "up"
           /\ UNCHANGED <<active, listed, link, inbox>>
           /\ \/ \E t \in Threads, o \in Outcomes : SendSubscribe(t, o) /\ call[t].on = i
              \/ \E o \in Outcomes : Replay(i, o)
<1> USE DEF manager, threads, reader, network, remote
<1>0. server \in [Channels -> {"none", "on", "refused"}]
  BY DEF SInv, IInv, TypeOK
<1>1. ASSUME NEW t \in Threads, NEW o \in Outcomes, SendSubscribe(t, o)
      PROVE  Offered(i) /\ link = "up" /\ UNCHANGED <<active, listed, link, inbox>> /\ call[t].on = i
  BY <1>0, <1>1 DEF SendSubscribe, ServerAfter, SendMay, Answer
<1>2. ASSUME NEW o \in Outcomes, NEW j \in Channels, Replay(j, o)
      PROVE  Offered(i) /\ link = "up" /\ UNCHANGED <<active, listed, link, inbox>> /\ j = i
  BY <1>0, <1>2 DEF Replay, ServerAfter, SendMay, Answer
<1>3. ~ \E t \in Threads, o \in Outcomes : SendUnsubscribe(t, o) \/ AuthSend(t, o)
  BY <1>0 DEF SendUnsubscribe, AuthSend, ServerAfter
<1>4. ~ \E t \in Threads : AuthTest(t) \/ AuthClosed(t) \/ NewCall(t)
  BY <1>0 DEF AuthTest, AuthClosed, NewCall, Subscribe, Unsubscribe, Authenticate, Stop, ServerForgets
<1>5. ~ (OnOpen \/ OpenAuth \/ OpenDone \/ \E o \in Outcomes : SendOpenAuth(o))
  BY DEF OnOpen, OpenAuth, OpenDone, SendOpenAuth
<1>6. ~ (ReadFails \/ OnError \/ NewSocket \/ ReadStopped \/ OnClose \/ Connect)
  BY DEF ReadFails, OnError, NewSocket, ReadStopped, OnClose, Connect, ServerForgets
<1>7. ~ \/ OnData \/ OnGroupRemoved \/ OnErrorFrame \/ OnGarbledFrame
        \/ (\E id \in todo : RunCallback(id)) \/ CallbackReturns \/ DispatchDone
  BY DEF OnData, OnGroupRemoved, OnErrorFrame, OnGarbledFrame, RunCallback, CallbackReturns, DispatchDone
<1>8. ~ Environment
  BY <1>0 DEF Environment, ConnectFails, ServerClose, Drop, ServerForgets, Push, PushControl, Delist
<1> QED BY <1>1, <1>2, <1>3, <1>4, <1>5, <1>6, <1>7, <1>8 DEF Next, CallStep, ReaderStep

(* A grouping that is no longer offered stays off or on its way to be        *)
(* forgotten.                                                                *)
LEMMA RemovedStep ==
    ASSUME SInv, Next
    PROVE  RemovedInv'
<1> USE DEF manager, threads, reader, network, remote
<1>0. RemovedInv /\ inbox \in Seq(Frames) /\ server \in [Channels -> {"none", "on", "refused"}]
  BY DEF SInv, IInv, TypeOK
<1>1. ASSUME NEW g \in Groups, Delist(g) PROVE RemovedInv'
  <2>1. listed' = listed \ {g} /\ g \in Channels
    BY <1>1, ChannelsAssumption DEF Delist
  <2>2. CASE server[g] = "on"
    <3>1. inbox' = Append(inbox, Removed(g)) /\ server' = [server EXCEPT ![g] = "none"]
      BY <1>1, <2>2 DEF Delist, ServerSends
    <3>2. Removed(g) \in Frames
      BY DEF Frames
    <3>3. \A i \in Channels : RemovalPending(i)' => RemovalPending(i) \/ Removed(g) = Removed(i)
      BY <1>0, <3>1, <3>2, PendingAfterSend
    <3>4. \A i \in Channels : Removed(g) = Removed(i) => i = g
      BY DEF Removed
    <3> QED BY <1>0, <2>1, <3>1, <3>3, <3>4 DEF RemovedInv
  <2>3. CASE server[g] # "on"
    <3>1. UNCHANGED <<inbox, server>>
      BY <1>1, <2>3 DEF Delist
    <3> QED BY <1>0, <2>1, <2>3, <3>1 DEF RemovedInv, RemovalPending, Removed
  <2> QED BY <2>2, <2>3
<1>2. ASSUME ~ \E g \in Groups : Delist(g) PROVE RemovedInv'
  <2>1. listed' = listed
    BY <1>2 DEF Next, CallStep, NewCall, ReaderStep, Environment, Subscribe, Unsubscribe,
                Authenticate, Stop, SendSubscribe, SendUnsubscribe, AuthSend, AuthTest, AuthClosed,
                OnOpen, OpenAuth, OpenDone, SendOpenAuth, Replay, ReadFails, OnError, NewSocket,
                ReadStopped, OnClose, OnData, OnGroupRemoved, OnErrorFrame, OnGarbledFrame,
                RunCallback, CallbackReturns, DispatchDone, Connect, ConnectFails, ServerClose,
                Drop, Push, PushControl
  <2>2. \A i \in Groups : i \notin listed => server'[i] # "on"
    BY <1>0, StreamedStep, ChannelsAssumption DEF RemovedInv, Offered
  <2>3. \/ inbox' = inbox
        \/ inbox' = <<>>
        \/ inbox # <<>> /\ inbox' = Tail(inbox)
        \/ \E c \in Targets : inbox' = Append(inbox, Data(c))
        \/ \E k \in {"error", "garbled"} : inbox' = Append(inbox, Control(k))
    BY <1>2 DEF Next, CallStep, NewCall, ReaderStep, Environment, Subscribe, Unsubscribe,
                Authenticate, Stop, SendSubscribe, SendUnsubscribe, AuthSend, AuthTest, AuthClosed,
                OnOpen, OpenAuth, OpenDone, SendOpenAuth, Replay, ReadFails, OnError, NewSocket,
                ReadStopped, OnClose, OnData, OnGroupRemoved, OnErrorFrame, OnGarbledFrame, Receive,
                RunCallback, CallbackReturns, DispatchDone, Connect, ConnectFails, ServerClose,
                Drop, Push, PushControl, ServerSends
  <2>4. \A i \in Channels : RemovalPending(i)' => RemovalPending(i)
    <3>1. CASE inbox' = inbox \/ inbox' = <<>>
      BY <3>1 DEF RemovalPending, Removed
    <3>2. CASE inbox # <<>> /\ inbox' = Tail(inbox)
      BY <1>0, <3>2, PendingAfterRead
    <3>3. ASSUME NEW c \in Targets, inbox' = Append(inbox, Data(c))
          PROVE  \A i \in Channels : RemovalPending(i)' => RemovalPending(i)
      <4>1. Data(c) \in Frames /\ \A i \in Channels : Data(c) # Removed(i)
        BY DEF Frames, Data, Removed
      <4> QED BY <1>0, <3>3, <4>1, PendingAfterSend
    <3>4. ASSUME NEW k \in {"error", "garbled"}, inbox' = Append(inbox, Control(k))
          PROVE  \A i \in Channels : RemovalPending(i)' => RemovalPending(i)
      <4>1. Control(k) \in Frames /\ \A i \in Channels : Control(k) # Removed(i)
        BY DEF Frames, Control, Removed
      <4> QED BY <1>0, <3>4, <4>1, PendingAfterSend
    <3> QED BY <2>3, <3>1, <3>2, <3>3, <3>4
  <2> QED BY <1>0, <2>1, <2>2, <2>4 DEF RemovedInv
<1> QED BY <1>1, <1>2

-----------------------------------------------------------------------------
(* WantedInv: callbacks are not taken away from a call or a replay that      *)
(* holds the lock.                                                           *)
LEMMA WantedStep ==
    ASSUME SInv, Next
    PROVE  WantedInv'
<1> Reader \in Threads /\ None \notin Threads
  BY ThreadsAssumption DEF Threads
<1> USE DEF WantedInv, manager, threads, reader, network, remote
<1>0. /\ WantedInv /\ OpenInv
      /\ call \in [Threads -> Calls] /\ active \in [Channels -> SUBSET Ids] /\ replay \subseteq Channels
  BY DEF SInv, IInv, TypeOK
<1>f. lock = None => replay = {} /\ \A t \in Threads : call[t].op # "subscribe"
  BY FreeLock DEF SInv, IInv, OpenInv, SendsLocked
<1>1. ASSUME NEW t \in Threads, NEW i \in Channels, Subscribe(t, i) PROVE WantedInv'
  <2>1. /\ active' = [active EXCEPT ![i] = @ \cup {id_counter + 1}] /\ replay' = replay /\ lock = None
        /\ call' = call \/ call' = [call EXCEPT ![t] = [op |-> "subscribe", on |-> i, id |-> id_counter + 1]]
    BY <1>1 DEF Subscribe, Begin
  <2>2. active'[i] # {} /\ replay' = {}
    BY <2>1, <1>0, <1>f
  <2>3. ASSUME NEW s \in Threads, call'[s].op = "subscribe" PROVE call'[s].on = i
    <3>1. call[s].op # "subscribe"
      BY <1>f, <2>1
    <3> QED BY <1>0, <2>1, <2>3, <3>1
  <2> QED BY <2>2, <2>3
<1>2. ASSUME NEW t \in Threads, NEW i \in Channels, NEW id \in Ids, Unsubscribe(t, i, id)
      PROVE  WantedInv'
  <2>1. /\ lock = None /\ replay' = replay
        /\ call' = call \/ call' = [call EXCEPT ![t] = [op |-> "unsubscribe", on |-> i, id |-> id]]
    BY <1>2 DEF Unsubscribe, Begin
  <2> QED BY <1>0, <1>f, <2>1
<1>3. ASSUME NEW t \in Threads,
             CallStep(t) \/ Stop(t) \/ \E a \in Accounts : Authenticate(t, a)
      PROVE  WantedInv'
  <2>1. UNCHANGED <<active, replay>>
    BY <1>3 DEF CallStep, SendSubscribe, SendUnsubscribe, AuthSend, AuthTest, AuthClosed, Stop, Authenticate
  <2>2. call' = call \/ (call'[t].op # "subscribe" /\ \A s \in Threads \ {t} : call'[s] = call[s])
    BY <1>0, <1>3 DEF CallStep, SendSubscribe, SendUnsubscribe, AuthSend, AuthTest, AuthClosed, Stop,
                      Authenticate, Begin, Return, NoCall
  <2> QED BY <1>0, <2>1, <2>2
<1>4. CASE OnOpen
  BY <1>0, <1>4 DEF OnOpen, ReplaySet
<1>5. CASE OpenAuth \/ \E o \in Outcomes : SendOpenAuth(o)
  <2>1. active' = active /\ replay' \subseteq replay
    BY <1>5 DEF OpenAuth, SendOpenAuth, OpenContinues
  <2>2. call' = call \/ (call'[Reader].op # "subscribe" /\ \A s \in Threads \ {Reader} : call'[s] = call[s])
    BY <1>0, <1>5 DEF OpenAuth, SendOpenAuth, Begin, Return, NoCall
  <2> QED BY <1>0, <2>1, <2>2
<1>6. ASSUME NEW o \in Outcomes, NEW i \in Channels, Replay(i, o) PROVE WantedInv'
  <2>1. UNCHANGED <<active, call>> /\ replay' \subseteq replay
    BY <1>6 DEF Replay, OpenContinues
  <2> QED BY <1>0, <2>1
<1>7. CASE OnGroupRemoved
  BY <1>f, <1>7 DEF OnGroupRemoved
<1>8. CASE \/ OpenDone \/ ReadFails \/ OnError \/ NewSocket \/ ReadStopped \/ OnClose
           \/ OnData \/ OnErrorFrame \/ OnGarbledFrame \/ CallbackReturns \/ DispatchDone
           \/ Connect \/ Environment \/ (\E id \in todo : RunCallback(id))
  <2>1. UNCHANGED <<active, call, replay>>
    BY <1>8 DEF OpenDone, ReadFails, OnError, NewSocket, ReadStopped, OnClose,
                OnData, OnErrorFrame, OnGarbledFrame, CallbackReturns, DispatchDone,
                Connect, Environment, RunCallback,
                ConnectFails, ServerClose, Drop, Push, PushControl, Delist
  <2> QED BY <1>0, <2>1
<1> QED BY <1>1, <1>2, <1>3, <1>4, <1>5, <1>6, <1>7, <1>8 DEF Next, NewCall, ReaderStep

-----------------------------------------------------------------------------
(* ReadyInv.                                                                 *)

(* What turns sends off is a send without a socket, a failure or a close     *)
(* that the reader handles while no call sends, or an authenticate call.     *)
LEMMA UnreadyStep ==
    ASSUME SInv, Next, Accounts = {}, ws_ready, ~ws_ready'
    PROVE  /\ link # "up" /\ link' # "up"
           /\ \A t \in Threads : ~SendsLocked(t)'
           /\ \A i \in Channels : server'[i] = "none"
<1> Reader \in Threads /\ None \notin Threads
  BY ThreadsAssumption DEF Threads
<1> USE DEF manager, threads, reader, network, remote
<1>0. LinkInv /\ LockInv /\ CallInv /\ call \in [Threads -> Calls] /\ LinkInv'
  BY LinkStep DEF SInv, IInv, TypeOK
<1>1. ASSUME NEW t \in Threads, NEW o \in Outcomes, SendSubscribe(t, o) \/ SendUnsubscribe(t, o)
      PROVE  link # "up" /\ link' # "up" /\ \A s \in Threads : ~SendsLocked(s)'
  <2>1. o = "closed" /\ link = "none" /\ link' = link
    BY <1>1 DEF SendSubscribe, SendUnsubscribe, ReadyAfterSend, SendMay
  <2>2. SendsLocked(t) /\ call' = [call EXCEPT ![t] = NoCall]
    BY <1>1 DEF SendSubscribe, SendUnsubscribe, Return, SendsLocked
  <2>3. \A s \in Threads : SendsLocked(s) => s = t
    BY <1>0, <2>2 DEF LockInv
  <2> QED BY <1>0, <2>1, <2>2, <2>3 DEF SendsLocked, NoCall
<1>2. ASSUME NEW o \in Outcomes, SendOpenAuth(o) \/ \E i \in Channels : Replay(i, o)
      PROVE  link # "up" /\ link' # "up" /\ \A s \in Threads : ~SendsLocked(s)'
  <2>1. o = "closed" /\ link = "none" /\ link' = link /\ rpc \in OpenStates
    BY <1>0, <1>2 DEF SendOpenAuth, Replay, ReadyAfterSend, SendMay, CallInv, OpenStates
  <2>2. \A s \in Threads : ~SendsLocked(s)
    BY <1>0, <2>1 DEF LockInv, CallInv, SendsLocked, OpenStates
  <2>3. call' = call \/ call' = [call EXCEPT ![Reader] = NoCall]
    BY <1>2 DEF SendOpenAuth, Replay, Return
  <2> QED BY <1>0, <2>1, <2>2, <2>3 DEF SendsLocked, NoCall
<1>4. ~ \E t \in Threads : AuthClosed(t)
  BY <1>0 DEF AuthClosed, Calls, NoCall
<1>5. ~ \E t \in Threads : (\E o \in Outcomes : AuthSend(t, o)) \/ AuthTest(t) \/ NewCall(t)
  BY DEF AuthSend, AuthTest, NewCall, Subscribe, Unsubscribe, Authenticate, Stop
<1>6. ~ \/ OnOpen \/ OpenAuth \/ OpenDone \/ ReadFails \/ NewSocket \/ ReadStopped
        \/ OnData \/ OnGroupRemoved \/ OnErrorFrame \/ OnGarbledFrame
        \/ (\E id \in todo : RunCallback(id)) \/ CallbackReturns \/ DispatchDone
        \/ Connect \/ Environment
  BY DEF OnOpen, OpenAuth, OpenDone, ReadFails, NewSocket, ReadStopped,
         OnData, OnGroupRemoved, OnErrorFrame, OnGarbledFrame, RunCallback, CallbackReturns,
         DispatchDone, Connect, Environment, ConnectFails, ServerClose, Drop, Push, PushControl, Delist
<1>7. link # "up" /\ link' # "up" /\ \A s \in Threads : ~SendsLocked(s)'
  <2>1. CASE OnError \/ OnClose
    <3>1. lock = None /\ link # "up" /\ UNCHANGED <<link, call>>
      BY <1>0, <2>1 DEF OnError, OnClose, StopsSends, LinkInv
    <3> QED BY <1>0, <3>1, FreeLock DEF SendsLocked
  <2> QED BY <1>1, <1>2, <1>4, <1>5, <1>6, <2>1 DEF Next, CallStep, ReaderStep
<1> QED BY <1>0, <1>7 DEF LinkInv

(* A send under the lock that was not under way is one that begins.          *)
LEMMA SendsStep ==
    ASSUME SInv, Next, NEW t \in Threads, SendsLocked(t)', call'[t] # call[t]
    PROVE  /\ lock = None /\ ws_ready /\ ws_ready' /\ UNCHANGED <<server, link>>
           /\ call'[t].op = "subscribe" => call'[t].on \in Channels /\ active[call'[t].on] = {}
<1> Reader \in Threads
  BY DEF Threads
<1> USE DEF SendsLocked, NoCall, manager, threads, reader, network, remote
<1>0. call \in [Threads -> Calls]
  BY DEF SInv, IInv, TypeOK
<1>1. ASSUME NEW s \in Threads, NEW i \in Channels, Subscribe(s, i)
      PROVE  /\ lock = None /\ ws_ready /\ ws_ready' /\ UNCHANGED <<server, link>>
             /\ call'[t].on = i /\ active[i] = {}
  BY <1>0, <1>1 DEF Subscribe, Begin, FirstForIdentifier
<1>2. ASSUME NEW s \in Threads, NEW i \in Channels, NEW id \in Ids, Unsubscribe(s, i, id)
      PROVE  /\ lock = None /\ ws_ready /\ ws_ready' /\ UNCHANGED <<server, link>>
             /\ call'[t].op = "unsubscribe"
  BY <1>0, <1>2 DEF Unsubscribe, Begin
<1>3. ~ \E s \in Threads : CallStep(s) \/ Stop(s) \/ \E a \in Accounts : Authenticate(s, a)
  <2>1. ASSUME NEW s \in Threads, CallStep(s) \/ Stop(s) \/ \E a \in Accounts : Authenticate(s, a)
        PROVE  call' = call \/ (~SendsLocked(s)' /\ \A r \in Threads \ {s} : call'[r] = call[r])
    BY <1>0, <2>1 DEF CallStep, SendSubscribe, SendUnsubscribe, AuthSend, AuthTest, AuthClosed, Stop,
                      Authenticate, Begin, Return
  <2> QED BY <2>1
<1>4. ~ (OpenAuth \/ \E o \in Outcomes : SendOpenAuth(o))
  <2>1. OpenAuth \/ (\E o \in Outcomes : SendOpenAuth(o))
          => call' = call \/ (~SendsLocked(Reader)' /\ \A r \in Threads \ {Reader} : call'[r] = call[r])
    BY <1>0 DEF OpenAuth, SendOpenAuth, Begin, Return
  <2> QED BY <2>1
<1>5. ~ \/ OnOpen \/ OpenDone \/ ReadFails \/ OnError \/ NewSocket \/ ReadStopped \/ OnClose
        \/ OnData \/ OnGroupRemoved \/ OnErrorFrame \/ OnGarbledFrame \/ CallbackReturns
        \/ DispatchDone \/ Connect \/ Environment \/ (\E id \in todo : RunCallback(id))
        \/ \E o \in Outcomes, i \in Channels : Replay(i, o)
  BY DEF OnOpen, OpenDone, ReadFails, OnError, NewSocket, ReadStopped, OnClose,
         OnData, OnErrorFrame, OnGarbledFrame, OnGroupRemoved, CallbackReturns, DispatchDone,
         Connect, Environment, RunCallback, Replay,
         ConnectFails, ServerClose, Drop, Push, PushControl, Delist
<1> QED BY <1>1, <1>2, <1>3, <1>4, <1>5 DEF Next, NewCall, ReaderStep

(* A connection becomes live through _on_open alone, and so do sends.        *)
LEMMA LiveStep ==
    ASSUME SInv, Next, link' = "up", rpc' \in OpenStates \cup LiveStates, ~OnOpen
    PROVE  link = "up" /\ rpc \in OpenStates \cup LiveStates
<1> USE DEF OpenStates, LiveStates, manager, threads, reader, network, remote
<1>0. LinkInv /\ CallInv /\ link' = "up"
  BY DEF SInv, IInv
<1>1. CASE \E t \in Threads : CallStep(t) \/ NewCall(t)
  BY <1>0, <1>1 DEF CallStep, NewCall, SendSubscribe, SendUnsubscribe, AuthSend, AuthTest, AuthClosed,
                    Subscribe, Unsubscribe, Authenticate, Stop
<1>2. CASE OpenAuth \/ OpenDone \/ \E o \in Outcomes : SendOpenAuth(o) \/ \E i \in Channels : Replay(i, o)
  <2>1. link' = link /\ rpc \in OpenStates
    BY <1>0, <1>2, ThreadsAssumption DEF OpenAuth, OpenDone, SendOpenAuth, Replay, CallInv, Threads
  <2> QED BY <1>0, <2>1
<1>3. CASE ReadFails \/ OnError \/ NewSocket \/ ReadStopped \/ OnClose \/ Connect
  BY <1>0, <1>3 DEF ReadFails, OnError, NewSocket, ReadStopped, OnClose, Connect, LinkInv, AfterFailure
<1>4. CASE \/ OnData \/ OnGroupRemoved \/ OnErrorFrame \/ OnGarbledFrame
           \/ (\E id \in todo : RunCallback(id)) \/ CallbackReturns \/ DispatchDone
  BY <1>0, <1>4 DEF OnData, OnErrorFrame, OnGarbledFrame, OnGroupRemoved, Receive, CallbackReturns,
                    DispatchDone, RunCallback
<1>5. CASE Environment
  BY <1>0, <1>5 DEF Environment, ConnectFails, ServerClose, Drop, Push, PushControl, Delist,
                    ServerSends, AfterFailure
<1> QED BY <1>1, <1>2, <1>3, <1>4, <1>5 DEF Next, ReaderStep

(* Only _on_open turns sends on.                                             *)
LEMMA NewlyReady ==
    ASSUME Next, ~ws_ready, ws_ready'
    PROVE  OnOpen
BY DEF Next, CallStep, NewCall, ReaderStep, Environment, Subscribe, Unsubscribe,
       Authenticate, Stop, SendSubscribe, SendUnsubscribe, AuthSend, AuthTest, AuthClosed,
       OnOpen, OpenAuth, OpenDone, SendOpenAuth, Replay, ReadyAfterSend, ReadFails, OnError, NewSocket,
       ReadStopped, OnClose, OnData, OnGroupRemoved, OnErrorFrame, OnGarbledFrame,
       RunCallback, CallbackReturns, DispatchDone, Connect, ConnectFails, ServerClose,
       Drop, Push, PushControl, Delist, manager, threads, reader, network, remote

(* Without authenticate, sends are off only where nothing could be sent.     *)
LEMMA ReadyStep ==
    ASSUME SInv, Next
    PROVE  ReadyInv'
<1> SUFFICES ASSUME Accounts = {}, ~ws_ready'
             PROVE  /\ ~ (link' = "up" /\ rpc' \in OpenStates \cup LiveStates)
                    /\ \A t \in Threads : ~SendsLocked(t)'
                    /\ \A i \in Channels : server'[i] # "on"
  BY DEF ReadyInv
<1>1. CASE ws_ready
  BY <1>1, UnreadyStep
<1>2. CASE ~ws_ready
  <2>0. ReadyInv
    BY DEF SInv
  <2>1. ~ (link' = "up" /\ rpc' \in OpenStates \cup LiveStates)
    <3>1. ~OnOpen
      BY DEF OnOpen
    <3> QED BY <1>2, <2>0, <3>1, LiveStep DEF ReadyInv
  <2>2. \A t \in Threads : ~SendsLocked(t)'
    BY <1>2, <2>0, SendsStep DEF ReadyInv, SendsLocked
  <2>3. ASSUME NEW i \in Channels, server'[i] = "on" PROVE FALSE
    <3>1. server[i] # "on" /\ ~ (link = "up" /\ rpc \in OpenStates) /\ \A t \in Threads : ~SendsLocked(t)
      BY <1>2, <2>0 DEF ReadyInv
    <3>2. /\ link = "up"
          /\ (\E t \in Threads, o \in Outcomes : SendSubscribe(t, o)) \/ (\E o \in Outcomes : Replay(i, o))
      BY <2>3, <3>1, StreamedStep
    <3> QED BY <3>1, <3>2 DEF SendSubscribe, Replay, SendsLocked, OpenStates
  <2> QED BY <2>1, <2>2, <2>3
<1> QED BY <1>1, <1>2

-----------------------------------------------------------------------------
(* LeakInv.                                                                  *)

(* The last callback of an identifier goes through an unsubscribe or with    *)
(* the grouping.                                                             *)
LEMMA UnwantedStep ==
    ASSUME SInv, Next, NEW i \in Channels, active[i] # {}, active'[i] = {}
    PROVE  \/ \E t \in Threads, id \in Ids : Unsubscribe(t, i, id) /\ LastForIdentifier(i, id)
           \/ OnGroupRemoved /\ i \in Head(inbox).to
<1> USE DEF manager, threads, reader, network, remote
<1>0. active \in [Channels -> SUBSET Ids]
  BY DEF SInv, IInv, TypeOK
<1>1. ASSUME NEW t \in Threads, NEW j \in Channels, NEW id \in Ids, Unsubscribe(t, j, id)
      PROVE  j = i /\ LastForIdentifier(i, id)
  <2>1. active' = [active EXCEPT ![j] = @ \ {id}]
    BY <1>1 DEF Unsubscribe
  <2>2. j = i
    BY <1>0, <2>1
  <2> QED BY <1>0, <2>1, <2>2 DEF LastForIdentifier
<1>2. ~ \E t \in Threads, j \in Channels : Subscribe(t, j)
  BY <1>0 DEF Subscribe
<1>3. OnGroupRemoved => i \in Head(inbox).to
  BY <1>0 DEF OnGroupRemoved
<1>4. ~ \/ \E t \in Threads : CallStep(t) \/ Stop(t) \/ \E a \in Accounts : Authenticate(t, a)
        \/ OnOpen \/ OpenAuth \/ OpenDone
        \/ (\E o \in Outcomes : SendOpenAuth(o) \/ \E j \in Channels : Replay(j, o))
        \/ ReadFails \/ OnError \/ NewSocket \/ ReadStopped \/ OnClose
        \/ OnData \/ OnErrorFrame \/ OnGarbledFrame \/ CallbackReturns
        \/ DispatchDone \/ Connect \/ Environment \/ (\E id \in todo : RunCallback(id))
  BY DEF CallStep, SendSubscribe, SendUnsubscribe, AuthSend, AuthTest, AuthClosed, Stop, Authenticate,
         OnOpen, OpenAuth, OpenDone, SendOpenAuth, Replay, ReadFails, OnError, NewSocket, ReadStopped,
         OnClose, OnData, OnErrorFrame, OnGarbledFrame, CallbackReturns, DispatchDone,
         Connect, Environment, RunCallback, ConnectFails, ServerClose, Drop, Push, PushControl, Delist
<1> QED BY <1>1, <1>2, <1>3, <1>4 DEF Next, NewCall, ReaderStep

(* A send under the lock ends where it is made, and leaves the server either *)
(* told or gone.                                                             *)
LEMMA SendEnds ==
    ASSUME SInv, Next, NEW t \in Threads, SendsLocked(t), call'[t] # call[t]
    PROVE  /\ \E o \in Outcomes : SendSubscribe(t, o) \/ SendUnsubscribe(t, o)
           /\ call[t].op = "unsubscribe" => server'[call[t].on] = "none"
<1> Reader \in Threads
  BY DEF Threads
<1> USE DEF SendsLocked, NoCall, manager, threads, reader, network, remote
<1>0. call \in [Threads -> Calls] /\ CallInv /\ LinkInv /\ server \in [Channels -> {"none", "on", "refused"}]
  BY DEF SInv, IInv, TypeOK
<1>1. ASSUME NEW s \in Threads, CallStep(s) \/ NewCall(s), s # t
      PROVE  FALSE
  BY <1>0, <1>1 DEF CallStep, NewCall, SendSubscribe, SendUnsubscribe, AuthSend, AuthTest, AuthClosed,
                    Subscribe, Unsubscribe, Authenticate, Stop, Begin, Return
<1>2. ~ (AuthTest(t) \/ AuthClosed(t) \/ NewCall(t) \/ \E o \in Outcomes : AuthSend(t, o))
  BY <1>0 DEF AuthTest, AuthClosed, AuthSend, NewCall, Subscribe, Unsubscribe, Authenticate, Stop, Idle
<1>3. ~ (OpenAuth \/ \E o \in Outcomes : SendOpenAuth(o))
  <2>1. t = Reader => rpc = "callback"
    BY <1>0 DEF CallInv
  <2> QED BY <1>0, <2>1 DEF OpenAuth, SendOpenAuth, Begin, Return, CallInv
<1>4. ~ \/ OnOpen \/ OpenDone \/ ReadFails \/ OnError \/ NewSocket \/ ReadStopped \/ OnClose
        \/ OnData \/ OnGroupRemoved \/ OnErrorFrame \/ OnGarbledFrame \/ CallbackReturns
        \/ DispatchDone \/ Connect \/ Environment \/ (\E id \in todo : RunCallback(id))
        \/ \E o \in Outcomes, i \in Channels : Replay(i, o)
  BY DEF OnOpen, OpenDone, ReadFails, OnError, NewSocket, ReadStopped, OnClose,
         OnData, OnErrorFrame, OnGarbledFrame, OnGroupRemoved, CallbackReturns, DispatchDone,
         Connect, Environment, RunCallback, Replay,
         ConnectFails, ServerClose, Drop, Push, PushControl, Delist
<1>5. \E o \in Outcomes : SendSubscribe(t, o) \/ SendUnsubscribe(t, o)
  BY <1>1, <1>2, <1>3, <1>4 DEF Next, CallStep, ReaderStep
<1>6. ASSUME NEW o \in Outcomes, SendUnsubscribe(t, o) PROVE server'[call[t].on] = "none"
  <2>1. call[t].on \in Channels
    BY <1>0, <1>6 DEF SendUnsubscribe, Calls
  <2>2. CASE o = "sent"
    BY <1>0, <1>6, <2>1, <2>2 DEF SendUnsubscribe, ServerAfter
  <2>3. CASE o # "sent"
    <3>1. link # "up" /\ server' = server
      BY <1>6, <2>3 DEF SendUnsubscribe, SendMay, ServerAfter
    <3> QED BY <1>0, <2>1, <3>1 DEF LinkInv
  <2> QED BY <2>2, <2>3
<1> QED BY <1>5, <1>6 DEF SendSubscribe

(* What the server streams is wanted, or the unsubscribe is on its way.      *)
LEMMA LeakStep ==
    ASSUME SInv, Next
    PROVE  LeakInv'
<1>0. /\ LeakInv /\ ReadyInv /\ FreshInv /\ WantedInv /\ RemovedInv
      /\ call \in [Threads -> Calls] /\ active \in [Channels -> SUBSET Ids]
  BY DEF SInv, IInv, TypeOK
<1> SUFFICES ASSUME Accounts = {} \/ ~SilentReconnect, ws_ready',
                    NEW i \in Channels, server'[i] = "on"
             PROVE  active'[i] # {} \/ Telling("unsubscribe", i)'
  BY DEF LeakInv, NoLeakedStream
<1>1. CASE server[i] # "on"
  <2>1. active' = active
    BY <1>1, StreamedStep
  <2>2. active[i] # {}
    BY <1>0, <1>1, StreamedStep DEF WantedInv, SendSubscribe, Replay
  <2> QED BY <2>1, <2>2
<1>2. CASE server[i] = "on"
  <2>1. ws_ready
    <3>1. ~ws_ready => OnOpen
      BY NewlyReady
    <3> QED BY <1>0, <1>2, <3>1 DEF ReadyInv, FreshInv, OnOpen
  <2>2. active[i] # {} \/ Telling("unsubscribe", i)
    BY <1>0, <1>2, <2>1 DEF LeakInv, NoLeakedStream
  <2>3. CASE active[i] # {} /\ active'[i] = {}
    <3>1. ASSUME NEW t \in Threads, NEW id \in Ids, Unsubscribe(t, i, id), LastForIdentifier(i, id)
          PROVE  Telling("unsubscribe", i)'
      <4>1. call' = [call EXCEPT ![t] = [op |-> "unsubscribe", on |-> i, id |-> id]]
        BY <2>1, <3>1 DEF Unsubscribe, Begin
      <4> QED BY <1>0, <4>1 DEF Telling
    <3>2. ASSUME OnGroupRemoved, i \in Head(inbox).to PROVE FALSE
      <4>1. Head(inbox).kind = "removed" /\ Head(inbox) \in Frames /\ inbox # <<>> /\ inbox \in Seq(Frames)
        BY <3>2 DEF OnGroupRemoved, Receive, SInv, IInv, TypeOK
      <4>2. Head(inbox) = Removed(i)
        BY <3>2, <4>1 DEF Frames, Data, Removed, Control
      <4>3. RemovalPending(i)
        <5>1. 1 \in DOMAIN inbox /\ inbox[1] = Removed(i)
          BY <4>1, <4>2
        <5> QED BY <5>1 DEF RemovalPending
      <4> QED BY <1>0, <1>2, <4>3 DEF RemovedInv
    <3> QED BY <2>3, <3>1, <3>2, UnwantedStep
  <2>4. CASE Telling("unsubscribe", i)
    <3>1. PICK t \in Threads : call[t].op = "unsubscribe" /\ call[t].on = i
      BY <2>4 DEF Telling
    <3>2. call'[t] = call[t]
      BY <3>1, SendEnds DEF SendsLocked
    <3> QED BY <3>1, <3>2 DEF Telling
  <2> QED BY <2>2, <2>3, <2>4
<1> QED BY <1>1, <1>2

-----------------------------------------------------------------------------
(* FreshInv.                                                                 *)

(* With every drop reported, the way to a new connection leads through       *)
(* _on_error or _on_close.                                                   *)
LEMMA FreshOpen ==
    ASSUME SInv, Next, ~SilentReconnect, rpc' \in {"sleep", "connect", "onOpen"}
    PROVE  /\ ~ws_ready' /\ (\A t \in Threads : ~SendsLocked(t)')
           /\ \A i \in Channels : server'[i] # "on"
<1> USE DEF OpenStates, manager, threads, reader, network, remote
<1>0. FreshInv /\ LinkInv /\ LockInv
  BY DEF SInv, IInv
<1>1. CASE rpc \in {"sleep", "connect", "onOpen"}
  <2>0. ~ws_ready /\ (\A t \in Threads : ~SendsLocked(t)) /\ \A i \in Channels : server[i] # "on"
    BY <1>0, <1>1 DEF FreshInv
  <2>1. ~ws_ready'
    BY <2>0, NewlyReady DEF OnOpen
  <2>2. \A t \in Threads : ~SendsLocked(t)'
    BY <2>0, SendsStep DEF SendsLocked
  <2>3. ASSUME NEW i \in Channels, server'[i] = "on" PROVE FALSE
    <3>1. (\E t \in Threads, o \in Outcomes : SendSubscribe(t, o)) \/ (\E o \in Outcomes : Replay(i, o))
      BY <2>0, <2>3, StreamedStep
    <3> QED BY <1>1, <2>0, <3>1 DEF SendSubscribe, Replay, SendsLocked
  <2> QED BY <2>1, <2>2, <2>3
<1>2. CASE rpc \notin {"sleep", "connect", "onOpen"}
  <2>1. OnClose \/ (OnError /\ rpc = "dropped")
    <3>1. AfterFailure = {"dropped"}
      BY DEF AfterFailure
    <3>2. ~ \E t \in Threads : CallStep(t) \/ NewCall(t)
      BY <1>2 DEF CallStep, NewCall, SendSubscribe, SendUnsubscribe, AuthSend, AuthTest, AuthClosed,
                  Subscribe, Unsubscribe, Authenticate, Stop
    <3>3. ~ (OnOpen \/ OpenAuth \/ OpenDone
             \/ \E o \in Outcomes : SendOpenAuth(o) \/ \E i \in Channels : Replay(i, o))
      BY DEF OnOpen, OpenAuth, OpenDone, SendOpenAuth, Replay, OpenContinues
    <3>4. ~ (ReadFails \/ NewSocket \/ ReadStopped \/ Connect \/ Environment)
      BY <1>2, <3>1 DEF ReadFails, NewSocket, ReadStopped, Connect, Environment, ConnectFails,
                        ServerClose, Drop, Push, PushControl, Delist
    <3>5. ~ \/ OnData \/ OnGroupRemoved \/ OnErrorFrame \/ OnGarbledFrame \/ CallbackReturns
            \/ DispatchDone \/ \E id \in todo : RunCallback(id)
      BY DEF OnData, OnErrorFrame, OnGarbledFrame, OnGroupRemoved, CallbackReturns, DispatchDone, RunCallback
    <3>6. OnError => rpc = "dropped"
      BY DEF OnError
    <3> QED BY <3>2, <3>3, <3>4, <3>5, <3>6 DEF Next, ReaderStep
  <2>2. lock = None /\ link # "up" /\ ~ws_ready' /\ UNCHANGED <<call, server>>
    BY <1>0, <2>1 DEF OnClose, OnError, StopsSends, LinkInv
  <2> QED BY <1>0, <2>2, FreeLock DEF LinkInv, SendsLocked
<1> QED BY <1>1, <1>2

(* What is about to be asked for is not streamed yet.                        *)
LEMMA FreshStep ==
    ASSUME SInv, Next
    PROVE  FreshInv'
<1> Reader \in Threads /\ None \notin Threads
  BY ThreadsAssumption DEF Threads
<1>0. /\ FreshInv /\ LeakInv /\ LinkInv /\ LockInv /\ CallInv /\ OpenInv
      /\ call \in [Threads -> Calls]
  BY DEF SInv, IInv, TypeOK
<1> SUFFICES ASSUME ~SilentReconnect, link' = "up" PROVE NoDuplicateSubscribe'
  BY FreshOpen DEF FreshInv, NoDuplicateSubscribe
<1>1. ASSUME NEW t \in Threads, call'[t].op = "subscribe", server'[call'[t].on] = "on" PROVE FALSE
  <2>1. CASE call'[t] # call[t]
    <3>1. /\ lock = None /\ ws_ready /\ server' = server
          /\ call'[t].on \in Channels /\ active[call'[t].on] = {}
      BY <1>1, <2>1, SendsStep DEF SendsLocked
    <3>2. Telling("unsubscribe", call'[t].on)
      BY <1>0, <1>1, <3>1 DEF LeakInv, NoLeakedStream
    <3> QED BY <1>0, <3>1, <3>2, FreeLock DEF Telling, SendsLocked
  <2>2. CASE call'[t] = call[t]
    <3>1. call[t].op = "subscribe" /\ call[t].on \in Channels /\ lock = t
      BY <1>0, <1>1, <2>2 DEF Calls, NoCall, LockInv, SendsLocked
    <3>2. server[call[t].on] # "on"
      BY <1>0, <3>1 DEF FreshInv, NoDuplicateSubscribe, LinkInv
    <3>3. \/ \E s \in Threads, o \in Outcomes : SendSubscribe(s, o)
          \/ \E o \in Outcomes : Replay(call[t].on, o)
      BY <1>1, <2>2, <3>1, <3>2, StreamedStep
    <3>4. ASSUME NEW s \in Threads, NEW o \in Outcomes, SendSubscribe(s, o) PROVE FALSE
      <4>1. s = t
        BY <1>0, <3>1, <3>4 DEF SendSubscribe, LockInv, SendsLocked
      <4> QED BY <1>0, <2>2, <3>1, <3>4, <4>1 DEF SendSubscribe, Return, NoCall
    <3>5. ~ \E o \in Outcomes : Replay(call[t].on, o)
      BY <1>0, <3>1 DEF Replay, LockInv, CallInv, OpenStates
    <3> QED BY <3>3, <3>4, <3>5
  <2> QED BY <2>1, <2>2
<1>2. ASSUME NEW i \in replay', server'[i] = "on" PROVE FALSE
  <2>1. i \in replay \/ (OnOpen /\ i \in Channels)
    BY <1>2 DEF Next, CallStep, NewCall, ReaderStep, Environment, Subscribe, Unsubscribe,
                Authenticate, Stop, SendSubscribe, SendUnsubscribe, AuthSend, AuthTest, AuthClosed,
                OnOpen, ReplaySet, OpenAuth, OpenDone, SendOpenAuth, Replay, OpenContinues,
                ReadFails, OnError, NewSocket,
                ReadStopped, OnClose, OnData, OnGroupRemoved, OnErrorFrame, OnGarbledFrame,
                RunCallback, CallbackReturns, DispatchDone, Connect, ConnectFails, ServerClose,
                Drop, Push, PushControl, Delist, manager, threads, reader, network, remote
  <2>2. CASE OnOpen /\ i \in Channels
    BY <1>0, <1>2, <2>2 DEF FreshInv, OnOpen, remote
  <2>3. CASE i \in replay
    <3>1. i \in Channels /\ rpc \in OpenStates /\ lock = Reader
      BY <1>0, <2>3 DEF SInv, IInv, TypeOK, OpenInv, LockInv
    <3>2. server[i] # "on"
      BY <1>0, <2>3, <3>1 DEF FreshInv, NoDuplicateSubscribe, LinkInv
    <3>3. \/ \E s \in Threads, o \in Outcomes : SendSubscribe(s, o)
          \/ \E o \in Outcomes : Replay(i, o)
      BY <1>2, <3>1, <3>2, StreamedStep
    <3>4. ~ \E s \in Threads, o \in Outcomes : SendSubscribe(s, o)
      BY <1>0, <3>1 DEF SendSubscribe, LockInv, SendsLocked, CallInv, OpenStates
    <3>5. ~ \E o \in Outcomes : Replay(i, o)
      BY <1>2 DEF Replay, OpenContinues
    <3> QED BY <3>3, <3>4, <3>5
  <2> QED BY <2>1, <2>2, <2>3
<1> QED BY <1>1, <1>2 DEF NoDuplicateSubscribe

-----------------------------------------------------------------------------
(* AuthInv.                                                                  *)

(* On a connection that stays up an account is not forgotten, and one that   *)
(* is about to be sent is sent.                                              *)
LEMMA AnnouncedStep ==
    ASSUME SInv, Next, link = "up", link' = "up", ws_ready,
           NEW a \in Accounts, a \in auth_told \/ Pending(a)
    PROVE  a \in auth_told' \/ Pending(a)'
<1> Reader \in Threads
  BY DEF Threads
<1> USE DEF Pending, NoCall, manager, threads, reader, network, remote
<1>0. call \in [Threads -> Calls] /\ CallInv
  BY DEF SInv, IInv, TypeOK
<1>1. ASSUME NEW t \in Threads, NEW o \in Outcomes, AuthSend(t, o) PROVE a \in auth_told' \/ Pending(a)'
  <2>1. auth_told' = auth_told \cup {call[t].on}
    BY <1>1 DEF AuthSend, SendMay, ToldAfter
  <2>2. \A s \in Threads \ {t} : call'[s] = call[s]
    BY <1>0, <1>1 DEF AuthSend, SendMay, Begin, Return
  <2> QED BY <2>1, <2>2
<1>2. ASSUME NEW t \in Threads, AuthTest(t) PROVE a \in auth_told' \/ Pending(a)'
  <2>1. call' = [call EXCEPT ![t] = [op |-> "authSend", on |-> call[t].on, id |-> 0]] /\ auth_told' = auth_told
    BY <1>2 DEF AuthTest, Begin
  <2>2. call'[t].op = "authSend" /\ call'[t].on = call[t].on
    BY <1>0, <2>1
  <2>3. \A s \in Threads \ {t} : call'[s] = call[s]
    BY <1>0, <2>1
  <2> QED BY <2>1, <2>2, <2>3
<1>3. ASSUME NEW o \in Outcomes, SendOpenAuth(o) PROVE a \in auth_told' \/ Pending(a)'
  <2>1. auth_told' = auth_told \cup {call[Reader].on}
    BY <1>3 DEF SendOpenAuth, SendMay, ToldAfter
  <2>2. \A s \in Threads \ {Reader} : call'[s] = call[s]
    BY <1>0, <1>3 DEF SendOpenAuth, Return
  <2> QED BY <2>1, <2>2
<1>4. ASSUME NEW t \in Threads, NewCall(t) \/ AuthClosed(t)
                 \/ \E o \in Outcomes : SendSubscribe(t, o) \/ SendUnsubscribe(t, o)
      PROVE  a \in auth_told' \/ Pending(a)'
  <2>1. CASE NewCall(t)
    <3>0. Idle(t) /\ ~Stop(t)
      BY <2>1 DEF NewCall, Subscribe, Unsubscribe, Authenticate, Stop
    <3>1. auth_told' = auth_told
      BY <2>1, <3>0 DEF NewCall, Subscribe, Unsubscribe, Authenticate
    <3>2. call[t].op = "none"
      BY <3>0 DEF Idle
    <3>3. \A s \in Threads \ {t} : call'[s] = call[s]
      BY <1>0, <2>1 DEF NewCall, Subscribe, Unsubscribe, Authenticate, Stop, Begin
    <3> QED BY <3>1, <3>2, <3>3
  <2>2. CASE AuthClosed(t) \/ \E o \in Outcomes : SendSubscribe(t, o) \/ SendUnsubscribe(t, o)
    <3>1. auth_told' = auth_told /\ call[t].op \notin {"authTest", "authSend", "openAuth"}
      BY <2>2 DEF AuthClosed, SendSubscribe, SendUnsubscribe
    <3>2. \A s \in Threads \ {t} : call'[s] = call[s]
      BY <1>0, <2>2 DEF AuthClosed, SendSubscribe, SendUnsubscribe, Return
    <3> QED BY <3>1, <3>2
  <2> QED BY <1>4, <2>1, <2>2
<1>5. CASE OpenAuth
  <2>1. auth_told' = auth_told /\ call[Reader].op \notin {"authTest", "authSend", "openAuth"}
    BY <1>0, <1>5 DEF OpenAuth, CallInv
  <2>2. \A s \in Threads \ {Reader} : call'[s] = call[s]
    BY <1>0, <1>5 DEF OpenAuth, Begin
  <2> QED BY <2>1, <2>2
<1>6. CASE \/ OnOpen \/ OpenDone \/ ReadFails \/ OnError \/ NewSocket \/ ReadStopped \/ OnClose
           \/ OnData \/ OnGroupRemoved \/ OnErrorFrame \/ OnGarbledFrame \/ CallbackReturns
           \/ DispatchDone \/ Connect \/ Environment \/ (\E id \in todo : RunCallback(id))
           \/ \E o \in Outcomes, i \in Channels : Replay(i, o)
  <2>1. UNCHANGED <<auth_told, call>>
    BY <1>6 DEF Environment, OnOpen, OpenDone, Replay, ReadFails, OnError, NewSocket,
         ReadStopped, OnClose, OnData, OnGroupRemoved, OnErrorFrame, OnGarbledFrame,
         RunCallback, CallbackReturns, DispatchDone, Connect, ConnectFails, ServerClose,
         Drop, Push, PushControl, Delist
  <2> QED BY <2>1
<1> QED BY <1>1, <1>2, <1>3, <1>4, <1>5, <1>6 DEF Next, CallStep, ReaderStep

(* The server has the account that was stored last, or somebody is about to  *)
(* send it.                                                                  *)
LEMMA AuthStep ==
    ASSUME SInv, Next
    PROVE  AuthInv'
<1> Reader \in Threads /\ None \notin Accounts
  BY ChannelsAssumption DEF Threads
<1>0. /\ AuthInv /\ call \in [Threads -> Calls] /\ CallInv /\ LinkInv
      /\ auth_account_id \in Accounts \cup {None}
  BY DEF SInv, IInv, TypeOK
<1> SUFFICES ASSUME link' = "up", ws_ready', auth_account_id' # None,
                    rpc' \in {"sendAuth", "replay"} \cup LiveStates
             PROVE  auth_account_id' \in auth_told' \/ Pending(auth_account_id)'
  BY DEF AuthInv
<1> USE DEF manager, threads, reader, network, remote
<1>1. link = "up" /\ ws_ready /\ rpc \in OpenStates \cup LiveStates
  <2>1. ~OnOpen
    BY DEF OnOpen, LiveStates
  <2> QED BY <2>1, LiveStep, NewlyReady DEF OpenStates
<1>2. CASE \E t \in Threads, a \in Accounts : Authenticate(t, a)
  BY <1>0, <1>2 DEF Authenticate, Begin, Pending
<1>3. CASE OpenAuth
  <2>1. auth_account_id' = auth_account_id
    BY <1>3 DEF OpenAuth
  <2>2. call' = [call EXCEPT ![Reader] = [op |-> "openAuth", on |-> auth_account_id, id |-> 0]]
    BY <1>3, <2>1 DEF OpenAuth, AccountToReplay, Begin
  <2>3. call'[Reader].op = "openAuth" /\ call'[Reader].on = auth_account_id'
    BY <1>0, <2>1, <2>2
  <2> QED BY <2>3 DEF Pending
<1>4. CASE ~OpenAuth /\ ~ \E t \in Threads, a \in Accounts : Authenticate(t, a)
  <2>0. auth_account_id' = auth_account_id
    BY <1>4 DEF Next, CallStep, NewCall, ReaderStep, Environment, Subscribe, Unsubscribe,
         Stop, SendSubscribe, SendUnsubscribe, AuthSend, AuthTest, AuthClosed,
         OnOpen, SendOpenAuth, OpenDone, Replay, ReadFails, OnError, NewSocket,
         ReadStopped, OnClose, OnData, OnGroupRemoved, OnErrorFrame, OnGarbledFrame,
         RunCallback, CallbackReturns, DispatchDone, Connect, ConnectFails, ServerClose,
         Drop, Push, PushControl, Delist
  <2>1. rpc \in {"sendAuth", "replay"} \cup LiveStates
    <3>1. ASSUME rpc = "openAuth" PROVE FALSE
      <4>1. ~ \E t \in Threads : CallStep(t) \/ NewCall(t)
        BY <3>1 DEF CallStep, NewCall, SendSubscribe, SendUnsubscribe, AuthSend, AuthTest, AuthClosed,
                    Subscribe, Unsubscribe, Authenticate, Stop, LiveStates
      <4>2. ~ \E o \in Outcomes : SendOpenAuth(o)
        BY <1>0, <3>1 DEF SendOpenAuth, CallInv
      <4>3. ~ ((\E o \in Outcomes, i \in Channels : Replay(i, o)) \/ OnOpen \/ OpenDone
               \/ ReadFails \/ OnError \/ NewSocket \/ ReadStopped \/ OnClose
               \/ OnData \/ OnGroupRemoved \/ OnErrorFrame \/ OnGarbledFrame \/ CallbackReturns
               \/ DispatchDone \/ Connect \/ \E id \in todo : RunCallback(id))
        BY <3>1 DEF OnOpen, OpenDone, Replay, ReadFails, OnError, NewSocket,
               ReadStopped, OnClose, OnData, OnGroupRemoved, OnErrorFrame, OnGarbledFrame, Receive,
               RunCallback, CallbackReturns, DispatchDone, Connect
      <4>4. ~Environment
        BY <3>1 DEF Environment, ConnectFails, ServerClose, Drop, Push, PushControl, Delist, LiveStates
      <4> QED BY <1>4, <4>1, <4>2, <4>3, <4>4 DEF Next, ReaderStep
    <3> QED BY <1>1, <3>1 DEF OpenStates
  <2>2. auth_account_id \in auth_told \/ Pending(auth_account_id)
    BY <1>0, <1>1, <2>0, <2>1 DEF AuthInv
  <2>3. auth_account_id \in Accounts
    BY <1>0, <2>0
  <2>4. auth_account_id \in auth_told' \/ \E t \in Threads :
            call'[t].op \in {"authTest", "authSend", "openAuth"} /\ call'[t].on = auth_account_id
    BY <1>1, <2>2, <2>3, AnnouncedStep DEF Pending
  <2> QED BY <2>0, <2>4 DEF Pending
<1> QED BY <1>2, <1>3, <1>4

-----------------------------------------------------------------------------
(* Every step keeps the invariant.                                           *)
LEMMA ServerStep == SInv /\ [Next]_vars => SInv'
<1> SUFFICES ASSUME SInv, [Next]_vars PROVE SInv'
  OBVIOUS
<1>1. IInv'
  BY InvStep DEF SInv
<1>2. CASE Next
  BY <1>1, <1>2, LinkStep, RemovedStep, WantedStep, ReadyStep, LeakStep, FreshStep, AuthStep DEF SInv
<1>3. CASE UNCHANGED vars
  <2> USE <1>3 DEF SInv, vars, manager, threads, reader, network, remote
  <2>1. LinkInv' /\ WantedInv'
    BY DEF LinkInv, WantedInv
  <2>2. RemovedInv'
    BY DEF RemovedInv, RemovalPending, Removed
  <2>3. ReadyInv' /\ FreshInv'
    BY DEF ReadyInv, FreshInv, SendsLocked, NoDuplicateSubscribe
  <2>4. LeakInv'
    BY DEF LeakInv, NoLeakedStream, Telling
  <2>5. AuthInv'
    BY DEF AuthInv, Pending
  <2> QED BY <1>1, <2>1, <2>2, <2>3, <2>4, <2>5
<1> QED BY <1>2, <1>3

(* SInv: what the client registered and was told, and what the server        *)
(* streams and was told, agree in every reachable state.                     *)
THEOREM ServerInvariance == Spec => []SInv
BY ServerInit, ServerStep, PTL DEF Spec

(* LiveConnectionReady: while nobody calls authenticate, sends are never off *)
(* on a live connection.                                                     *)
THEOREM LiveConnectionsReady == Accounts = {} => (Spec => []LiveConnectionReady)
<1> SUFFICES ASSUME Accounts = {} PROVE Spec => []LiveConnectionReady
  OBVIOUS
<1>1. SInv => LiveConnectionReady
  BY DEF SInv, ReadyInv, Live, LiveConnectionReady
<1> QED BY <1>1, ServerInvariance, PTL

(* NoLeakedStream: while nobody calls authenticate, the server streams only  *)
(* what some callback wants.                                                 *)
THEOREM StreamsNotLeaked == Accounts = {} => (Spec => []NoLeakedStream)
<1> SUFFICES ASSUME Accounts = {} PROVE Spec => []NoLeakedStream
  OBVIOUS
<1>1. SInv => NoLeakedStream
  <2> SUFFICES ASSUME SInv, NEW i \in Channels, server[i] = "on"
               PROVE  active[i] # {} \/ Telling("unsubscribe", i)
    BY DEF NoLeakedStream
  <2> QED BY DEF SInv, ReadyInv, LeakInv, NoLeakedStream
<1> QED BY <1>1, ServerInvariance, PTL

(* NoDuplicateSubscribe: if run_forever reports every drop, no channel is    *)
(* asked for twice on one connection.                                        *)
THEOREM SubscribesNotDuplicated == ~SilentReconnect => (Spec => []NoDuplicateSubscribe)
<1> SUFFICES ASSUME ~SilentReconnect PROVE Spec => []NoDuplicateSubscribe
  OBVIOUS
<1>1. SInv => NoDuplicateSubscribe
  BY DEF SInv, FreshInv
<1> QED BY <1>1, ServerInvariance, PTL

(* AccountTold: however many accounts are stored by however many threads,    *)
(* and however authenticate interleaves with drops and with the replay, the  *)
(* account stored last has been announced or is about to be.                 *)
THEOREM LastAccountTold == Spec => []AccountTold
<1>1. SInv => AccountTold
  <2> SUFFICES ASSUME SInv, Live, ws_ready, auth_account_id # None
               PROVE  auth_account_id \in auth_told \/ Announcing(auth_account_id)
    BY DEF AccountTold
  <2>1. auth_account_id \in auth_told \/ Pending(auth_account_id)
    BY DEF SInv, AuthInv, Live
  <2>2. \A t \in Threads : call[t].op # "openAuth"
    BY DEF SInv, IInv, CallInv, Live, LiveStates
  <2> QED BY <2>1, <2>2 DEF Pending, Announcing
<1> QED BY <1>1, ServerInvariance, PTL
=============================================================================
