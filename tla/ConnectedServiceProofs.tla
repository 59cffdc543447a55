----------------------- MODULE ConnectedServiceProofs -----------------------
(* WebsocketManager implements ConnectedService, for every value of the      *)
(* constants; and a quiet connection streams exactly what is registered.     *)
EXTENDS WebsocketServerProofs

(* An id that was handed out is at most _id_counter, and a callback is       *)
(* registered under one identifier.                                          *)
IdsInv ==
    /\ returned \subseteq 1 .. id_counter
    /\ \A t \in Threads : call[t].op = "subscribe" => call[t].id \in 1 .. id_counter
    /\ \A i \in Channels : active[i] \subseteq 1 .. id_counter
    /\ \A i, j \in Channels : \A id \in active[i] : id \in active[j] => i = j

(* The server refuses only what it does not offer, and never offers it again.*)
RefusedInv == \A i \in Channels : server[i] = "refused" => ~Offered(i)

RInv == SInv /\ IdsInv /\ RefusedInv

-----------------------------------------------------------------------------
(* Every step keeps ids unique.                                              *)
LEMMA IdsStep ==
    ASSUME SInv, IdsInv, Next
    PROVE  IdsInv'
<1> USE DEF manager, threads, reader, network, remote
<1>0. /\ call \in [Threads -> Calls] /\ active \in [Channels -> SUBSET Ids]
      /\ id_counter \in Nat
  BY BoundsAssumption DEF SInv, IInv, TypeOK
<1>1. ASSUME NEW t \in Threads, NEW i \in Channels, Subscribe(t, i) PROVE IdsInv'
  <2> DEFINE new == id_counter + 1
  <2>1. /\ id_counter' = new /\ active' = [active EXCEPT ![i] = @ \cup {new}]
        /\ returned' \subseteq returned \cup {new}
        /\ call' = call \/ call' = [call EXCEPT ![t] = [op |-> "subscribe", on |-> i, id |-> new]]
    BY <1>1 DEF Subscribe, Begin
  <2>2. new \in 1 .. id_counter' /\ new \notin 1 .. id_counter /\ 1 .. id_counter \subseteq 1 .. id_counter'
    BY <1>0, <2>1
  <2> HIDE DEF new
  <2>3. \A j \in Channels : active'[j] = IF j = i THEN active[i] \cup {new} ELSE active[j]
    BY <1>0, <2>1
  <2>4. \A s \in Threads : call'[s].op = "subscribe" => call'[s].id = new \/ call'[s] = call[s]
    BY <1>0, <2>1
  <2>5. \A j \in Channels : new \notin active[j]
    BY <2>2 DEF IdsInv
  <2>6. \A s \in Threads : call'[s].op = "subscribe" => call'[s].id \in 1 .. id_counter'
    BY <2>2, <2>4 DEF IdsInv
  <2>7. \A j, k \in Channels : \A id \in active'[j] : id \in active'[k] => j = k
    BY <2>3, <2>5 DEF IdsInv
  <2>8. \A j \in Channels : active'[j] \subseteq 1 .. id_counter'
    BY <2>2, <2>3 DEF IdsInv
  <2>9. returned' \subseteq 1 .. id_counter'
    BY <2>1, <2>2 DEF IdsInv
  <2> QED BY <2>6, <2>7, <2>8, <2>9 DEF IdsInv
<1>2. ASSUME ~ \E t \in Threads, i \in Channels : Subscribe(t, i)
      PROVE  /\ id_counter' = id_counter
             /\ \A i \in Channels : active'[i] \subseteq active[i]
             /\ \A t \in Threads : call'[t].op = "subscribe" => call'[t] = call[t]
             /\ \A id \in returned' : id \in returned \/
                    \E t \in Threads : call[t].op = "subscribe" /\ id = call[t].id
  <2>1. ASSUME NEW t \in Threads, NEW i \in Channels, NEW id \in Ids, Unsubscribe(t, i, id)
        PROVE  /\ UNCHANGED <<id_counter, returned>>
               /\ \A j \in Channels : active'[j] \subseteq active[j]
               /\ \A s \in Threads : call'[s].op = "subscribe" => call'[s] = call[s]
    BY <1>0, <2>1 DEF Unsubscribe, Begin
  <2>2. ASSUME NEW t \in Threads, CallStep(t) \/ Stop(t) \/ \E a \in Accounts : Authenticate(t, a)
        PROVE  /\ UNCHANGED <<id_counter, active>>
               /\ \A s \in Threads : call'[s].op = "subscribe" => call'[s] = call[s]
               /\ returned' = returned \/
                    (call[t].op = "subscribe" /\ returned' = returned \cup {call[t].id})
    BY <1>0, <2>2 DEF CallStep, SendSubscribe, SendUnsubscribe, AuthSend, AuthTest, AuthClosed,
                      Stop, Authenticate, Begin, Return, NoCall
  <2>3. ASSUME OpenAuth \/ \E o \in Outcomes : SendOpenAuth(o)
        PROVE  /\ UNCHANGED <<id_counter, active, returned>>
               /\ \A s \in Threads : call'[s].op = "subscribe" => call'[s] = call[s]
    BY <1>0, <2>3, ThreadsAssumption DEF OpenAuth, SendOpenAuth, Begin, Return, NoCall, Threads
  <2>4. ASSUME OnGroupRemoved
        PROVE  UNCHANGED <<id_counter, returned, call>> /\ \A i \in Channels : active'[i] \subseteq active[i]
    BY <2>4 DEF OnGroupRemoved
  <2>5. ASSUME \/ OnOpen \/ OpenDone \/ (\E o \in Outcomes, i \in Channels : Replay(i, o))
               \/ ReadFails \/ OnError \/ NewSocket \/ ReadStopped \/ OnClose
               \/ OnData \/ OnErrorFrame \/ OnGarbledFrame \/ CallbackReturns \/ DispatchDone
               \/ Connect \/ Environment \/ (\E id \in todo : RunCallback(id))
        PROVE  UNCHANGED <<id_counter, returned, call, active>>
    BY <2>5 DEF OnOpen, OpenDone, Replay, ReadFails, OnError, NewSocket, ReadStopped, OnClose,
                OnData, OnErrorFrame, OnGarbledFrame, CallbackReturns, DispatchDone,
                Connect, Environment, RunCallback,
                ConnectFails, ServerClose, Drop, Push, PushControl, Delist
  <2>6. CASE \E t \in Threads : CallStep(t) \/ NewCall(t)
    BY <1>2, <2>1, <2>2, <2>6 DEF NewCall
  <2>7. CASE ReaderStep \/ Connect \/ Environment
    BY <2>3, <2>4, <2>5, <2>7 DEF ReaderStep
  <2> QED BY <2>6, <2>7 DEF Next
<1>3. ASSUME ~ \E t \in Threads, i \in Channels : Subscribe(t, i) PROVE IdsInv'
  <2>1. ASSUME NEW id \in returned' PROVE id \in 1 .. id_counter'
    <3>1. id_counter' = id_counter
      BY <1>2, <1>3
    <3>2. id \in returned \/ \E t \in Threads : call[t].op = "subscribe" /\ id = call[t].id
      BY <1>2, <1>3
    <3> QED BY <3>1, <3>2 DEF IdsInv
  <2>2. \A t \in Threads : call'[t].op = "subscribe" => call'[t].id \in 1 .. id_counter'
    BY <1>2, <1>3 DEF IdsInv
  <2>3. \A i \in Channels : active'[i] \subseteq 1 .. id_counter'
    BY <1>2, <1>3 DEF IdsInv
  <2>4. \A i, j \in Channels : \A id \in active'[i] : id \in active'[j] => i = j
    BY <1>2, <1>3 DEF IdsInv
  <2> QED BY <2>1, <2>2, <2>3, <2>4 DEF IdsInv
<1> QED BY <1>1, <1>3

(* What a step does to the answer for one channel and to the offers.         *)
LEMMA OffersStep == Next => listed' \subseteq listed
BY DEF Next, CallStep, NewCall, ReaderStep, Environment, Subscribe, Unsubscribe,
       Authenticate, Stop, SendSubscribe, SendUnsubscribe, AuthSend, AuthTest, AuthClosed,
       OnOpen, OpenAuth, OpenDone, SendOpenAuth, Replay, ReadFails, OnError, NewSocket,
       ReadStopped, OnClose, OnData, OnGroupRemoved, OnErrorFrame, OnGarbledFrame,
       RunCallback, CallbackReturns, DispatchDone, Connect, ConnectFails, ServerClose,
       Drop, Push, PushControl, Delist, manager, threads, reader, network, remote

(* A refusal stays one.                                                      *)
LEMMA RefusedStep ==
    ASSUME SInv, RefusedInv, Next
    PROVE  RefusedInv'
<1> USE DEF manager, threads, reader, network, remote
<1>0. server \in [Channels -> {"none", "on", "refused"}] /\ call \in [Threads -> Calls]
  BY DEF SInv, IInv, TypeOK
<1>1. listed' \subseteq listed
  BY OffersStep
<1>2. \A i \in Channels : Offered(i)' => Offered(i)
  BY <1>1 DEF Offered
<1>3. ASSUME NEW i \in Channels, server'[i] = "refused", server[i] # "refused" PROVE ~Offered(i)
  <2>1. ASSUME NEW t \in Threads, NEW o \in Outcomes, SendSubscribe(t, o) PROVE ~Offered(i)
    BY <1>0, <1>3, <2>1 DEF SendSubscribe, ServerAfter, Answer
  <2>2. ASSUME NEW o \in Outcomes, NEW j \in Channels, Replay(j, o) PROVE ~Offered(i)
    BY <1>0, <1>3, <2>2 DEF Replay, ServerAfter, Answer
  <2>3. ~ \E t \in Threads, o \in Outcomes : SendUnsubscribe(t, o) \/ AuthSend(t, o)
    BY <1>0, <1>3 DEF SendUnsubscribe, AuthSend, ServerAfter
  <2>4. ~ \E t \in Threads : AuthTest(t) \/ AuthClosed(t) \/ NewCall(t)
    BY <1>0, <1>3 DEF AuthTest, AuthClosed, NewCall, Subscribe, Unsubscribe, Authenticate, Stop, ServerForgets
  <2>5. ~ (OnOpen \/ OpenAuth \/ OpenDone \/ \E o \in Outcomes : SendOpenAuth(o))
    BY <1>3 DEF OnOpen, OpenAuth, OpenDone, SendOpenAuth
  <2>6. ~ (ReadFails \/ OnError \/ NewSocket \/ ReadStopped \/ OnClose \/ Connect)
    BY <1>3 DEF ReadFails, OnError, NewSocket, ReadStopped, OnClose, Connect, ServerForgets
  <2>7. ~ \/ OnData \/ OnGroupRemoved \/ OnErrorFrame \/ OnGarbledFrame
          \/ (\E id \in todo : RunCallback(id)) \/ CallbackReturns \/ DispatchDone
    BY <1>3 DEF OnData, OnGroupRemoved, OnErrorFrame, OnGarbledFrame, RunCallback, CallbackReturns, DispatchDone
  <2>8. ~ Environment
    BY <1>0, <1>3 DEF Environment, ConnectFails, ServerClose, Drop, ServerForgets, Push, PushControl, Delist
  <2> QED BY <2>1, <2>2, <2>3, <2>4, <2>5, <2>6, <2>7, <2>8 DEF Next, CallStep, ReaderStep
<1> QED BY <1>2, <1>3 DEF RefusedInv

(* The invariant of the mapping.                                             *)
LEMMA RInvInit == Init => RInv
<1> SUFFICES ASSUME Init PROVE RInv
  OBVIOUS
<1>1. SInv
  BY ServerInit
<1>2. IdsInv /\ RefusedInv
  BY DEF Init, IdsInv, RefusedInv, NoCall
<1> QED BY <1>1, <1>2 DEF RInv

LEMMA RInvStep == RInv /\ [Next]_vars => RInv'
<1> SUFFICES ASSUME RInv, [Next]_vars PROVE RInv'
  OBVIOUS
<1>1. SInv'
  BY ServerStep DEF RInv
<1>2. CASE Next
  BY <1>1, <1>2, IdsStep, RefusedStep DEF RInv
<1>3. CASE UNCHANGED vars
  BY <1>1, <1>3 DEF RInv, IdsInv, RefusedInv, Offered, vars, manager, threads, remote
<1> QED BY <1>2, <1>3

(* RInv: ids, refusals and all that SInv says hold in every reachable state. *)
THEOREM MappingInvariance == Spec => []RInv
BY RInvInit, RInvStep, PTL DEF Spec

(* ServedWhenQuiet: while nobody calls authenticate, or when every lost      *)
(* connection is reported, a live, ready connection with nothing on its way  *)
(* streams exactly what is registered and offered.                           *)
THEOREM QuietlyServed == Accounts = {} \/ ~SilentReconnect => (Spec => []ServedWhenQuiet)
<1> SUFFICES ASSUME Accounts = {} \/ ~SilentReconnect PROVE Spec => []ServedWhenQuiet
  OBVIOUS
<1>1. RInv => ServedWhenQuiet
  <2> SUFFICES ASSUME RInv, Live, ws_ready, lock = None, NEW i \in Channels, ~RemovalPending(i)
               PROVE  server[i] = "on" <=> active[i] # {} /\ Offered(i)
    BY DEF ServedWhenQuiet
  <2>1. /\ NoLeakedStream /\ ~Telling("subscribe", i) /\ ~Telling("unsubscribe", i)
        /\ rpc \notin OpenStates
    BY FreeLock DEF RInv, SInv, IInv, LeakInv, Live, LiveStates, OpenStates, Telling, SendsLocked
  <2>2. server[i] \in {"none", "on", "refused"}
    BY DEF RInv, SInv, IInv, TypeOK
  <2>3. active[i] # {} => server[i] # "none"
    BY <2>1 DEF RInv, SInv, IInv, CoveredInv, Covered, OpenInv, Live
  <2>4. server[i] = "refused" => ~Offered(i)
    BY DEF RInv, RefusedInv
  <2>5. server[i] = "on" => active[i] # {} /\ Offered(i)
    BY <2>1 DEF RInv, SInv, RemovedInv, Offered, NoLeakedStream
  <2> QED BY <2>2, <2>3, <2>4, <2>5
<1> QED BY <1>1, MappingInvariance, PTL

-----------------------------------------------------------------------------
(* WebsocketManager implements ConnectedService.  What is mapped:            *)
Registered == {w \in [id : Ids, topic : Channels] : w.id \in active[w.topic]}
Issued == 1 .. id_counter
OnOffer == {i \in Channels : Offered(i)}
Up == link = "up"
Streaming == {i \in Channels : server[i] = "on"}

Unseen == UNCHANGED <<Registered, Issued, OnOffer, Up, Streaming>>
Seen == Unseen \/ Service!Next

(* A step that leaves the registry, the offers, the state of the link and    *)
(* the streams alone is not seen.                                            *)
LEMMA NotSeen ==
    ASSUME UNCHANGED <<active, id_counter, listed>>, Up' = Up,
           \A i \in Channels : server'[i] = "on" <=> server[i] = "on"
    PROVE  Unseen
<1>1. Registered' = Registered /\ Issued' = Issued /\ OnOffer' = OnOffer
  BY DEF Registered, Issued, OnOffer, Offered
<1>2. Streaming' = Streaming
  BY DEF Streaming
<1> QED BY <1>1, <1>2 DEF Unseen

(* A request that is sent for a registered channel starts a stream or is     *)
(* refused; one that is not sent changes nothing.                            *)
LEMMA AskingSeen ==
    ASSUME RInv, NEW i \in Channels, active[i] # {}, NEW o \in Outcomes, SendMay(o),
           UNCHANGED <<active, id_counter, listed, link>>,
           server' = ServerAfter(o, i, Answer(i))
    PROVE  Seen
<1>0. /\ server \in [Channels -> {"none", "on", "refused"}]
      /\ active \in [Channels -> SUBSET Ids]
  BY DEF RInv, SInv, IInv, TypeOK
<1>1. CASE o = "sent" /\ Offered(i)
  <2>1. server' = [server EXCEPT ![i] = "on"] /\ Up
    BY <1>1 DEF ServerAfter, Answer, SendMay, Up
  <2>2. Streaming' = Streaming \cup {i}
    BY <1>0, <2>1 DEF Streaming
  <2>3. Registered' = Registered /\ Issued' = Issued /\ OnOffer' = OnOffer /\ Up' = Up
    BY DEF Registered, Issued, OnOffer, Offered, Up
  <2>4. \E w \in Registered : w.topic = i
    <3>1. PICK id \in active[i] : TRUE
      OBVIOUS
    <3>2. [id |-> id, topic |-> i] \in Registered
      BY <1>0, <3>1 DEF Registered
    <3> QED BY <3>2
  <2>5. Service!Start(i)
    BY <1>1, <2>1, <2>2, <2>3, <2>4
       DEF Service!Start, Service!Wanted, Registered, Issued, OnOffer, Up, Streaming
  <2> QED BY <2>5 DEF Seen, Service!Next
<1>2. CASE o = "sent" /\ ~Offered(i)
  <2>1. server[i] # "on"
    BY <1>2 DEF RInv, SInv, RemovedInv, Offered
  <2>2. server' = [server EXCEPT ![i] = "refused"]
    BY <1>2 DEF ServerAfter, Answer
  <2> QED BY <1>0, <2>1, <2>2, NotSeen DEF Seen, Up
<1>3. CASE o # "sent"
  BY <1>3, NotSeen DEF ServerAfter, Seen, Up
<1> QED BY <1>1, <1>2, <1>3

(* When the server forgets a connection, all its streams end with it.        *)
LEMMA LosingSeen ==
    ASSUME RInv, ServerForgets, link' # "up", UNCHANGED <<active, id_counter, listed>>
    PROVE  Seen
<1>1. CASE link = "up"
  <2>1. Streaming' = {} /\ Up /\ ~Up'
    BY <1>1 DEF ServerForgets, Streaming, Up
  <2>2. Registered' = Registered /\ Issued' = Issued /\ OnOffer' = OnOffer
    BY DEF Registered, Issued, OnOffer, Offered
  <2>3. Service!Lose
    BY <2>1, <2>2 DEF Service!Lose, Registered, Issued, OnOffer, Up, Streaming
  <2> QED BY <2>3 DEF Seen, Service!Next
<1>2. CASE link # "up"
  <2>1. \A i \in Channels : server[i] = "none" /\ server'[i] = "none"
    BY <1>2 DEF RInv, SInv, LinkInv, ServerForgets
  <2> QED BY <1>2, <2>1, NotSeen DEF Seen, Up
<1> QED BY <1>1, <1>2

(* What subscribe registers is a new callback.                               *)
LEMMA SubscribeSeen ==
    ASSUME RInv, NEW t \in Threads, NEW i \in Channels, Subscribe(t, i)
    PROVE  Seen
<1> DEFINE new == id_counter + 1
<1>0. active \in [Channels -> SUBSET Ids] /\ id_counter \in Nat /\ MaxIds \in Nat
  BY BoundsAssumption DEF RInv, SInv, IInv, TypeOK
<1>1. /\ id_counter' = new /\ active' = [active EXCEPT ![i] = @ \cup {new}]
      /\ UNCHANGED <<listed, link, server>>
  BY DEF Subscribe, network, remote
<1>2. new \in Ids /\ new \notin Issued /\ Issued' = Issued \cup {new}
  BY <1>0, <1>1 DEF Subscribe, Issued, Ids
<1> HIDE DEF new
<1>3. Registered' = Registered \cup {[id |-> new, topic |-> i]}
  BY <1>0, <1>1, <1>2 DEF Registered
<1>4. OnOffer' = OnOffer /\ Up' = Up /\ Streaming' = Streaming
  BY <1>1 DEF OnOffer, Offered, Up, Streaming
<1>5. Service!Subscribe(new, i)
  BY <1>2, <1>3, <1>4 DEF Service!Subscribe, Registered, Issued, OnOffer, Up, Streaming
<1> QED BY <1>2, <1>5 DEF Seen, Service!Next

(* What unsubscribe removes is that callback and no other.                   *)
LEMMA UnsubscribeSeen ==
    ASSUME RInv, NEW t \in Threads, NEW i \in Channels, NEW id \in Ids, Unsubscribe(t, i, id)
    PROVE  Seen
<1>0. active \in [Channels -> SUBSET Ids]
  BY DEF RInv, SInv, IInv, TypeOK
<1>1. /\ active' = [active EXCEPT ![i] = @ \ {id}]
      /\ UNCHANGED <<id_counter, listed, link, server>> /\ id \in returned
  BY DEF Unsubscribe, network, remote
<1>2. CASE id \in active[i]
  <2>1. \A j \in Channels : id \in active[j] => j = i
    BY <1>2 DEF RInv, IdsInv
  <2>2. Registered' = {w \in Registered : w.id # id}
    BY <1>0, <1>1, <2>1 DEF Registered
  <2>3. Issued' = Issued /\ OnOffer' = OnOffer /\ Up' = Up /\ Streaming' = Streaming /\ id \in Issued
    BY <1>1 DEF RInv, IdsInv, Issued, OnOffer, Offered, Up, Streaming
  <2>4. Service!Unsubscribe(id)
    BY <2>2, <2>3 DEF Service!Unsubscribe, Registered, Issued, OnOffer, Up, Streaming
  <2> QED BY <2>4 DEF Seen, Service!Next
<1>3. CASE id \notin active[i]
  BY <1>0, <1>1, <1>3, NotSeen DEF Seen, Up
<1> QED BY <1>2, <1>3

(* The send of an unsubscribe ends a stream that nobody wants: no other      *)
(* callback can come while the call holds the lock.                          *)
LEMMA SendUnsubscribeSeen ==
    ASSUME RInv, NEW t \in Threads, NEW o \in Outcomes, SendUnsubscribe(t, o)
    PROVE  Seen
<1>c. call[t].on \in Channels
  BY DEF RInv, SInv, IInv, TypeOK, SendUnsubscribe, Calls, NoCall
<1>i. PICK i \in Channels : i = call[t].on
  BY <1>c
<1>0. server \in [Channels -> {"none", "on", "refused"}]
  BY DEF RInv, SInv, IInv, TypeOK
<1>1. active[i] = {}
  BY <1>i DEF RInv, SInv, IInv, UnsubscribeInv, SendUnsubscribe
<1>2. /\ server' = ServerAfter(o, i, "none")
      /\ UNCHANGED <<active, id_counter, listed, link>>
  BY <1>i DEF SendUnsubscribe, network
<1>3. CASE o = "sent"
  <2>1. Streaming' = Streaming \ {i}
    BY <1>0, <1>2, <1>3 DEF ServerAfter, Streaming
  <2>2. Registered' = Registered /\ Issued' = Issued /\ OnOffer' = OnOffer /\ Up' = Up
    BY <1>2 DEF Registered, Issued, OnOffer, Offered, Up
  <2>3. ~ \E w \in Registered : w.topic = i
    BY <1>1 DEF Registered
  <2>4. Service!End(i)
    <3>1. ~Service!Wanted(i)
      BY <2>3 DEF Service!Wanted, Registered
    <3> QED BY <2>1, <2>2, <3>1 DEF Service!End, Registered, Issued, OnOffer, Up, Streaming
  <2> QED BY <1>0, <2>4 DEF Seen, Service!Next
<1>4. CASE o # "sent"
  BY <1>2, <1>4, NotSeen DEF ServerAfter, Seen, Up
<1> QED BY <1>3, <1>4

(* A removal that was read forgets the callbacks of a withdrawn grouping.    *)
LEMMA GroupRemovedSeen ==
    ASSUME RInv, OnGroupRemoved
    PROVE  Seen
<1>0. inbox \in Seq(Frames) /\ inbox # <<>> /\ Head(inbox).kind = "removed"
  BY DEF RInv, SInv, IInv, TypeOK, OnGroupRemoved, Receive
<1>1. PICK i \in Groups : Head(inbox) = Removed(i)
  BY <1>0 DEF Frames, Data, Removed, Control
<1>2. i \in Channels /\ ~Offered(i)
  <2>1. RemovalPending(i)
    BY <1>0, <1>1 DEF RemovalPending
  <2> QED BY <2>1, ChannelsAssumption DEF RInv, SInv, RemovedInv, Offered
<1>3. /\ active' = [j \in Channels |-> IF j = i THEN {} ELSE active[j]]
      /\ UNCHANGED <<id_counter, listed, link, server>>
  BY <1>1 DEF OnGroupRemoved, Removed, remote
<1>4. Registered' = {w \in Registered : w.topic # i}
  BY <1>3 DEF Registered
<1>5. Issued' = Issued /\ OnOffer' = OnOffer /\ Up' = Up /\ Streaming' = Streaming
  BY <1>3 DEF Issued, OnOffer, Offered, Up, Streaming
<1>6. Service!Forget(i)
  BY <1>2, <1>4, <1>5 DEF Service!Forget, Registered, Issued, OnOffer, Up, Streaming
<1> QED BY <1>2, <1>6 DEF Seen, Service!Next

(* A grouping that the server no longer offers stops flowing.                *)
LEMMA DelistSeen ==
    ASSUME RInv, NEW g \in Groups, Delist(g)
    PROVE  Seen
<1>0. server \in [Channels -> {"none", "on", "refused"}] /\ g \in Channels
  BY ChannelsAssumption DEF RInv, SInv, IInv, TypeOK
<1>1. g \in listed /\ listed' = listed \ {g} /\ UNCHANGED <<active, id_counter, link>>
  BY DEF Delist, manager, ServerSends
<1>2. server' = IF server[g] = "on" THEN [server EXCEPT ![g] = "none"] ELSE server
  BY DEF Delist
<1>3. OnOffer' = OnOffer \ {g} /\ g \in OnOffer
  BY <1>0, <1>1 DEF OnOffer, Offered
<1>4. Streaming' = Streaming \ {g}
  BY <1>0, <1>2 DEF Streaming
<1>5. Registered' = Registered /\ Issued' = Issued /\ Up' = Up
  BY <1>1 DEF Registered, Issued, Up
<1>6. Service!Withdraw(g)
  BY <1>3, <1>4, <1>5 DEF Service!Withdraw, Registered, Issued, OnOffer, Up, Streaming
<1> QED BY <1>0, <1>6 DEF Seen, Service!Next

(* A new connection comes up with nothing flowing.                           *)
LEMMA ConnectSeen ==
    ASSUME RInv, Connect
    PROVE  Seen
<1>1. ~Up /\ Up' /\ UNCHANGED <<active, id_counter, listed, server>>
  BY DEF RInv, SInv, LinkInv, Connect, manager, remote, Up
<1>2. Registered' = Registered /\ Issued' = Issued /\ OnOffer' = OnOffer /\ Streaming' = Streaming
  BY <1>1 DEF Registered, Issued, OnOffer, Offered, Streaming
<1>3. Service!Connect
  BY <1>1, <1>2 DEF Service!Connect, Registered, Issued, OnOffer, Up, Streaming
<1> QED BY <1>3 DEF Seen, Service!Next

(* Every step is one of ConnectedService, or is not seen.                    *)
LEMMA ServiceStep ==
    ASSUME RInv, Next
    PROVE  Seen
<1> USE DEF manager, threads, reader, network, remote
<1>1. ASSUME NEW t \in Threads, NEW o \in Outcomes, SendSubscribe(t, o) PROVE Seen
  <2>1. call[t].on \in Channels /\ active[call[t].on] # {}
    BY <1>1 DEF RInv, SInv, IInv, TypeOK, WantedInv, SendSubscribe, Calls, NoCall
  <2>2. /\ SendMay(o) /\ UNCHANGED <<active, id_counter, listed, link>>
        /\ server' = ServerAfter(o, call[t].on, Answer(call[t].on))
    BY <1>1 DEF SendSubscribe
  <2> QED BY <2>1, <2>2, AskingSeen
<1>2. ASSUME NEW o \in Outcomes, NEW i \in Channels, Replay(i, o) PROVE Seen
  <2>1. active[i] # {}
    BY <1>2 DEF RInv, SInv, WantedInv, Replay
  <2>2. /\ SendMay(o) /\ UNCHANGED <<active, id_counter, listed, link>>
        /\ server' = ServerAfter(o, i, Answer(i))
    BY <1>2 DEF Replay
  <2> QED BY <2>1, <2>2, AskingSeen
<1>3. ASSUME NEW t \in Threads, Stop(t) PROVE Seen
  BY <1>3, LosingSeen DEF Stop
<1>4. CASE ReadStopped \/ ServerClose \/ Drop
  BY <1>4, LosingSeen DEF ReadStopped, ServerClose, Drop
<1>5. ASSUME NEW t \in Threads,
             \/ \E o \in Outcomes : AuthSend(t, o)
             \/ AuthTest(t) \/ AuthClosed(t) \/ \E a \in Accounts : Authenticate(t, a)
      PROVE  Seen
  <2>1. UNCHANGED <<active, id_counter, listed, link, server>>
    BY <1>5 DEF AuthSend, AuthTest, AuthClosed, Authenticate
  <2> QED BY <2>1, NotSeen DEF Seen, Up
<1>6. CASE ReadFails \/ NewSocket
  <2>1. UNCHANGED <<active, id_counter, listed, server>> /\ link # "up" /\ link' # "up"
    BY <1>6 DEF ReadFails, NewSocket, RInv, SInv, LinkInv
  <2> QED BY <2>1, NotSeen DEF Seen, Up
<1>7. CASE \/ OnOpen \/ OpenAuth \/ OpenDone \/ (\E o \in Outcomes : SendOpenAuth(o))
           \/ OnError \/ OnClose \/ OnData \/ OnErrorFrame \/ OnGarbledFrame
           \/ (\E id \in todo : RunCallback(id)) \/ CallbackReturns \/ DispatchDone
           \/ ConnectFails \/ (\E c \in Targets : Push(c))
           \/ (\E k \in {"error", "garbled"} : PushControl(k))
  <2>1. UNCHANGED <<active, id_counter, listed, link, server>>
    BY <1>7 DEF OnOpen, OpenAuth, OpenDone, SendOpenAuth, OnError, OnClose, OnData, OnErrorFrame,
                OnGarbledFrame, RunCallback, CallbackReturns, DispatchDone, ConnectFails, Push, PushControl
  <2> QED BY <2>1, NotSeen DEF Seen, Up
<1> QED BY <1>1, <1>2, <1>3, <1>4, <1>5, <1>6, <1>7, SubscribeSeen, UnsubscribeSeen,
           SendUnsubscribeSeen, GroupRemovedSeen, DelistSeen, ConnectSeen
        DEF Next, CallStep, NewCall, ReaderStep, Environment

(* KeepsService: WebsocketManager implements ConnectedService.  Whatever the *)
(* threads, the network and the server do, subscribe, unsubscribe, the       *)
(* replay of _on_open and the handling of frames start a stream only for a   *)
(* registered callback, end it only when the last one has gone, and take a   *)
(* callback away only when it asked for it or its grouping was withdrawn.    *)
THEOREM ServiceKept == Spec => KeepsService
<1>1. Init => Service!Init
  <2> SUFFICES ASSUME Init PROVE Service!Init
    OBVIOUS
  <2>1. Registered = {} /\ Streaming = {} /\ ~Up
    BY DEF Init, Registered, Streaming, Up
  <2>2. Issued = {}
    BY DEF Init, Issued
  <2>3. OnOffer = Channels
    BY DEF Init, OnOffer, Offered
  <2> QED BY <2>1, <2>2, <2>3 DEF Service!Init, Registered, Streaming, Issued, OnOffer, Up
<1>2. RInv /\ [Next]_vars => [Service!Next]_(Service!vars)
  <2> SUFFICES ASSUME RInv, [Next]_vars PROVE Seen
    BY DEF Seen, Unseen, Service!vars, Registered, Streaming, Issued, OnOffer, Up
  <2>1. CASE UNCHANGED vars
    BY <2>1, NotSeen DEF vars, manager, network, remote, Seen, Up
  <2> QED BY <2>1, ServiceStep
<1> QED BY <1>1, <1>2, MappingInvariance, PTL DEF Spec, KeepsService, Service!Spec
=============================================================================
