-------------------------- MODULE WebsocketManager --------------------------
(* The subscription registry of upside/websocket_manager.py and the          *)
(* connection it drives.                                                     *)
(*                                                                           *)
(* User threads call subscribe, unsubscribe, authenticate and stop.  The     *)
(* reader thread runs websocket-client's run_forever, which calls _on_open,  *)
(* _on_message, _on_error and _on_close; subscription callbacks run on it    *)
(* and may call the same methods.  A step ends where another thread can      *)
(* observe the state: at a lock operation, at a socket send, and at every    *)
(* access to ws_ready or _auth_account_id that authenticate makes without    *)
(* the lock.                                                                 *)
(*                                                                           *)
(* External, modelled from how the code uses them: websocket-client (Connect *)
(* to ServerClose) and the server, which remembers per connection what it    *)
(* was asked to stream.                                                      *)
EXTENDS Naturals, Sequences

CONSTANTS
    Users,            \* threads of the application
    Reader,           \* the thread of WebsocketManager.run
    None,             \* no holder of the lock, no account, no channel
    Channels,         \* identifiers, see subscription_to_identifier
    Groups,           \* l2Book groupings: channels the server can remove
    Families,         \* channels that one userAccount frame is handed to
    Accounts,         \* account ids given to authenticate
    SilentReconnect,  \* whether run_forever may drop a reconnected socket
                      \* without calling on_error
    CloseReconnects,  \* whether it may reconnect after a close frame
    MaxIds,           \* bound on the number of subscribe calls
    MaxConnects,      \* bound on the number of established connections
    MaxInbox          \* bound on the frames the reader has not read yet

Threads == Users \cup {Reader}
Ids == 1 .. MaxIds
ErrorCallback == 0    \* stands for error_callback among the callbacks to run

ASSUME ThreadsAssumption == Reader \notin Users /\ None \notin Threads
ASSUME ChannelsAssumption ==
    /\ Groups \subseteq Channels
    /\ Families \subseteq SUBSET Channels
    /\ None \notin Accounts
ASSUME BoundsAssumption ==
    /\ MaxIds \in Nat
    /\ MaxConnects \in Nat
    /\ MaxInbox \in Nat
    /\ SilentReconnect \in BOOLEAN /\ CloseReconnects \in BOOLEAN

VARIABLES
    lock,             \* holder of _lock
    ws_ready,         \* ws_ready
    active,           \* _active: the ids registered per identifier
    id_counter,       \* _id_counter
    auth_account_id,  \* _auth_account_id
    call,             \* per thread, the API call between two of its steps
    returned,         \* ids that subscribe has handed to its callers
    rpc,              \* where the reader thread is in run_forever
    replay,           \* channels _on_open has yet to replay
    todo,             \* callbacks _on_message has yet to run
    stopping,         \* stop() was called (keep_running is False)
    link,             \* the socket: up, broken (dead, not yet noticed), none
    conns,            \* connections established so far
    inbox,            \* frames sent by the server, not yet read
    server,           \* what the server answered per channel, this connection
    auth_told,        \* accounts the server was told of, this connection
    listed            \* groupings that the server still offers

manager == <<lock, ws_ready, active, id_counter, auth_account_id>>
threads == <<call, returned>>
reader  == <<rpc, replay, todo>>
network == <<stopping, link, conns, inbox>>
remote  == <<server, auth_told, listed>>
vars == <<manager, threads, reader, network, remote>>

NoCall == [op |-> "none", on |-> None, id |-> 0]

Init ==
    /\ lock = None
    /\ ws_ready = FALSE
    /\ active = [i \in Channels |-> {}]
    /\ id_counter = 0
    /\ auth_account_id = None
    /\ call = [t \in Threads |-> NoCall]
    /\ returned = {}
    /\ rpc = "connect"
    /\ replay = {}
    /\ todo = {}
    /\ stopping = FALSE
    /\ link = "none"
    /\ conns = 0
    /\ inbox = <<>>
    /\ server = [i \in Channels |-> "none"]
    /\ auth_told = {}
    /\ listed = Groups

-----------------------------------------------------------------------------
(* websocket-client's send and the server at the other end.                  *)

(* What ws.send does: a socket that is up delivers in order; one that is     *)
(* dead but still open swallows the bytes or raises OSError; without one it  *)
(* raises WebSocketConnectionClosedException.                                *)
SendMay(o) ==
    \/ link = "up" /\ o = "sent"
    \/ link = "broken" /\ o \in {"lost", "raised"}
    \/ link = "none" /\ o = "closed"

Outcomes == {"sent", "lost", "raised", "closed"}

(* _send catches WebSocketConnectionClosedException only.                    *)
ReadyAfterSend(o) == ws_ready /\ o # "closed"

Offered(i) == i \in Groups => i \in listed

(* The server streams an offered channel and refuses any other.              *)
Answer(i) == IF Offered(i) THEN "on" ELSE "refused"

ServerAfter(o, i, answer) ==
    IF o = "sent" THEN [server EXCEPT ![i] = answer] ELSE server

(* Which of several Auth frames counts is the server's affair; it has them.  *)
ToldAfter(o, a) == IF o = "sent" THEN auth_told \cup {a} ELSE auth_told

(* A connection takes its subscriptions and its accounts with it.            *)
ServerForgets ==
    /\ server' = [i \in Channels |-> "none"]
    /\ auth_told' = {}

-----------------------------------------------------------------------------
(* The public API.  The reader thread may call it from inside a callback.    *)

Idle(t) == call[t] = NoCall /\ (t = Reader => rpc = "callback")

Begin(t, op, on, id) == call' = [call EXCEPT ![t] = [op |-> op, on |-> on, id |-> id]]
Return(t) == call' = [call EXCEPT ![t] = NoCall]

(* subscribe, up to the send: take the lock, register, and keep the lock     *)
(* when this is the identifier's first callback and the socket is ready.     *)
FirstForIdentifierStale(i) == FALSE
FirstForIdentifierAlways(i) == TRUE
FirstForIdentifier(i) == active[i] = {}

Subscribe(t, i) ==
    /\ Idle(t) /\ lock = None
    /\ id_counter < MaxIds
    /\ id_counter' = id_counter + 1
    /\ active' = [active EXCEPT ![i] = @ \cup {id_counter + 1}]
    /\ \/ /\ ws_ready /\ FirstForIdentifier(i)
          /\ lock' = t
          /\ Begin(t, "subscribe", i, id_counter + 1)
          /\ UNCHANGED returned
       \/ /\ ~(ws_ready /\ FirstForIdentifier(i))
          /\ returned' = returned \cup {id_counter + 1}
          /\ UNCHANGED <<lock, call>>
    /\ UNCHANGED <<ws_ready, auth_account_id, reader, network, remote>>

(* subscribe, the send and the return.  An OSError leaves subscribe before   *)
(* it returns the id.                                                        *)
SendSubscribe(t, o) ==
    /\ call[t].op = "subscribe" /\ SendMay(o)
    /\ ws_ready' = ReadyAfterSend(o)
    /\ server' = ServerAfter(o, call[t].on, Answer(call[t].on))
    /\ returned' = IF o = "raised" THEN returned ELSE returned \cup {call[t].id}
    /\ lock' = None
    /\ Return(t)
    /\ UNCHANGED <<active, id_counter, auth_account_id, reader, network, auth_told, listed>>

(* unsubscribe, up to the send.  Removing an id that is not registered under *)
(* this identifier changes nothing (the method returns False).               *)
LastForIdentifierNever(i, id) == FALSE
LastForIdentifierOrNot(i, id) == id \in active[i]
LastForIdentifier(i, id) == active[i] = {id}

Unsubscribe(t, i, id) ==
    /\ Idle(t) /\ lock = None
    /\ id \in returned
    /\ active' = [active EXCEPT ![i] = @ \ {id}]
    /\ \/ /\ ws_ready /\ LastForIdentifier(i, id)
          /\ lock' = t
          /\ Begin(t, "unsubscribe", i, id)
       \/ /\ ~(ws_ready /\ LastForIdentifier(i, id))
          /\ UNCHANGED <<lock, call>>
    /\ UNCHANGED <<ws_ready, id_counter, auth_account_id, returned, reader, network, remote>>

SendUnsubscribe(t, o) ==
    /\ call[t].op = "unsubscribe" /\ SendMay(o)
    /\ ws_ready' = ReadyAfterSend(o)
    /\ server' = ServerAfter(o, call[t].on, "none")
    /\ lock' = None
    /\ Return(t)
    /\ UNCHANGED <<active, id_counter, auth_account_id, returned, reader, network, auth_told, listed>>

(* authenticate holds no lock: it stores the account, tests ws_ready, sends, *)
(* and on a closed socket clears ws_ready, each a step of its own.           *)
Authenticate(t, a) ==
    /\ Idle(t)
    /\ auth_account_id' = a
    /\ Begin(t, "authTest", a, 0)
    /\ UNCHANGED <<lock, ws_ready, active, id_counter, returned, reader, network, remote>>

AuthTest(t) ==
    /\ call[t].op = "authTest"
    /\ IF ws_ready THEN Begin(t, "authSend", call[t].on, 0) ELSE Return(t)
    /\ UNCHANGED <<manager, returned, reader, network, remote>>

AuthSend(t, o) ==
    /\ call[t].op = "authSend" /\ SendMay(o)
    /\ auth_told' = ToldAfter(o, call[t].on)
    /\ IF o = "closed" THEN Begin(t, "authClosed", call[t].on, 0) ELSE Return(t)
    /\ UNCHANGED <<manager, returned, reader, network, server, listed>>

AuthClosed(t) ==
    /\ call[t].op = "authClosed"
    /\ ws_ready' = FALSE
    /\ Return(t)
    /\ UNCHANGED <<lock, active, id_counter, auth_account_id, returned, reader, network, remote>>

(* stop: ws.close() ends run_forever's loop and closes the socket.           *)
Stop(t) ==
    /\ Idle(t)
    /\ stopping' = TRUE
    /\ link' = "none"
    /\ ServerForgets
    /\ UNCHANGED <<manager, threads, reader, conns, inbox, listed>>

-----------------------------------------------------------------------------
(* The reader thread: connecting and _on_open.                               *)

(* Where a failure takes the reader: to on_error, or straight to the sleep   *)
(* before the next attempt when run_forever does not report it.              *)
AfterFailure == {"dropped"} \cup (IF SilentReconnect THEN {"sleep"} ELSE {})

Connect ==
    /\ rpc = "connect" /\ conns < MaxConnects
    /\ link' = "up"
    /\ conns' = conns + 1
    /\ inbox' = <<>>
    /\ rpc' = "onOpen"
    /\ UNCHANGED <<manager, threads, replay, todo, stopping, remote>>

ConnectFails ==
    /\ rpc = "connect"
    /\ rpc' \in AfterFailure
    /\ UNCHANGED <<manager, threads, replay, todo, network, remote>>

(* The channels _on_open replays: those with a callback, on every connect.   *)
ReplaySetFirstOnly == IF conns = 1 THEN {i \in Channels : active[i] # {}} ELSE {}
ReplaySet == {i \in Channels : active[i] # {}}

(* _on_open takes the lock and keeps it over every send.                     *)
OnOpen ==
    /\ rpc = "onOpen" /\ lock = None
    /\ lock' = Reader
    /\ ws_ready' = TRUE
    /\ replay' = ReplaySet
    /\ rpc' = "openAuth"
    /\ UNCHANGED <<active, id_counter, auth_account_id, threads, todo, network, remote>>

(* The account is read before the send, and authenticate can run in between. *)
AccountToReplayFirstOnly == IF conns = 1 THEN auth_account_id ELSE None
AccountToReplay == auth_account_id

OpenAuthUnchecked ==
    /\ rpc = "openAuth"
    /\ rpc' = "sendAuth" /\ Begin(Reader, "openAuth", AccountToReplay, 0)
    /\ UNCHANGED <<manager, returned, replay, todo, network, remote>>
OpenAuth ==
    /\ rpc = "openAuth"
    /\ IF AccountToReplay = None
       THEN rpc' = "replay" /\ UNCHANGED call
       ELSE rpc' = "sendAuth" /\ Begin(Reader, "openAuth", AccountToReplay, 0)
    /\ UNCHANGED <<manager, returned, replay, todo, network, remote>>

(* What follows a send of _on_open: an OSError releases the lock and reaches *)
(* _on_error; anything else goes on with the rest.                           *)
OpenContinues(o, rest) ==
    IF o = "raised"
    THEN rpc' = "openFailed" /\ lock' = None /\ replay' = {}
    ELSE rpc' = "replay" /\ replay' = rest /\ UNCHANGED lock

SendOpenAuth(o) ==
    /\ call[Reader].op = "openAuth" /\ SendMay(o)
    /\ ws_ready' = ReadyAfterSend(o)
    /\ auth_told' = ToldAfter(o, call[Reader].on)
    /\ Return(Reader)
    /\ OpenContinues(o, replay)
    /\ UNCHANGED <<active, id_counter, auth_account_id, returned, todo, network, server, listed>>

Replay(i, o) ==
    /\ rpc = "replay" /\ i \in replay /\ SendMay(o)
    /\ ws_ready' = ReadyAfterSend(o)
    /\ server' = ServerAfter(o, i, Answer(i))
    /\ OpenContinues(o, replay \ {i})
    /\ UNCHANGED <<active, id_counter, auth_account_id, threads, todo, network, auth_told, listed>>

OpenDone ==
    /\ rpc = "replay" /\ replay = {}
    /\ lock' = None
    /\ rpc' = "read"
    /\ UNCHANGED <<ws_ready, active, id_counter, auth_account_id, threads, replay, todo, network, remote>>

-----------------------------------------------------------------------------
(* The reader thread: a connection that ends, _on_error and _on_close.       *)

(* Reading a dead socket fails; frames not read by then are gone.            *)
ReadFails ==
    /\ rpc = "read" /\ link = "broken"
    /\ link' \in {"broken", "none"}
    /\ inbox' = <<>>
    /\ rpc' \in AfterFailure
    /\ UNCHANGED <<manager, threads, replay, todo, stopping, conns, remote>>

(* _on_error stops sends only for a WebSocketException or an OSError, not    *)
(* for an exception that one of our own callbacks let escape.                *)
StopsSendsAlways(where) == TRUE
StopsSends(where) == where # "garbled"

OnError ==
    /\ rpc \in {"dropped", "openFailed", "garbled"}
    /\ StopsSends(rpc) => lock = None
    /\ ws_ready' = (ws_ready /\ ~StopsSends(rpc))
    /\ rpc' = IF rpc = "dropped" THEN "sleep" ELSE "read"
    /\ UNCHANGED <<lock, active, id_counter, auth_account_id, threads, replay, todo, network, remote>>

(* After the reconnect delay run_forever makes a new, unconnected socket.    *)
NewSocket ==
    /\ rpc = "sleep"
    /\ link' = "none"
    /\ rpc' = "connect"
    /\ UNCHANGED <<manager, threads, replay, todo, stopping, conns, inbox, remote>>

(* The loop notices stop(), or reads a close frame from the server.          *)
ReadStopped ==
    /\ rpc = "read" /\ stopping
    /\ link' = "none"
    /\ rpc' = "onClose"
    /\ ServerForgets
    /\ UNCHANGED <<manager, threads, replay, todo, stopping, conns, inbox, listed>>

ServerClose ==
    /\ rpc = "read" /\ link = "up" /\ inbox = <<>>
    /\ conns < MaxConnects
    /\ link' = "none"
    /\ rpc' = "onClose"
    /\ ServerForgets
    /\ UNCHANGED <<manager, threads, replay, todo, stopping, conns, inbox, listed>>

OnClose ==
    /\ rpc = "onClose" /\ lock = None
    /\ ws_ready' = FALSE
    /\ rpc' \in {"done"} \cup (IF CloseReconnects /\ ~stopping THEN {"sleep"} ELSE {})
    /\ UNCHANGED <<lock, active, id_counter, auth_account_id, threads, replay, todo, network, remote>>

-----------------------------------------------------------------------------
(* The reader thread: _on_message and the callbacks.                         *)

Data(channels) == [kind |-> "data", to |-> channels]
Removed(i) == [kind |-> "removed", to |-> {i}]
Control(kind) == [kind |-> kind, to |-> {}]

Targets == {{i} : i \in Channels} \cup Families
Frames ==
    {Data(c) : c \in Targets} \cup {Removed(i) : i \in Groups}
        \cup {Control(k) : k \in {"error", "garbled"}}

Receive(kind) ==
    /\ rpc = "read" /\ inbox # <<>>
    /\ Head(inbox).kind = kind
    /\ inbox' = Tail(inbox)

CallbacksFor(channels) == UNION {active[i] : i \in channels}

(* The callbacks are collected under the lock, and run after it is released. *)
LockWhileDispatchingHeld == Reader
LockWhileDispatching == None

OnData ==
    /\ Receive("data") /\ lock = None
    /\ lock' = LockWhileDispatching
    /\ todo' = CallbacksFor(Head(inbox).to)
    /\ rpc' = "dispatch"
    /\ UNCHANGED <<ws_ready, active, id_counter, auth_account_id, threads, replay,
                   stopping, link, conns, remote>>

(* GroupRemoved also forgets every callback of the grouping.                 *)
OnGroupRemoved ==
    /\ Receive("removed") /\ lock = None
    /\ todo' = CallbacksFor(Head(inbox).to)
    /\ active' = [i \in Channels |-> IF i \in Head(inbox).to THEN {} ELSE active[i]]
    /\ rpc' = "dispatch"
    /\ UNCHANGED <<lock, ws_ready, id_counter, auth_account_id, threads, replay,
                   stopping, link, conns, remote>>

(* An error frame names no subscription: only error_callback sees it.        *)
OnErrorFrame ==
    /\ Receive("error")
    /\ todo' = {ErrorCallback}
    /\ rpc' = "dispatch"
    /\ UNCHANGED <<manager, threads, replay, stopping, link, conns, remote>>

(* A frame that json.loads rejects with something other than                 *)
(* JSONDecodeError: the exception escapes to _on_error on a live connection. *)
OnGarbledFrame ==
    /\ Receive("garbled")
    /\ rpc' = "garbled"
    /\ UNCHANGED <<manager, threads, replay, todo, stopping, link, conns, remote>>

RunCallback(id) ==
    /\ rpc = "dispatch" /\ id \in todo
    /\ todo' = todo \ {id}
    /\ rpc' = "callback"
    /\ UNCHANGED <<manager, threads, replay, network, remote>>

CallbackReturns ==
    /\ rpc = "callback" /\ call[Reader] = NoCall
    /\ rpc' = "dispatch"
    /\ UNCHANGED <<manager, threads, replay, todo, network, remote>>

DispatchDone ==
    /\ rpc = "dispatch" /\ todo = {}
    /\ rpc' = "read"
    /\ UNCHANGED <<manager, threads, replay, todo, network, remote>>

-----------------------------------------------------------------------------
(* The network and the server.  The last connection the bound allows stays   *)
(* up unless stop() closes it.                                               *)

Drop ==
    /\ link = "up" /\ conns < MaxConnects
    /\ link' = "broken"
    /\ ServerForgets
    /\ UNCHANGED <<manager, threads, reader, stopping, conns, inbox, listed>>

ServerSends(frame) ==
    /\ link = "up" /\ Len(inbox) < MaxInbox
    /\ inbox' = Append(inbox, frame)

Push(channels) ==
    /\ \E i \in channels : server[i] = "on"
    /\ ServerSends(Data(channels))
    /\ UNCHANGED <<manager, threads, reader, stopping, link, conns, remote>>

PushControl(kind) ==
    /\ ServerSends(Control(kind))
    /\ UNCHANGED <<manager, threads, reader, stopping, link, conns, remote>>

(* The server stops offering a grouping and says so to its subscribers.      *)
Delist(i) ==
    /\ i \in listed
    /\ listed' = listed \ {i}
    /\ IF server[i] = "on"
       THEN ServerSends(Removed(i)) /\ server' = [server EXCEPT ![i] = "none"]
       ELSE UNCHANGED <<inbox, server>>
    /\ UNCHANGED <<manager, threads, reader, stopping, link, conns, auth_told>>

-----------------------------------------------------------------------------
CallStep(t) ==
    \/ \E o \in Outcomes : SendSubscribe(t, o) \/ SendUnsubscribe(t, o) \/ AuthSend(t, o)
    \/ AuthTest(t)
    \/ AuthClosed(t)

NewCall(t) ==
    \/ \E i \in Channels : Subscribe(t, i)
    \/ \E i \in Channels, id \in Ids : Unsubscribe(t, i, id)
    \/ \E a \in Accounts : Authenticate(t, a)
    \/ Stop(t)

ReaderStep ==
    \/ OnOpen \/ OpenAuth \/ OpenDone
    \/ \E o \in Outcomes : SendOpenAuth(o) \/ \E i \in Channels : Replay(i, o)
    \/ ReadFails \/ OnError \/ NewSocket \/ ReadStopped \/ OnClose
    \/ OnData \/ OnGroupRemoved \/ OnErrorFrame \/ OnGarbledFrame
    \/ \E id \in todo : RunCallback(id)
    \/ CallbackReturns \/ DispatchDone

Environment ==
    \/ ConnectFails \/ ServerClose \/ Drop
    \/ \E c \in Targets : Push(c)
    \/ \E k \in {"error", "garbled"} : PushControl(k)
    \/ \E i \in Groups : Delist(i)

Next ==
    \/ \E t \in Threads : CallStep(t) \/ NewCall(t)
    \/ ReaderStep
    \/ Connect
    \/ Environment

Spec == Init /\ [][Next]_vars

(* A thread that runs gets on with its call; the reader, which sleeps and    *)
(* retries by itself, keeps taking steps, and of the connection attempts it  *)
(* goes on making not every one fails.                                       *)
Fairness ==
    /\ \A t \in Threads : WF_vars(CallStep(t))
    /\ WF_vars(ReaderStep)
    /\ SF_vars(Connect)

FairSpec == Spec /\ Fairness

-----------------------------------------------------------------------------
(* Properties.                                                               *)

(* Values of every variable.                                                 *)
Calls ==
    {NoCall}
        \cup [op : {"subscribe", "unsubscribe"}, on : Channels, id : Ids]
        \cup [op : {"authTest", "authSend", "authClosed", "openAuth"}, on : Accounts, id : {0}]

TypeOK ==
    /\ lock \in Threads \cup {None}
    /\ ws_ready \in BOOLEAN
    /\ active \in [Channels -> SUBSET Ids]
    /\ id_counter \in 0 .. MaxIds
    /\ auth_account_id \in Accounts \cup {None}
    /\ call \in [Threads -> Calls]
    /\ returned \subseteq Ids
    /\ rpc \in {"connect", "onOpen", "openAuth", "sendAuth", "replay", "read",
                "dispatch", "callback", "dropped", "openFailed", "garbled",
                "sleep", "onClose", "done"}
    /\ replay \subseteq Channels
    /\ todo \subseteq Ids \cup {ErrorCallback}
    /\ stopping \in BOOLEAN
    /\ link \in {"up", "broken", "none"}
    /\ conns \in 0 .. MaxConnects
    /\ inbox \in Seq(Frames)
    /\ server \in [Channels -> {"none", "on", "refused"}]
    /\ auth_told \subseteq Accounts
    /\ listed \subseteq Groups

(* _on_open has finished on the current connection and the connection is up. *)
LiveStates == {"read", "dispatch", "callback", "garbled"}
Live == rpc \in LiveStates /\ link = "up"

Telling(op, i) == \E t \in Threads : call[t].op = op /\ call[t].on = i
RemovalPending(i) == \E k \in DOMAIN inbox : inbox[k] = Removed(i)

(* On a live, ready connection the server has answered every identifier that *)
(* has a callback, unless a subscribe call is about to send it or the frame  *)
(* that removes it is on its way: no interleaving of subscribe, unsubscribe, *)
(* a drop and the replay leaves a registered callback unasked for.           *)
NoLostSubscription ==
    Live /\ ws_ready =>
        \A i \in Channels :
            active[i] # {} =>
                server[i] # "none" \/ Telling("subscribe", i) \/ RemovalPending(i)

(* The server streams nothing that no callback wants any more, unless an     *)
(* unsubscribe call is about to tell it so.                                  *)
NoLeakedStream ==
    \A i \in Channels :
        server[i] = "on" => active[i] # {} \/ Telling("unsubscribe", i)

(* Sends are never stopped on a live connection: _on_open would not run      *)
(* again to replay what subscribe leaves to it.                              *)
LiveConnectionReady == Live => ws_ready

(* No thread that runs application code holds the (non-reentrant) lock, so   *)
(* a callback may subscribe and unsubscribe.                                 *)
NoSelfDeadlock == \A t \in Threads : Idle(t) => lock # t

(* Neither subscribe nor the replay asks for a channel that this connection  *)
(* already streams.                                                          *)
NoDuplicateSubscribe ==
    link = "up" =>
        /\ \A t \in Threads : call[t].op = "subscribe" => server[call[t].on] # "on"
        /\ \A i \in replay : server[i] # "on"

(* On a live, ready connection the account that authenticate stored last has *)
(* been announced, or is about to be by the call that stored it: a reconnect *)
(* or a closed socket between the store, the test of ws_ready and the send   *)
(* loses no account, however many are stored by however many threads.        *)
Announcing(a) ==
    \E t \in Threads : call[t].op \in {"authTest", "authSend"} /\ call[t].on = a

AccountTold ==
    Live /\ ws_ready /\ auth_account_id # None =>
        auth_account_id \in auth_told \/ Announcing(auth_account_id)

(* Whenever nothing is on its way (no send under the lock, no removal to be  *)
(* read) a live, ready connection streams exactly what is registered and     *)
(* offered.                                                                  *)
ServedWhenQuiet ==
    Live /\ ws_ready /\ lock = None /\ (\A i \in Channels : ~RemovalPending(i)) =>
        \A i \in Channels : server[i] = "on" <=> active[i] # {} /\ Offered(i)

(* The registry and its connection as ConnectedService sees them.            *)
Service == INSTANCE ConnectedService
    WITH Topics <- Channels,
         wanted <- {w \in [id : Ids, topic : Channels] : w.id \in active[w.topic]},
         issued <- 1 .. id_counter,
         offered <- {i \in Channels : Offered(i)},
         up <- (link = "up"),
         flowing <- {i \in Channels : server[i] = "on"}

(* However calls, frames, drops and replays interleave: a stream starts only *)
(* for a registered callback, is never ended while one is left, and a        *)
(* callback goes only by its own unsubscribe or with a withdrawn grouping.   *)
KeepsService == Service!Spec

(* Every registered callback can be unsubscribed: its id has been returned,  *)
(* or its subscribe call is still running.                                   *)
NoOrphanedCallback ==
    \A i \in Channels : \A id \in active[i] :
        \/ id \in returned
        \/ \E t \in Threads : call[t].op = "subscribe" /\ call[t].id = id

(* A registered identifier is eventually asked for on whatever connection    *)
(* there is, unless it is unregistered or the client is stopped.             *)
SubscriptionServed ==
    \A i \in Channels :
        active[i] # {} ~>
            \/ server[i] # "none"
            \/ active[i] = {}
            \/ rpc = "done"
=============================================================================
