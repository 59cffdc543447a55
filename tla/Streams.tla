------------------------------- MODULE Streams -------------------------------
(* Who gets which frame: the facade Info.subscribe / Info.unsubscribe of     *)
(* upside/info.py with its tick-size cache, on top of the registry of        *)
(* upside/websocket_manager.py.                                              *)
(*                                                                           *)
(* The facade takes no lock.  A call that names a grouping reads the cache,  *)
(* asks the server for configs and stores the answer in separate steps, so   *)
(* calls of other threads come in between and an answer can be stored after  *)
(* a newer one.  The registry's own step, done under its lock, is atomic     *)
(* here and the connection is up: WebsocketManager has the details of both.  *)
(*                                                                           *)
(* External, modelled from how the code uses it: the server, which lists     *)
(* contracts, names their tick sizes, and streams what it is asked for.      *)
EXTENDS Routing, Sequences, FiniteSets

CONSTANTS
    Threads,    \* threads of the application
    None,       \* no cached tick sizes
    Later,      \* contracts that are listed and delisted while the client runs
    TickSize,   \* the tickSize of each contract, 0 if it has none
    Mergeable,  \* the digitMerge groupings of each contract
    Asked,      \* subscriptions the application makes
    MaxIds      \* bound on the number of subscriptions registered

ASSUME ContractsAssumption ==
    /\ Later \subseteq Contracts /\ "None" \notin Contracts
    /\ TickSize \in [Contracts -> Nat]
    /\ Mergeable \in [Contracts -> SUBSET (Groups \ {0})]
(* A call is refused, or has every field with a value that fits.            *)
ASSUME AskedAssumption ==
    /\ \A s \in Asked : Normalizable(s) /\ Identifiable(s) => s \in Subscriptions
    /\ MaxIds \in Nat
ASSUME CacheAssumption == \A D \in SUBSET Contracts : None \notin [D -> Nat]

VARIABLES
    tick_sizes,  \* _tick_sizes: tickSize per contract, or None
    call,        \* per thread, the facade call between two of its steps
    asked,       \* the subscription of each id handed out, in the order of ids
    entries,     \* _active, as the set of its entries with their identifiers
    dropped,     \* ids for which an unsubscribe call has returned
    listed,      \* contracts the server lists
    offered,     \* groupings the server still offers, per contract
    streams      \* what the server streams to this connection

client == <<tick_sizes, call>>
registry == <<asked, entries, dropped>>
remote == <<listed, offered, streams>>
vars == <<client, registry, remote>>

Ids == 1 .. MaxIds
NoSub == [type |-> "none"]
NoCall == [pc |-> "idle", sub |-> NoSub, id |-> 0, raw |-> FALSE, refresh |-> FALSE,
           configs |-> {}]

Init ==
    /\ tick_sizes = None
    /\ call = [t \in Threads |-> NoCall]
    /\ asked = <<>>
    /\ entries = {}
    /\ dropped = {}
    /\ listed = Contracts \ Later
    /\ offered = Mergeable
    /\ streams = {}

-----------------------------------------------------------------------------
(* The server.                                                               *)

(* The stream a subscription names: its tickSize grouping is the raw book.   *)
StreamNamed(s) ==
    CASE s.type = "l2Book" ->
            IF GroupOf(s) = TickSize[s.asset.value]
            THEN Identifier("l2Book", s.asset.value, NoPart)
            ELSE Identifier("l2Book", s.asset.value, GroupOf(s))
      [] s.type \in AssetTypes -> Identifier(s.type, s.asset.value, NoPart)
      [] s.type = "candle" -> Identifier("candle", s.asset.value, s.interval)
      [] s.type \in UserTypes -> Identifier(s.type, LowerCase[s.user], NoPart)
      [] s.type = "userAccount" ->
            Identifier("userAccount", LowerCase[s.user], s.marketDeployerId.value)
      [] OTHER -> Identifier(s.type, "", NoPart)

AboutContract(s) == "asset" \in DOMAIN s

ContractTypes == {"l2Book", "candle"} \cup AssetTypes

(* It streams listed contracts and offered groupings only.                   *)
Available(st) ==
    /\ st.type \in ContractTypes => st.key \in listed
    /\ st.type = "l2Book" /\ st.part # NoPart => st.part \in offered[st.key]

(* It refuses a numeric asset and an address that is not in lower case.      *)
WireForm(s) ==
    /\ AboutContract(s) => s.asset.text
    /\ "user" \in DOMAIN s => s.user \in Addresses
    /\ "group" \in DOMAIN s => ~s.group.text

Granted(s) == IF WireForm(s) /\ Available(StreamNamed(s)) THEN {StreamNamed(s)} ELSE {}

(* The frames of a stream: an address in any case, trades with or without    *)
(* one, candles in both forms, an account view that names its deployer or    *)
(* does not.                                                                 *)
Frame(channel, suffix, deployer, data) ==
    [channel |-> channel, suffix |-> suffix, deployer |-> deployer, data |-> data]

FramesOf(st) ==
    CASE st.type = "l2Book" ->
            {Frame("l2Book", "", Unnamed, [asset |-> st.key, group |-> st.part])}
                \cup {Frame("l2Book", "", Unnamed, [asset |-> st.key]) : n \in {NoPart} \cap {st.part}}
      [] st.type = "bbo" -> {Frame("bbo", "", Unnamed, [asset |-> st.key])}
      [] st.type = "trades" -> {Frame("trades", "", Unnamed, [asset |-> st.key])}
      [] st.type = "ticker" -> {Frame("ticker", st.key, Unnamed, [asset |-> st.key])}
      [] st.type = "candle" ->
            {Frame("candle", "", Unnamed, [s |-> st.key, i |-> st.part]),
             Frame("candle", "", Unnamed,
                   [asset |-> st.key, interval |-> st.part, candles |-> "bars"])}
      [] st.type \in UserTypes ->
            {Frame(IF st.type = "userFills" THEN "fills" ELSE st.type, u, Unnamed, <<>>) :
                u \in {v \in DOMAIN LowerCase : LowerCase[v] = st.key}}
      [] st.type = "userAccount" ->
            UNION {{Frame("userAccount", u, st.part, [equity |-> "any"]),
                    Frame("userAccount", u, Unnamed, [marketDeployerId |-> st.part])} :
                u \in {v \in DOMAIN LowerCase : LowerCase[v] = st.key}}
      [] OTHER -> {Frame(st.type, "", Unnamed, <<>>)}

(* A frame that names no deployer is for every account view of its address.  *)
FramesForAll(st) ==
    IF st.type = "userAccount"
    THEN {Frame("userAccount", u, Unnamed, [equity |-> "any"]) :
            u \in {v \in DOMAIN LowerCase : LowerCase[v] = st.key}}
    ELSE {}

-----------------------------------------------------------------------------
(* The facade.                                                               *)

Goto(t, pc) == call' = [call EXCEPT ![t].pc = pc]
Return(t) == call' = [call EXCEPT ![t] = NoCall]

(* Only an l2Book subscription with a group needs the tick size; an int 0    *)
(* counts as no group, the text "0" does not.                                *)
NeedsTickSize(s) ==
    /\ s.type = "l2Book" /\ "group" \in DOMAIN s
    /\ s.group.value # 0 \/ s.group.text

(* A subscription that cannot be normalized or identified raises.            *)
Acceptable(s) == Normalizable(s) /\ Identifiable(s)

(* subscribe has no id yet; unsubscribe names one, and a subscription with   *)
(* the same meaning as the one that was subscribed.                          *)
CallOf(pc, s, id) == [NoCall EXCEPT !.pc = pc, !.sub = s, !.id = id]

MayName(s, id) ==
    id # 0 => /\ id \in DOMAIN asked /\ Acceptable(s)
              /\ StreamNamed(s) = StreamNamed(asked[id])

Begin(t, s, id) ==
    /\ call[t] = NoCall /\ NeedsTickSize(s) /\ MayName(s, id)
    /\ call' = [call EXCEPT ![t] = CallOf("look", s, id)]
    /\ UNCHANGED <<tick_sizes, registry, remote>>

(* A call that is about to reach the registry: one that has looked up what   *)
(* it needs, or one that needs nothing.                                      *)
Reaching(t, c) ==
    \/ call[t].pc = "register" /\ c = call[t]
    \/ /\ call[t] = NoCall /\ ~NeedsTickSize(c.sub) /\ MayName(c.sub, c.id)
       /\ c = CallOf("register", c.sub, c.id)

(* str() of a missing asset is a text no contract has.                       *)
AssetText(s) == IF AboutContract(s) THEN s.asset.value ELSE "None"

(* _tick_size, first round: fetch when nothing is cached.                    *)
Look(t) ==
    /\ call[t].pc = "look"
    /\ Goto(t, IF tick_sizes = None THEN "fetch" ELSE "has")
    /\ UNCHANGED <<tick_sizes, registry, remote>>

(* The server answers configs with what it lists at that moment...           *)
Fetch(t) ==
    /\ call[t].pc = "fetch"
    /\ call' = [call EXCEPT ![t].pc = "store", ![t].configs = listed]
    /\ UNCHANGED <<tick_sizes, registry, remote>>

(* ... or the query fails, and its exception leaves the call.                *)
FetchFails(t) ==
    /\ call[t].pc = "fetch"
    /\ Return(t)
    /\ UNCHANGED <<tick_sizes, registry, remote>>

CachedWithMiss(t) ==
    [c \in call[t].configs \cup {AssetText(call[t].sub)} |->
        IF c \in call[t].configs THEN TickSize[c] ELSE 0]
Cached(t) == [c \in call[t].configs |-> TickSize[c]]

Store(t) ==
    /\ call[t].pc = "store"
    /\ tick_sizes' = Cached(t)
    /\ call' = [call EXCEPT ![t].pc = "has", ![t].configs = {}]
    /\ UNCHANGED <<registry, remote>>

(* asset in _tick_sizes; a miss is refetched once.                           *)
Has(t) ==
    /\ call[t].pc = "has"
    /\ IF AssetText(call[t].sub) \in DOMAIN tick_sizes THEN Goto(t, "read")
       ELSE IF call[t].refresh
            THEN call' = [call EXCEPT ![t].pc = "register", ![t].refresh = FALSE]
       ELSE call' = [call EXCEPT ![t].pc = "fetch", ![t].refresh = TRUE]
    /\ UNCHANGED <<tick_sizes, registry, remote>>

(* A tickSize of 0 is none; a group equal to the tickSize is the raw book.   *)
IsRawBookNever(s, tick) == FALSE
IsRawBook(s, tick) == tick # 0 /\ s.group.value = tick

(* _tick_sizes[asset]: a KeyError if another thread has stored a cache       *)
(* without the contract since.                                               *)
Read(t) ==
    /\ call[t].pc = "read"
    /\ LET asset == AssetText(call[t].sub) IN
        IF asset \in DOMAIN tick_sizes
        THEN call' = [call EXCEPT ![t].pc = "register", ![t].refresh = FALSE,
                                  ![t].raw = IsRawBook(call[t].sub, tick_sizes[asset])]
        ELSE Return(t)
    /\ UNCHANGED <<tick_sizes, registry, remote>>

-----------------------------------------------------------------------------
(* The registry.                                                             *)

Ungrouped(s) == [f \in DOMAIN s \ {"group"} |-> s[f]]
MappedToSubscribe(c) == IF c.raw /\ c.id = 0 THEN Ungrouped(c.sub) ELSE c.sub
Mapped(c) == IF c.raw THEN Ungrouped(c.sub) ELSE c.sub

Under(identifier) == {e \in entries : e.identifier = identifier}

Refuse(t, c) ==
    /\ Reaching(t, c) /\ ~Acceptable(Mapped(c))
    /\ Return(t)
    /\ UNCHANGED <<tick_sizes, registry, remote>>

RegisterSubscribe(t, c) ==
    /\ Reaching(t, c) /\ Acceptable(Mapped(c))
    /\ c.id = 0 /\ Len(asked) < MaxIds
    /\ LET wire == Normalize(Mapped(c))
           identifier == SubscriptionToIdentifier(wire)
       IN  /\ asked' = Append(asked, c.sub)
           /\ entries' = entries \cup
                  {[id |-> Len(asked) + 1, identifier |-> identifier, wire |-> wire]}
           /\ streams' = IF Under(identifier) = {} THEN streams \cup Granted(wire) ELSE streams
    /\ Return(t)
    /\ UNCHANGED <<tick_sizes, dropped, listed, offered>>

(* The entries that unsubscribe takes out: those of its id only.             *)
MineAndOthers(identifier, id) == Under(identifier)
Mine(identifier, id) == {e \in Under(identifier) : e.id = id}

LastUnderNever(identifier, mine) == FALSE
LastUnder(identifier, mine) == mine # {} /\ mine = Under(identifier)

RegisterUnsubscribe(t, c) ==
    /\ Reaching(t, c) /\ Acceptable(Mapped(c))
    /\ c.id # 0
    /\ LET wire == Normalize(Mapped(c))
           identifier == SubscriptionToIdentifier(wire)
           mine == Mine(identifier, c.id)
       IN  /\ entries' = entries \ mine
           /\ streams' = IF LastUnder(identifier, mine) THEN streams \ Granted(wire) ELSE streams
    /\ dropped' = dropped \cup {c.id}
    /\ Return(t)
    /\ UNCHANGED <<tick_sizes, asked, listed, offered>>

(* The callbacks that _on_message hands a frame to, by id.                   *)
ReachedExactOnly(f) == {e.id : e \in Under(WsMessageToIdentifier(f))}
Reached(f) ==
    LET identifier == WsMessageToIdentifier(f) IN
    IF Under(identifier) = {} /\ identifier.part = Unnamed
    THEN {e.id : e \in {d \in entries : d.identifier.type = identifier.type
                                           /\ d.identifier.key = identifier.key}}
    ELSE {e.id : e \in Under(identifier)}

(* After a reconnect, _on_open replays the first entry of every identifier.  *)
First(e) == \A d \in Under(e.identifier) : e.id <= d.id

Reconnect ==
    /\ streams' = UNION {Granted(e.wire) : e \in {d \in entries : First(d)}}
    /\ UNCHANGED <<client, registry, listed, offered>>

-----------------------------------------------------------------------------
(* The server's own steps.                                                   *)

List(c) ==
    /\ c \in Later \ listed
    /\ listed' = listed \cup {c}
    /\ UNCHANGED <<client, registry, offered, streams>>

(* A delisted contract is in no later answer, and its streams end.           *)
Delist(c) ==
    /\ c \in Later \cap listed
    /\ listed' = listed \ {c}
    /\ streams' = {st \in streams : ~(st.type \in ContractTypes /\ st.key = c)}
    /\ UNCHANGED <<client, registry, offered>>

(* A grouping is removed; its subscribers get a GroupRemoved frame, and the  *)
(* registry forgets the identifier that the frame names.                     *)
GroupRemoved(c, g) == Frame("l2Book", "any", Unnamed, [asset |-> c, group |-> g])

RemoveGroup(c, g) ==
    /\ g \in offered[c] \ {TickSize[c]}
    /\ offered' = [offered EXCEPT ![c] = @ \ {g}]
    /\ LET st == Identifier("l2Book", c, g) IN
        IF st \in streams
        THEN /\ streams' = streams \ {st}
             /\ entries' = entries \ Under(WsMessageToIdentifier(GroupRemoved(c, g)))
        ELSE UNCHANGED <<streams, entries>>
    /\ UNCHANGED <<client, asked, dropped, listed>>

-----------------------------------------------------------------------------
LookupStep(t) == Look(t) \/ Fetch(t) \/ FetchFails(t) \/ Store(t) \/ Has(t) \/ Read(t)

RegistryStep(t, c) == Refuse(t, c) \/ RegisterSubscribe(t, c) \/ RegisterUnsubscribe(t, c)

CallStep(t) ==
    \/ LookupStep(t)
    \/ RegistryStep(t, call[t])
    \/ /\ call[t] = NoCall
       /\ \E s \in Asked, id \in Ids \cup {0} :
             Begin(t, s, id) \/ RegistryStep(t, CallOf("register", s, id))

Next ==
    \/ \E t \in Threads : CallStep(t)
    \/ Reconnect
    \/ \E c \in Contracts : List(c) \/ Delist(c) \/ \E g \in Groups : RemoveGroup(c, g)

Spec == Init /\ [][Next]_vars

-----------------------------------------------------------------------------
(* Properties.  Those that depend on the tick size of a contract hold for    *)
(* the contracts that stay listed, whatever else comes and goes meanwhile.   *)

Settled(s) == AboutContract(s) => s.asset.value \in Contracts \ Later

(* Values of every variable.                                                 *)
TypeOK ==
    /\ tick_sizes # None =>
          /\ DOMAIN tick_sizes \subseteq Contracts
          /\ \A c \in DOMAIN tick_sizes : tick_sizes[c] = TickSize[c]
    /\ call \in [Threads ->
            [pc : {"idle", "look", "fetch", "store", "has", "read", "register"},
             sub : Asked \cup {NoSub}, id : Ids \cup {0}, raw : BOOLEAN,
             refresh : BOOLEAN, configs : SUBSET Contracts]]
    /\ asked \in Seq(Asked) /\ Len(asked) <= MaxIds
    /\ \A e \in entries : e.id \in DOMAIN asked
    /\ dropped \subseteq DOMAIN asked
    /\ listed \subseteq Contracts
    /\ offered \in [Contracts -> SUBSET Groups]

(* A callback gets no frame of another stream than the one it asked for; a   *)
(* frame that names no deployer goes to callbacks of its address only.       *)
RoutedRight ==
    \A st \in streams :
        /\ \A f \in FramesOf(st) : \A id \in Reached(f) : StreamNamed(asked[id]) = st
        /\ \A f \in FramesForAll(st) : \A id \in Reached(f) :
                StreamNamed(asked[id]).type = st.type /\ StreamNamed(asked[id]).key = st.key

(* Every frame of a stream reaches every callback registered for it, however *)
(* the subscription and the frame are spelled; a frame that names no         *)
(* deployer reaches every account view of its address.                       *)
RoutedAll ==
    \A st \in streams, e \in entries :
        Settled(asked[e.id]) =>
            /\ StreamNamed(asked[e.id]) = st => \A f \in FramesOf(st) : e.id \in Reached(f)
            /\ StreamNamed(asked[e.id]).type = st.type /\ StreamNamed(asked[e.id]).key = st.key
                  => \A f \in FramesForAll(st) : e.id \in Reached(f)

(* A registered callback is being served whenever the server has what it     *)
(* asked for: the wire form is one the server takes, and no unsubscribe of   *)
(* another callback turned the stream off.                                   *)
Served ==
    \A e \in entries :
        Settled(asked[e.id]) /\ Available(StreamNamed(asked[e.id]))
            => StreamNamed(asked[e.id]) \in streams

(* A stream that no callback asked for is not left running.                  *)
NothingLeftRunning ==
    \A st \in streams : \E e \in entries : StreamNamed(asked[e.id]) = st

(* A callback whose unsubscribe call has returned is gone, whatever happened *)
(* to the cache between the two calls.                                       *)
Unsubscribed ==
    \A e \in entries : Settled(asked[e.id]) => e.id \notin dropped

(* The same of every contract: what unsubscribe says of itself.              *)
UnsubscribedAnyContract == \A e \in entries : e.id \notin dropped

(* A call that found its contract in the cache finds it there when it reads  *)
(* the tick size: what the lookup says of a miss, that it is refetched.      *)
LookupSafe ==
    \A t \in Threads : call[t].pc = "read" => AssetText(call[t].sub) \in DOMAIN tick_sizes

-----------------------------------------------------------------------------
(* The abstract service, of the contracts that stay listed.                  *)

Topics == {StreamNamed(s) : s \in {a \in Asked \cap Subscriptions : Settled(a)}}

LastingEntries == {e \in entries : Settled(asked[e.id])}
Wanted == {[id |-> e.id, topic |-> StreamNamed(asked[e.id])] : e \in LastingEntries}
IssuedIds == {id \in DOMAIN asked : Settled(asked[id])}
OfferedTopics == {st \in Topics : Available(st)}

Service == INSTANCE SubscriptionService
    WITH wanted <- Wanted, issued <- IssuedIds, offered <- OfferedTopics,
         flowing <- streams \cap Topics

(* The facade, the registry and the server together do what the service      *)
(* promises: each call changes what its own callback wants and nothing else, *)
(* whatever other threads, lookups and reconnects come in between.           *)
ActsAsService == Service!Spec
=============================================================================
