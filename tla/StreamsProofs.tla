---------------------------- MODULE StreamsProofs ----------------------------
(* Proofs about Streams: which callback gets which frame, that the streams   *)
(* of the server and the callbacks of the registry fit whatever becomes of   *)
(* the tick-size cache, for every number of threads, contract, grouping and  *)
(* spelling.                                                                 *)
EXTENDS Streams, TLAPS, WellFoundedInduction

(* What an identifier names: the grouping of the tick size is the raw book.  *)
Meaning(i) ==
    IF i.type = "l2Book" /\ i.part = TickSize[i.key] THEN Identifier("l2Book", i.key, NoPart) ELSE i

(* The identifier that the registry keeps a subscription under.              *)
Ident(s) == SubscriptionToIdentifier(Normalize(s))

-----------------------------------------------------------------------------
(* Subscriptions and the identifiers they are kept under.                    *)

(* What a subscription of each type consists of.                             *)
LEMMA Kinds ==
    ASSUME NEW s \in Subscriptions
    PROVE  \/ /\ s.type = "l2Book" /\ DOMAIN s \in {{"type", "asset"}, {"type", "asset", "group"}}
              /\ s.asset \in Spelled(Contracts)
              /\ "group" \in DOMAIN s => s.group \in Spelled(Groups)
           \/ s.type \in AssetTypes /\ DOMAIN s = {"type", "asset"} /\ s.asset \in Spelled(Contracts)
           \/ /\ s.type = "candle" /\ DOMAIN s = {"type", "asset", "interval"}
              /\ s.asset \in Spelled(Contracts) /\ s.interval \in Nat
           \/ s.type \in UserTypes /\ DOMAIN s = {"type", "user"} /\ s.user \in DOMAIN LowerCase
           \/ /\ s.type = "userAccount" /\ DOMAIN s = {"type", "user", "marketDeployerId"}
              /\ s.user \in DOMAIN LowerCase /\ s.marketDeployerId \in Spelled(Deployers)
           \/ s.type \in PlainTypes /\ DOMAIN s = {"type"}
<1>1. CASE s \in [type : {"l2Book"} \cup AssetTypes, asset : Spelled(Contracts)]
  BY <1>1
<1>2. CASE s \in [type : {"l2Book"}, asset : Spelled(Contracts), group : Spelled(Groups)]
  BY <1>2
<1>3. CASE s \in [type : {"candle"}, asset : Spelled(Contracts), interval : Nat]
  BY <1>3
<1>4. CASE s \in [type : UserTypes, user : DOMAIN LowerCase]
  BY <1>4
<1>5. CASE s \in [type : {"userAccount"}, user : DOMAIN LowerCase, marketDeployerId : Spelled(Deployers)]
  BY <1>5
<1>6. CASE s \in [type : PlainTypes]
  BY <1>6
<1> QED BY <1>1, <1>2, <1>3, <1>4, <1>5, <1>6 DEF Subscriptions

(* Normalizing changes how a field is spelled and nothing else.              *)
LEMMA NormalForm ==
    ASSUME NEW s \in Subscriptions
    PROVE  LET n == Normalize(s) IN
           /\ DOMAIN n = DOMAIN s /\ n.type = s.type
           /\ "asset" \in DOMAIN s => n.asset.value = s.asset.value /\ n.asset.text = TRUE
           /\ "group" \in DOMAIN s => n.group.value = s.group.value /\ n.group.text = FALSE
           /\ "user" \in DOMAIN s => n.user = LowerCase[s.user]
           /\ "interval" \in DOMAIN s => n.interval = s.interval
           /\ "marketDeployerId" \in DOMAIN s => n.marketDeployerId = s.marketDeployerId
<1> DEFINE n == Normalize(s)
<1>1. "type" \in DOMAIN s
  BY Kinds
<1>2. DOMAIN n = DOMAIN s /\ n.type = s.type
  BY <1>1 DEF Normalize
<1>3. "asset" \in DOMAIN s => n.asset.value = s.asset.value /\ n.asset.text = TRUE
  <2>1. "asset" \in DOMAIN s => n.asset = AsText(s.asset) /\ s.asset \in Spelled(Contracts)
    BY Kinds DEF Normalize
  <2> QED BY <2>1 DEF AsText, Spelled
<1>4. "group" \in DOMAIN s => n.group.value = s.group.value /\ n.group.text = FALSE
  <2>1. "group" \in DOMAIN s => n.group = AsInt(s.group) /\ s.group \in Spelled(Groups)
    BY Kinds DEF Normalize
  <2> QED BY <2>1 DEF AsInt, Spelled
<1>5. /\ "user" \in DOMAIN s => n.user = LowerCase[s.user]
      /\ "interval" \in DOMAIN s => n.interval = s.interval
      /\ "marketDeployerId" \in DOMAIN s => n.marketDeployerId = s.marketDeployerId
  BY DEF Normalize
<1> QED BY <1>2, <1>3, <1>4, <1>5

(* The identifier of a subscription, kind by kind.                           *)
LEMMA IdentOf ==
    ASSUME NEW s \in Subscriptions
    PROVE  /\ s.type = "l2Book" => Ident(s) = Identifier("l2Book", s.asset.value, GroupOf(s))
           /\ s.type \in AssetTypes => Ident(s) = Identifier(s.type, s.asset.value, NoPart)
           /\ s.type = "candle" => Ident(s) = Identifier("candle", s.asset.value, s.interval)
           /\ s.type \in UserTypes => Ident(s) = Identifier(s.type, LowerCase[s.user], NoPart)
           /\ s.type = "userAccount" =>
                Ident(s) = Identifier("userAccount", LowerCase[s.user], s.marketDeployerId.value)
           /\ s.type \in PlainTypes => Ident(s) = Identifier(s.type, "", NoPart)
<1> DEFINE n == Normalize(s)
<1>1. /\ DOMAIN n = DOMAIN s /\ n.type = s.type
      /\ "asset" \in DOMAIN s => n.asset.value = s.asset.value
      /\ "group" \in DOMAIN s => n.group.value = s.group.value
      /\ "user" \in DOMAIN s => n.user = LowerCase[s.user]
      /\ "interval" \in DOMAIN s => n.interval = s.interval
      /\ "marketDeployerId" \in DOMAIN s => n.marketDeployerId = s.marketDeployerId
  BY NormalForm
<1> HIDE DEF n
<1>2. CASE s.type = "l2Book"
  <2>1. "asset" \in DOMAIN s
    BY <1>2, Kinds DEF AssetTypes, UserTypes, PlainTypes
  <2>2. GroupOf(n) = GroupOf(s)
    BY <1>1 DEF GroupOf
  <2>3. SubscriptionToIdentifier(n) = Identifier("l2Book", s.asset.value, GroupOf(s))
    BY <1>1, <1>2, <2>1, <2>2 DEF SubscriptionToIdentifier, L2BookIdentifier, AssetTypes, UserTypes
  <2> QED BY <1>2, <2>3 DEF Ident, n, AssetTypes, UserTypes, PlainTypes
<1>3. CASE s.type \in AssetTypes \cup {"candle"}
  <2>1. "asset" \in DOMAIN s /\ (s.type = "candle" => "interval" \in DOMAIN s)
    BY <1>3, Kinds DEF AssetTypes, UserTypes, PlainTypes
  <2>2. /\ s.type \in AssetTypes =>
             SubscriptionToIdentifier(n) = Identifier(s.type, s.asset.value, NoPart)
        /\ s.type = "candle" =>
             SubscriptionToIdentifier(n) = Identifier("candle", s.asset.value, s.interval)
    BY <1>1, <1>3, <2>1 DEF SubscriptionToIdentifier, AssetTypes, UserTypes
  <2> QED BY <1>3, <2>2 DEF Ident, n, AssetTypes, UserTypes, PlainTypes
<1>4. CASE s.type \in UserTypes \cup {"userAccount"}
  <2>1. /\ "user" \in DOMAIN s /\ s.user \in DOMAIN LowerCase
        /\ s.type = "userAccount" => "marketDeployerId" \in DOMAIN s
    BY <1>4, Kinds DEF AssetTypes, UserTypes, PlainTypes
  <2>2. LowerCase[n.user] = LowerCase[s.user]
    BY <1>1, <2>1, SpellingsAssumption
  <2>3. /\ s.type \in UserTypes =>
             SubscriptionToIdentifier(n) = Identifier(s.type, LowerCase[s.user], NoPart)
        /\ s.type = "userAccount" =>
             SubscriptionToIdentifier(n)
                = Identifier("userAccount", LowerCase[s.user], s.marketDeployerId.value)
    BY <1>1, <1>4, <2>1, <2>2 DEF SubscriptionToIdentifier, UserIdentifier, AssetTypes, UserTypes
  <2> QED BY <1>4, <2>3 DEF Ident, n, AssetTypes, UserTypes, PlainTypes
<1>5. CASE s.type \in PlainTypes
  <2>1. SubscriptionToIdentifier(n) = Identifier(s.type, "", NoPart)
    BY <1>1, <1>5 DEF SubscriptionToIdentifier, AssetTypes, UserTypes, PlainTypes
  <2> QED BY <1>5, <2>1 DEF Ident, n, AssetTypes, UserTypes, PlainTypes
<1> QED BY <1>2, <1>3, <1>4, <1>5, Kinds

(* The parts of the identifier of a subscription.                            *)
LEMMA IdentFields ==
    ASSUME NEW s \in Subscriptions
    PROVE  /\ Ident(s) = Identifier(s.type, Ident(s).key, Ident(s).part)
           /\ Ident(s).type = s.type /\ Ident(s).part \in Nat
           /\ s.type \in {"l2Book", "candle"} \cup AssetTypes <=> AboutContract(s)
           /\ AboutContract(s) => Ident(s).key = s.asset.value /\ s.asset.value \in Contracts
<1> DEFINE i == Ident(s)
<1>1. PICK key, part : i = Identifier(s.type, key, part) /\ part \in Nat /\
                         (s.type \in {"l2Book", "candle"} \cup AssetTypes => key = s.asset.value)
  <2>1. CASE s.type = "l2Book"
    <3>1. GroupOf(s) \in Nat
      BY <2>1, Kinds, NumbersAssumption DEF GroupOf, NoPart, Spelled, AssetTypes, UserTypes, PlainTypes
    <3> QED BY <2>1, <3>1, IdentOf
  <2>2. CASE s.type = "candle"
    <3>1. s.interval \in Nat
      BY <2>2, Kinds DEF AssetTypes, UserTypes, PlainTypes
    <3> QED BY <2>2, <3>1, IdentOf
  <2>3. CASE s.type = "userAccount"
    <3>1. s.marketDeployerId.value \in Nat
      BY <2>3, Kinds, NumbersAssumption DEF Spelled, AssetTypes, UserTypes, PlainTypes
    <3> QED BY <2>3, <3>1, IdentOf DEF AssetTypes
  <2>4. CASE s.type \in AssetTypes
    BY <2>4, IdentOf DEF NoPart
  <2>5. CASE s.type \in UserTypes
    BY <2>5, IdentOf DEF NoPart, UserTypes, AssetTypes
  <2>6. CASE s.type \in PlainTypes
    BY <2>6, IdentOf DEF NoPart, PlainTypes, AssetTypes
  <2> QED BY <2>1, <2>2, <2>3, <2>4, <2>5, <2>6, Kinds
<1>2. i.type = s.type /\ i.key = key /\ i.part = part
  BY <1>1 DEF Identifier
<1>3. /\ s.type \in {"l2Book", "candle"} \cup AssetTypes <=> AboutContract(s)
      /\ AboutContract(s) => s.asset.value \in Contracts
  BY Kinds DEF AboutContract, Spelled, AssetTypes, UserTypes, PlainTypes
<1> QED BY <1>1, <1>2, <1>3

(* The parts of the stream that an identifier means.                         *)
LEMMA MeaningFields ==
    ASSUME NEW s \in Subscriptions
    PROVE  LET m == Meaning(Ident(s)) IN
           /\ m = Identifier(s.type, Ident(s).key, m.part) /\ m.part \in Nat
           /\ m.type = s.type /\ m.key = Ident(s).key
           /\ s.type # "l2Book" => m = Ident(s)
           /\ s.type = "l2Book" /\ m.part = TickSize[m.key] => m.part = NoPart
           /\ Meaning(m) = m
<1> DEFINE i == Ident(s)  m == Meaning(i)
<1>1. i = Identifier(s.type, i.key, i.part) /\ i.type = s.type /\ i.part \in Nat
  BY IdentFields
<1> HIDE DEF i
<1>2. CASE i.type = "l2Book" /\ i.part = TickSize[i.key]
  <2>1. m = Identifier("l2Book", i.key, NoPart)
    BY <1>2 DEF Meaning
  <2>2. m.type = "l2Book" /\ m.key = i.key /\ m.part = NoPart
    BY <2>1 DEF Identifier
  <2> QED BY <1>1, <1>2, <2>1, <2>2 DEF Meaning, NoPart, i
<1>3. CASE ~(i.type = "l2Book" /\ i.part = TickSize[i.key])
  <2>1. m = i
    BY <1>3 DEF Meaning
  <2> QED BY <1>1, <1>3, <2>1 DEF Meaning, i
<1> QED BY <1>2, <1>3

(* The stream a subscription names is what its identifier means, and so it   *)
(* stays when the subscription is normalized.                                *)
LEMMA NamedByIdent ==
    ASSUME NEW s \in Subscriptions
    PROVE  StreamNamed(s) = Meaning(Ident(s))
<1>1. CASE s.type = "l2Book"
  <2>1. s.asset.value \in Contracts
    BY <1>1, Kinds DEF Spelled, AssetTypes, UserTypes, PlainTypes
  <2>2. Ident(s) = Identifier("l2Book", s.asset.value, GroupOf(s))
    BY <1>1, IdentOf
  <2>3. Meaning(Ident(s)) = IF GroupOf(s) = TickSize[s.asset.value]
                            THEN Identifier("l2Book", s.asset.value, NoPart) ELSE Ident(s)
    BY <2>2 DEF Meaning, Identifier
  <2> QED BY <1>1, <2>2, <2>3 DEF StreamNamed, AssetTypes, UserTypes
<1>2. CASE s.type # "l2Book"
  <2>1. StreamNamed(s) = Ident(s)
    <3>1. CASE s.type \in AssetTypes \cup {"candle"}
      BY <3>1, IdentOf DEF StreamNamed, AssetTypes, UserTypes
    <3>2. CASE s.type \in UserTypes \cup {"userAccount"}
      BY <3>2, IdentOf DEF StreamNamed, AssetTypes, UserTypes
    <3>3. CASE s.type \in PlainTypes
      BY <3>3, IdentOf DEF StreamNamed, AssetTypes, UserTypes, PlainTypes
    <3> QED BY <1>2, <3>1, <3>2, <3>3, Kinds
  <2>2. Ident(s).type = s.type
    BY IdentFields
  <2> QED BY <1>2, <2>1, <2>2 DEF Meaning
<1> QED BY <1>1, <1>2

(* Normalizing changes the spelling, not the stream that is named.           *)
LEMMA WireNamesTheSame ==
    ASSUME NEW s \in Subscriptions
    PROVE  StreamNamed(Normalize(s)) = StreamNamed(s) /\ WireForm(Normalize(s))
<1> DEFINE n == Normalize(s)
<1>1. /\ DOMAIN n = DOMAIN s /\ n.type = s.type
      /\ "asset" \in DOMAIN s => n.asset.value = s.asset.value /\ n.asset.text = TRUE
      /\ "group" \in DOMAIN s => n.group.value = s.group.value /\ n.group.text = FALSE
      /\ "user" \in DOMAIN s => n.user = LowerCase[s.user]
      /\ "interval" \in DOMAIN s => n.interval = s.interval
      /\ "marketDeployerId" \in DOMAIN s => n.marketDeployerId = s.marketDeployerId
  BY NormalForm
<1> HIDE DEF n
<1>2. "user" \in DOMAIN s => s.user \in DOMAIN LowerCase /\ LowerCase[n.user] = LowerCase[s.user]
  <2>1. "user" \in DOMAIN s => s.user \in DOMAIN LowerCase
    BY Kinds
  <2> QED BY <1>1, <2>1, SpellingsAssumption
<1>3. GroupOf(n) = GroupOf(s)
  BY <1>1 DEF GroupOf
<1>4. WireForm(n)
  BY <1>1, <1>2 DEF WireForm, AboutContract, Addresses
<1>5. /\ s.type \in {"l2Book", "candle"} \cup AssetTypes => "asset" \in DOMAIN s
      /\ s.type = "candle" => "interval" \in DOMAIN s
      /\ s.type \in UserTypes \cup {"userAccount"} => "user" \in DOMAIN s
      /\ s.type = "userAccount" => "marketDeployerId" \in DOMAIN s
  BY Kinds DEF AssetTypes, UserTypes, PlainTypes
<1>6. StreamNamed(n) = StreamNamed(s)
  BY <1>1, <1>2, <1>3, <1>5 DEF StreamNamed, AssetTypes, UserTypes
<1> QED BY <1>4, <1>6 DEF n

(* Normalizing twice changes nothing more: Info.subscribe, the registry and  *)
(* the replay of _on_open may each do it to the same subscription.           *)
THEOREM NormalizedOnce ==
    ASSUME NEW s \in Subscriptions
    PROVE  Normalize(Normalize(s)) = Normalize(s)
<1> DEFINE n == Normalize(s)
<1>1. DOMAIN n = DOMAIN s
  BY NormalForm
<1>2. "asset" \in DOMAIN s => AsText(n["asset"]) = n["asset"]
  <2>1. "asset" \in DOMAIN s => n["asset"] = AsText(s["asset"]) /\ s["asset"] \in Spelled(Contracts)
    BY Kinds DEF Normalize
  <2> QED BY <2>1 DEF AsText, Spelled
<1>3. "group" \in DOMAIN s => AsInt(n["group"]) = n["group"]
  <2>1. "group" \in DOMAIN s => n["group"] = AsInt(s["group"]) /\ s["group"] \in Spelled(Groups)
    BY Kinds DEF Normalize
  <2> QED BY <2>1 DEF AsInt, Spelled
<1>4. "user" \in DOMAIN s => LowerCase[n["user"]] = n["user"]
  <2>1. "user" \in DOMAIN s => n["user"] = LowerCase[s["user"]] /\ s["user"] \in DOMAIN LowerCase
    BY Kinds DEF Normalize
  <2> QED BY <2>1, SpellingsAssumption
<1>5. n = [f \in DOMAIN n |-> n[f]]
  BY DEF Normalize
<1> HIDE DEF n
<1>6. Normalize(n) = [f \in DOMAIN n |-> n[f]]
  BY <1>1, <1>2, <1>3, <1>4 DEF Normalize
<1> QED BY <1>5, <1>6 DEF n

(* A grouping that names the raw book by its tickSize.                       *)
TickSizeGroup(s) == s.type = "l2Book" /\ GroupOf(s) # NoPart /\ GroupOf(s) = TickSize[s.asset.value]

(* subscription_to_identifier gives two subscriptions one identifier exactly *)
(* when they name one stream, however they are spelled.  The tickSize of a   *)
(* contract is the exception, which Info maps to the raw book.               *)
THEOREM IdentifierPerStream ==
    ASSUME NEW s \in Subscriptions, NEW r \in Subscriptions, ~TickSizeGroup(s), ~TickSizeGroup(r)
    PROVE  Ident(s) = Ident(r) <=> StreamNamed(s) = StreamNamed(r)
<1>1. ASSUME NEW u \in Subscriptions, ~TickSizeGroup(u)
      PROVE  Meaning(Ident(u)) = Ident(u)
  <2>1. CASE u.type = "l2Book"
    <3>1. Ident(u) = Identifier("l2Book", u.asset.value, GroupOf(u))
      BY <2>1, IdentOf
    <3> QED BY <1>1, <2>1, <3>1 DEF TickSizeGroup, Meaning, Identifier
  <2>2. CASE u.type # "l2Book"
    BY <2>2, IdentFields DEF Meaning
  <2> QED BY <2>1, <2>2
<1> QED BY <1>1, NamedByIdent

(* Subscriptions of one meaning are about the same contract.                 *)
LEMMA SameMeaning ==
    ASSUME NEW s \in Subscriptions, NEW a \in Subscriptions, Meaning(Ident(s)) = Meaning(Ident(a))
    PROVE  Settled(s) <=> Settled(a)
<1>1. s.type = a.type /\ Ident(s).key = Ident(a).key
  BY MeaningFields
<1>2. AboutContract(s) <=> AboutContract(a)
  BY <1>1, IdentFields
<1> QED BY <1>1, <1>2, IdentFields DEF Settled

-----------------------------------------------------------------------------
(* Frames and the streams they belong to.                                    *)

(* A frame of a stream is routed to the identifier of that stream.           *)
LEMMA FrameNamesStream ==
    ASSUME NEW s \in Subscriptions, NEW f \in FramesOf(Meaning(Ident(s)))
    PROVE  WsMessageToIdentifier(f) = Meaning(Ident(s))
<1> DEFINE st == Meaning(Ident(s))
<1>1. st = Identifier(s.type, st.key, st.part) /\ st.part \in Nat /\ st.type = s.type
  BY MeaningFields
<1>2. /\ s.type \in AssetTypes \cup UserTypes \cup PlainTypes => st.part = NoPart
      /\ s.type \in PlainTypes => st.key = ""
  <2>1. s.type \in AssetTypes \cup UserTypes \cup PlainTypes => st = Ident(s)
    BY MeaningFields DEF AssetTypes, UserTypes, PlainTypes
  <2>2. CASE s.type \in PlainTypes
    <3>1. st = Identifier(s.type, "", NoPart)
      BY <2>1, <2>2, IdentOf
    <3> HIDE DEF st
    <3>2. st.part = NoPart /\ st.key = ""
      BY <3>1 DEF Identifier
    <3> QED BY <3>2
  <2>3. CASE s.type \in AssetTypes \cup UserTypes
    <3>1. \E key : st = Identifier(s.type, key, NoPart)
      BY <2>1, <2>3, IdentOf
    <3>2. st.part = NoPart
      BY <3>1 DEF Identifier
    <3> QED BY <2>3, <3>2 DEF AssetTypes, UserTypes, PlainTypes
  <2> QED BY <2>2, <2>3
<1>3. f \in FramesOf(st)
  OBVIOUS
<1> HIDE DEF st
<1>4. CASE s.type = "l2Book"
  <2>1. \/ f = Frame("l2Book", "", Unnamed, [asset |-> st.key, group |-> st.part])
        \/ f = Frame("l2Book", "", Unnamed, [asset |-> st.key]) /\ st.part = NoPart
    BY <1>1, <1>3, <1>4 DEF FramesOf, UserTypes
  <2>2. f.channel = "l2Book" /\ f.data.asset = st.key /\ GroupOfData(f.data) = st.part
    <3>1. CASE f = Frame("l2Book", "", Unnamed, [asset |-> st.key, group |-> st.part])
      <4>1. f.channel = "l2Book" /\ f.data = [asset |-> st.key, group |-> st.part]
        BY <3>1 DEF Frame
      <4>2. "group" \in DOMAIN f.data /\ f.data.group = st.part /\ f.data.asset = st.key
        BY <4>1
      <4> QED BY <4>1, <4>2 DEF GroupOfData
    <3>2. CASE f = Frame("l2Book", "", Unnamed, [asset |-> st.key]) /\ st.part = NoPart
      <4>1. f.channel = "l2Book" /\ f.data = [asset |-> st.key]
        BY <3>2 DEF Frame
      <4>2. "group" \notin DOMAIN f.data /\ f.data.asset = st.key
        BY <4>1
      <4> QED BY <3>2, <4>1, <4>2 DEF GroupOfData
    <3> QED BY <2>1, <3>1, <3>2
  <2>3. WsMessageToIdentifier(f) = Identifier("l2Book", st.key, st.part)
    BY <2>2 DEF WsMessageToIdentifier, L2BookIdentifier, PlainTypes
  <2> QED BY <1>1, <1>4, <2>3 DEF st
<1>5. CASE s.type \in AssetTypes
  <2>1. /\ s.type = "ticker" => f = Frame("ticker", st.key, Unnamed, [asset |-> st.key])
        /\ s.type # "ticker" => f = Frame(s.type, "", Unnamed, [asset |-> st.key])
    BY <1>1, <1>3, <1>5 DEF FramesOf, UserTypes, AssetTypes
  <2>2. f.channel = s.type /\ f.data = [asset |-> st.key] /\ (s.type = "ticker" => f.suffix = st.key)
    <3>1. CASE s.type = "ticker"
      BY <2>1, <3>1 DEF Frame
    <3>2. CASE s.type # "ticker"
      <4>1. f = Frame(s.type, "", Unnamed, [asset |-> st.key])
        BY <2>1, <3>2
      <4> QED BY <3>2, <4>1 DEF Frame
    <3> QED BY <3>1, <3>2
  <2>3. "asset" \in DOMAIN f.data /\ f.data.asset = st.key
    BY <2>2
  <2>4. WsMessageToIdentifier(f) = Identifier(s.type, st.key, NoPart)
    BY <1>5, <2>2, <2>3 DEF WsMessageToIdentifier, AssetTypes, PlainTypes
  <2> QED BY <1>1, <1>2, <1>5, <2>4 DEF st
<1>6. CASE s.type = "candle"
  <2>1. \/ f = Frame("candle", "", Unnamed, [s |-> st.key, i |-> st.part])
        \/ f = Frame("candle", "", Unnamed,
                     [asset |-> st.key, interval |-> st.part, candles |-> "bars"])
    BY <1>1, <1>3, <1>6 DEF FramesOf, UserTypes
  <2>2. f.channel = "candle" /\ CandleIdentifier(f.data) = Identifier("candle", st.key, st.part)
    <3>1. CASE f = Frame("candle", "", Unnamed, [s |-> st.key, i |-> st.part])
      <4>1. f.channel = "candle" /\ f.data = [s |-> st.key, i |-> st.part]
        BY <3>1 DEF Frame
      <4>2. "candles" \notin DOMAIN f.data /\ f.data.s = st.key /\ f.data.i = st.part
        BY <4>1
      <4> QED BY <4>1, <4>2 DEF CandleIdentifier
    <3>2. CASE f = Frame("candle", "", Unnamed,
                         [asset |-> st.key, interval |-> st.part, candles |-> "bars"])
      <4>1. f.channel = "candle" /\ f.data = [asset |-> st.key, interval |-> st.part, candles |-> "bars"]
        BY <3>2 DEF Frame
      <4>2. "candles" \in DOMAIN f.data /\ f.data.asset = st.key /\ f.data.interval = st.part
        BY <4>1
      <4> QED BY <4>1, <4>2 DEF CandleIdentifier
    <3> QED BY <2>1, <3>1, <3>2
  <2>3. WsMessageToIdentifier(f) = Identifier("candle", st.key, st.part)
    BY <2>2 DEF WsMessageToIdentifier, PlainTypes
  <2> QED BY <1>1, <1>6, <2>3 DEF st
<1>7. CASE s.type \in UserTypes
  <2>1. PICK u \in DOMAIN LowerCase :
          /\ LowerCase[u] = st.key
          /\ f = Frame(IF s.type = "userFills" THEN "fills" ELSE s.type, u, Unnamed, <<>>)
    BY <1>1, <1>3, <1>7 DEF FramesOf, UserTypes
  <2>2. /\ f.channel \in {"orderUpdates", "openOrders", "fills"} /\ LowerCase[f.suffix] = st.key
        /\ UserChannelToType(f.channel) = s.type
    BY <1>7, <2>1 DEF Frame, UserChannelToType, UserTypes
  <2>3. WsMessageToIdentifier(f) = Identifier(s.type, st.key, NoPart)
    BY <2>2 DEF WsMessageToIdentifier, UserIdentifier, PlainTypes
  <2> QED BY <1>1, <1>2, <1>7, <2>3 DEF st
<1>8. CASE s.type = "userAccount"
  <2>1. PICK u \in DOMAIN LowerCase :
          /\ LowerCase[u] = st.key
          /\ \/ f = Frame("userAccount", u, st.part, [equity |-> "any"])
             \/ f = Frame("userAccount", u, Unnamed, [marketDeployerId |-> st.part])
    BY <1>1, <1>3, <1>8 DEF FramesOf, UserTypes
  <2>2. st.part # Unnamed
    BY <1>1 DEF Unnamed
  <2>3. f.channel = "userAccount" /\ LowerCase[f.suffix] = st.key /\ DeployerOfFrame(f) = st.part
    BY <2>1, <2>2 DEF Frame, DeployerOfFrame
  <2>4. WsMessageToIdentifier(f) = Identifier("userAccount", st.key, st.part)
    BY <2>3 DEF WsMessageToIdentifier, UserIdentifier, PlainTypes
  <2> QED BY <1>1, <1>8, <2>4 DEF st
<1>9. CASE s.type \in PlainTypes
  <2>1. f = Frame(s.type, "", Unnamed, <<>>)
    BY <1>1, <1>3, <1>9 DEF FramesOf, UserTypes, PlainTypes
  <2>2. f.channel = s.type
    BY <2>1 DEF Frame
  <2>3. WsMessageToIdentifier(f) = Identifier(s.type, "", NoPart)
    BY <1>9, <2>2 DEF WsMessageToIdentifier, PlainTypes
  <2> QED BY <1>1, <1>2, <1>9, <2>3 DEF st
<1> QED BY <1>4, <1>5, <1>6, <1>7, <1>8, <1>9, Kinds

(* A frame without a deployer is routed to the identifier that names none.   *)
LEMMA FrameForAll ==
    ASSUME NEW st, NEW f \in FramesForAll(st)
    PROVE  /\ st.type = "userAccount"
           /\ WsMessageToIdentifier(f) = Identifier("userAccount", st.key, Unnamed)
<1>1. st.type = "userAccount" /\ \E u \in DOMAIN LowerCase :
        LowerCase[u] = st.key /\ f = Frame("userAccount", u, Unnamed, [equity |-> "any"])
  BY DEF FramesForAll
<1>2. f.channel = "userAccount" /\ LowerCase[f.suffix] = st.key /\ DeployerOfFrame(f) = Unnamed
  BY <1>1 DEF Frame, DeployerOfFrame
<1>3. WsMessageToIdentifier(f) = Identifier("userAccount", st.key, Unnamed)
  BY <1>2 DEF WsMessageToIdentifier, UserIdentifier, PlainTypes
<1> QED BY <1>1, <1>3

-----------------------------------------------------------------------------
(* The inductive invariant.                                                  *)

Lasting == Contracts \ Later

CallType ==
    [pc : {"idle", "look", "fetch", "store", "has", "read", "register"},
     sub : Asked \cup {NoSub}, id : Ids \cup {0}, raw : BOOLEAN, refresh : BOOLEAN,
     configs : SUBSET Contracts]

(* A cache has every lasting contract, and the tick sizes of the server.     *)
CacheOK(cache) ==
    cache # None =>
        /\ Lasting \subseteq DOMAIN cache /\ DOMAIN cache \subseteq Contracts
        /\ \A c \in DOMAIN cache : cache[c] = TickSize[c]

(* A call that reaches the registry drops the group only when it names the   *)
(* raw book, and does drop it when it names that of a lasting contract.      *)
RawRight(c) ==
    /\ c.raw => /\ c.sub.type = "l2Book" /\ "group" \in DOMAIN c.sub /\ AboutContract(c.sub)
                /\ c.sub.group.value = TickSize[c.sub.asset.value]
    /\ ~c.raw /\ Acceptable(c.sub) /\ Settled(c.sub) => Ident(c.sub) = StreamNamed(c.sub)

NamesOne(c, registered) ==
    c.id # 0 => /\ c.id \in DOMAIN registered /\ Acceptable(c.sub)
                /\ StreamNamed(c.sub) = StreamNamed(registered[c.id])

CallOK(c, cache, registered) ==
    /\ NamesOne(c, registered)
    /\ c.pc # "idle" => c.sub \in Asked /\ NeedsTickSize(c.sub)
    /\ c.pc # "register" => c.raw = FALSE
    /\ c.pc = "register" => RawRight(c)
    /\ c.pc = "read" => AssetText(c.sub) \in Contracts
    /\ c.pc = "store" => Lasting \subseteq c.configs
    /\ c.pc \in {"has", "read"} => cache # None

CallsInv ==
    /\ call \in [Threads -> CallType]
    /\ \A t \in Threads : CallOK(call[t], tick_sizes, asked)

CacheInv ==
    /\ listed \subseteq Contracts /\ Lasting \subseteq listed
    /\ CacheOK(tick_sizes)

(* An entry is kept under what its subscription names, or under a grouping   *)
(* that turned out to be the raw book; its wire form names the same stream.  *)
EntryOK(e) ==
    /\ e.id \in DOMAIN asked
    /\ \E m \in Subscriptions : e.identifier = Ident(m)
    /\ Meaning(e.identifier) = StreamNamed(asked[e.id])
    /\ Settled(asked[e.id]) => e.identifier = StreamNamed(asked[e.id])
    /\ StreamNamed(e.wire) = StreamNamed(asked[e.id]) /\ WireForm(e.wire)

RegistryInv ==
    /\ asked \in Seq(Asked) /\ Len(asked) <= MaxIds
    /\ \A n \in DOMAIN asked : asked[n] \in Subscriptions
    /\ dropped \subseteq DOMAIN asked
    /\ \A e \in entries : EntryOK(e)

(* The server streams what it has, and only what some subscription names.    *)
RemoteInv ==
    /\ offered \in [Contracts -> SUBSET (Groups \ {0})]
    /\ \A st \in streams : Available(st) /\ \E s \in Subscriptions : st = StreamNamed(s)

StreamsInv ==
    CacheInv /\ CallsInv /\ RegistryInv /\ RemoteInv /\ Served /\ NothingLeftRunning /\ Unsubscribed

-----------------------------------------------------------------------------
(* What is not refused is a subscription.                                    *)
LEMMA AskedAccepted ==
    ASSUME NEW s \in Asked, Acceptable(s)
    PROVE  s \in Subscriptions
BY AskedAssumption DEF Acceptable

(* What the stream of a subscription tells of it.                            *)
SettledAt(st) == st.type \in ContractTypes => st.key \in Lasting

(* The parts of the stream a subscription names.                             *)
LEMMA NamedFields ==
    ASSUME NEW s \in Subscriptions
    PROVE  LET st == StreamNamed(s) IN
           /\ st = Identifier(s.type, st.key, st.part) /\ st.type = s.type /\ st.part \in Nat
           /\ s.type = "l2Book" /\ st.part = TickSize[st.key] => st.part = NoPart
           /\ Meaning(st) = st /\ (Settled(s) <=> SettledAt(st))
           /\ AboutContract(s) => st.key = s.asset.value /\ s.asset.value \in Contracts
           /\ s.type \in {"l2Book", "candle"} \cup AssetTypes <=> AboutContract(s)
<1> DEFINE st == StreamNamed(s)
<1>1. st = Meaning(Ident(s))
  BY NamedByIdent
<1>2. /\ st = Identifier(s.type, st.key, st.part) /\ st.type = s.type /\ st.part \in Nat
      /\ st.key = Ident(s).key /\ Meaning(st) = st
      /\ s.type = "l2Book" /\ st.part = TickSize[st.key] => st.part = NoPart
  BY <1>1, MeaningFields
<1>3. /\ s.type \in {"l2Book", "candle"} \cup AssetTypes <=> AboutContract(s)
      /\ AboutContract(s) => st.key = s.asset.value /\ s.asset.value \in Contracts
  BY <1>2, IdentFields
<1> HIDE DEF st
<1>4. Settled(s) <=> SettledAt(st)
  BY <1>2, <1>3 DEF Settled, SettledAt, Lasting, ContractTypes
<1> QED BY <1>2, <1>3, <1>4 DEF st

(* An identifier and its meaning differ in the grouping only.                *)
LEMMA IdentMeaning ==
    ASSUME NEW m \in Subscriptions
    PROVE  /\ Meaning(Ident(m)).type = Ident(m).type /\ Meaning(Ident(m)).key = Ident(m).key
           /\ Ident(m).part \in Nat
           /\ Ident(m).type # "l2Book" => Meaning(Ident(m)) = Ident(m)
BY MeaningFields, IdentFields

(* What a good call registers has the meaning of what it was called with.    *)
LEMMA MappedMeansTheSame ==
    ASSUME NEW c, c.sub \in Asked, RawRight(c), Acceptable(Mapped(c))
    PROVE  /\ c.sub \in Subscriptions /\ Mapped(c) \in Subscriptions /\ Acceptable(c.sub)
           /\ Meaning(Ident(Mapped(c))) = StreamNamed(c.sub)
           /\ Settled(c.sub) => Ident(Mapped(c)) = StreamNamed(c.sub)
           /\ StreamNamed(Normalize(Mapped(c))) = StreamNamed(c.sub)
           /\ WireForm(Normalize(Mapped(c)))
<1> DEFINE m == Mapped(c)
<1>1. CASE ~c.raw
  <2>1. m = c.sub
    BY <1>1 DEF Mapped
  <2>2. c.sub \in Subscriptions
    BY <2>1, AskedAccepted
  <2> QED BY <1>1, <2>1, <2>2, NamedByIdent, WireNamesTheSame DEF RawRight
<1>2. CASE c.raw
  <2>1. /\ c.sub.type = "l2Book" /\ "group" \in DOMAIN c.sub /\ "asset" \in DOMAIN c.sub
        /\ c.sub.group.value = TickSize[c.sub.asset.value] /\ m = Ungrouped(c.sub)
    BY <1>2 DEF RawRight, Mapped, AboutContract
  <2>2. Acceptable(c.sub)
    BY <2>1 DEF Acceptable, Normalizable, Identifiable, Required, AssetTypes, UserTypes, PlainTypes
  <2>3. c.sub \in Subscriptions
    BY <2>2, AskedAccepted
  <2>4. DOMAIN c.sub = {"type", "asset", "group"} /\ c.sub.asset \in Spelled(Contracts)
    BY <2>1, <2>3, Kinds DEF AssetTypes, UserTypes, PlainTypes
  <2>5. m = [type |-> "l2Book", asset |-> c.sub.asset]
    <3>1. m = [f \in {"type", "asset"} |-> c.sub[f]]
      BY <2>1, <2>4 DEF Ungrouped
    <3> QED BY <2>1, <3>1
  <2>6. m \in Subscriptions
    BY <2>4, <2>5 DEF Subscriptions
  <2>7. m.type = "l2Book" /\ m.asset = c.sub.asset /\ "group" \notin DOMAIN m
    BY <2>5
  <2> HIDE DEF m
  <2>8. Ident(m) = Identifier("l2Book", c.sub.asset.value, NoPart)
    BY <2>6, <2>7, IdentOf DEF GroupOf
  <2>9. StreamNamed(c.sub) = Ident(m) /\ StreamNamed(m) = Ident(m)
    BY <2>1, <2>7, <2>8 DEF StreamNamed, GroupOf, AssetTypes, UserTypes
  <2> QED BY <2>2, <2>3, <2>6, <2>9, NamedByIdent, WireNamesTheSame DEF m
<1> QED BY <1>1, <1>2

(* The calls that reach the registry are good, looked up or not.             *)
LEMMA ReachingGood ==
    ASSUME StreamsInv, NEW t \in Threads, NEW c, Reaching(t, c), c.sub \in Asked \/ c = call[t]
    PROVE  c.sub \in Asked /\ RawRight(c) /\ NamesOne(c, asked)
<1>1. CASE call[t].pc = "register" /\ c = call[t]
  BY <1>1 DEF StreamsInv, CallsInv, CallOK
<1>2. CASE /\ call[t] = NoCall /\ ~NeedsTickSize(c.sub) /\ MayName(c.sub, c.id)
           /\ c = CallOf("register", c.sub, c.id)
  <2>1. c.raw = FALSE
    BY <1>2 DEF CallOf, NoCall
  <2>2. c.sub \in Asked
    <3>1. CASE c = call[t]
      <4>1. c.pc = "register"
        <5>1. \A s, id : CallOf("register", s, id).pc = "register"
          BY DEF CallOf, NoCall
        <5> QED BY <1>2, <5>1
      <4>2. call[t].pc = "idle"
        BY <1>2 DEF NoCall
      <4> QED BY <3>1, <4>1, <4>2
    <3> QED BY <3>1
  <2>3. NamesOne(c, asked)
    BY <1>2 DEF MayName, NamesOne
  <2>4. ASSUME Acceptable(c.sub) PROVE Ident(c.sub) = StreamNamed(c.sub)
    <3>1. c.sub \in Subscriptions
      BY <2>2, <2>4, AskedAccepted
    <3>2. CASE c.sub.type # "l2Book"
      BY <3>1, <3>2, IdentFields, IdentMeaning, NamedByIdent
    <3>3. CASE c.sub.type = "l2Book"
      <4>1. GroupOf(c.sub) = NoPart
        BY <1>2, <3>3 DEF NeedsTickSize, GroupOf, NoPart
      <4> QED BY <3>1, <3>3, <4>1, IdentOf DEF StreamNamed, AssetTypes, UserTypes
    <3> QED BY <3>2, <3>3
  <2> QED BY <2>1, <2>2, <2>3, <2>4 DEF RawRight
<1> QED BY <1>1, <1>2 DEF Reaching

(* A non-empty set of ids has a least one.                                   *)
LEMMA LeastId ==
    ASSUME NEW S \in SUBSET Nat, S # {}
    PROVE  \E m \in S : \A k \in S : m <= k
<1> DEFINE R == {q \in Nat \X Nat : q[1] < q[2]}
<1>1. IsWellFoundedOn(R, Nat)
  <2>1. R = OpToRel(<, Nat)
    BY DEF OpToRel
  <2> QED BY <2>1, NatLessThanWellFounded
<1>2. \A k, m \in Nat : k < m => <<k, m>> \in R
  OBVIOUS
<1>3. PICK m \in S : \A k \in S : ~(<<k, m>> \in R)
  <2> HIDE DEF R
  <2> QED BY <1>1, WFMin
<1> HIDE DEF R
<1>4. \A k \in S : ~(k < m)
  BY <1>2, <1>3
<1> QED BY <1>4

-----------------------------------------------------------------------------
(* The invariant holds at first.                                             *)
LEMMA StreamsInit == Init => StreamsInv
<1> SUFFICES ASSUME Init PROVE StreamsInv
  OBVIOUS
<1>1. CacheInv
  BY ContractsAssumption DEF Init, CacheInv, CacheOK, Lasting
<1>2. NoCall \in CallType /\ CallOK(NoCall, tick_sizes, asked)
  BY DEF NoCall, CallType, CallOK, NamesOne
<1>3. CallsInv
  BY <1>2 DEF Init, CallsInv
<1>4. RegistryInv
  <2>1. asked = <<>> /\ DOMAIN asked = {} /\ entries = {} /\ dropped = {} /\ MaxIds \in Nat
    BY AskedAssumption DEF Init
  <2> QED BY <2>1 DEF RegistryInv
<1>5. RemoteInv
  BY ContractsAssumption DEF Init, RemoteInv
<1>6. Served /\ NothingLeftRunning /\ Unsubscribed
  BY DEF Init, Served, NothingLeftRunning, Unsubscribed
<1> QED BY <1>1, <1>3, <1>4, <1>5, <1>6 DEF StreamsInv

(* A step of one facade call, or its return: nothing but that call and the   *)
(* cache changes.                                                            *)
LEMMA CallChange ==
    ASSUME StreamsInv, NEW t \in Threads, NEW d \in CallType, NEW cache,
           call' = [call EXCEPT ![t] = d], tick_sizes' = cache,
           UNCHANGED <<registry, remote>>,
           CacheOK(cache), CallOK(d, cache, asked),
           cache = tick_sizes \/ cache # None
    PROVE  StreamsInv'
<1>1. UNCHANGED <<asked, entries, dropped, listed, offered, streams>>
  BY DEF registry, remote
<1>2. CacheInv'
  BY <1>1 DEF StreamsInv, CacheInv
<1>3. CallsInv'
  <2>1. \A u \in Threads : call'[u] = IF u = t THEN d ELSE call[u]
    BY DEF StreamsInv, CallsInv
  <2>2. call' \in [Threads -> CallType]
    BY DEF StreamsInv, CallsInv
  <2>3. \A u \in Threads : CallOK(call[u], cache, asked)
    BY DEF StreamsInv, CallsInv, CallOK
  <2> QED BY <1>1, <2>1, <2>2, <2>3 DEF CallsInv
<1>4. RegistryInv'
  BY <1>1 DEF StreamsInv, RegistryInv, EntryOK
<1>5. RemoteInv'
  BY <1>1 DEF StreamsInv, RemoteInv, Available
<1>6. Served' /\ NothingLeftRunning' /\ Unsubscribed'
  BY <1>1 DEF StreamsInv, Served, NothingLeftRunning, Unsubscribed, Available
<1> QED BY <1>2, <1>3, <1>4, <1>5, <1>6 DEF StreamsInv

(* A thread between calls breaks nothing.                                    *)
LEMMA NoCallOK ==
    ASSUME NEW cache, NEW registered
    PROVE  NoCall \in CallType /\ CallOK(NoCall, cache, registered)
BY DEF NoCall, CallType, CallOK, NamesOne

(* A call that starts keeps the invariant.                                   *)
LEMMA BeginKeeps ==
    ASSUME StreamsInv, NEW t \in Threads, NEW s \in Asked, NEW id \in Ids \cup {0}, Begin(t, s, id)
    PROVE  StreamsInv'
<1> DEFINE d == CallOf("look", s, id)
<1>1. d \in CallType
  BY DEF CallOf, NoCall, CallType
<1>2. CallOK(d, tick_sizes, asked)
  BY DEF Begin, MayName, CallOf, NoCall, CallOK, NamesOne
<1>3. call' = [call EXCEPT ![t] = d] /\ tick_sizes' = tick_sizes /\ UNCHANGED <<registry, remote>>
  BY DEF Begin
<1>4. CacheOK(tick_sizes)
  BY DEF StreamsInv, CacheInv
<1> HIDE DEF d
<1> QED BY <1>1, <1>2, <1>3, <1>4, CallChange

(* A looked-up subscription that is about a contract has all that it needs.  *)
LEMMA LookedUp ==
    ASSUME NEW s \in Asked, NeedsTickSize(s)
    PROVE  /\ s.type = "l2Book" /\ "group" \in DOMAIN s
           /\ AboutContract(s) => s \in Subscriptions /\ Acceptable(s) /\ s.asset.value \in Contracts
           /\ Acceptable(s) => AboutContract(s)
<1>1. s.type = "l2Book" /\ "group" \in DOMAIN s
  BY DEF NeedsTickSize
<1>2. Acceptable(s) <=> AboutContract(s)
  BY <1>1 DEF Acceptable, Normalizable, Identifiable, Required, AboutContract,
              AssetTypes, UserTypes, PlainTypes
<1>3. Acceptable(s) => s \in Subscriptions
  BY AskedAccepted
<1> QED BY <1>1, <1>2, <1>3, IdentFields

(* With the tick size of its contract, a call drops the group exactly when   *)
(* it names the raw book.                                                    *)
LEMMA ReadRight ==
    ASSUME NEW c, c.sub \in Asked, NeedsTickSize(c.sub), AboutContract(c.sub),
           c.raw = IsRawBook(c.sub, TickSize[c.sub.asset.value])
    PROVE  RawRight(c)
<1> DEFINE s == c.sub
<1>1. s.type = "l2Book" /\ "group" \in DOMAIN s /\ s \in Subscriptions
  BY LookedUp
<1>2. c.raw => s.group.value = TickSize[s.asset.value]
  BY DEF IsRawBook
<1>3. ASSUME ~c.raw PROVE Ident(s) = StreamNamed(s)
  <2>1. Ident(s) = Identifier("l2Book", s.asset.value, s.group.value)
    BY <1>1, IdentOf DEF GroupOf
  <2>2. s.group.value = TickSize[s.asset.value] => s.group.value = NoPart
    BY <1>3 DEF IsRawBook, NoPart
  <2> QED BY <1>1, <2>1, <2>2 DEF StreamNamed, GroupOf, AssetTypes, UserTypes
<1> QED BY <1>1, <1>2, <1>3 DEF RawRight

(* The steps of a lookup.                                                    *)
LEMMA LookupKeeps ==
    ASSUME StreamsInv, NEW t \in Threads, LookupStep(t)
    PROVE  StreamsInv'
<1> DEFINE c == call[t]
<1>1. c \in CallType /\ call \in [Threads -> CallType] /\ CallOK(c, tick_sizes, asked)
  BY DEF StreamsInv, CallsInv
<1>2. CacheOK(tick_sizes) /\ listed \subseteq Contracts /\ Lasting \subseteq listed
  BY DEF StreamsInv, CacheInv
<1>3. CASE Look(t)
  <2> DEFINE d == [c EXCEPT !.pc = IF tick_sizes = None THEN "fetch" ELSE "has"]
  <2>1. /\ call' = [call EXCEPT ![t] = d] /\ tick_sizes' = tick_sizes /\ c.pc = "look"
        /\ UNCHANGED <<registry, remote>>
    BY <1>3 DEF Look, Goto
  <2>2. d \in CallType
    BY <1>1 DEF CallType
  <2>3. CallOK(d, tick_sizes, asked)
    BY <1>1, <2>1 DEF CallOK, NamesOne, CallType
  <2> HIDE DEF d
  <2> QED BY <1>2, <2>1, <2>2, <2>3, CallChange
<1>4. CASE Fetch(t)
  <2> DEFINE d == [c EXCEPT !.pc = "store", !.configs = listed]
  <2>1. /\ call' = [call EXCEPT ![t] = d] /\ tick_sizes' = tick_sizes /\ c.pc = "fetch"
        /\ UNCHANGED <<registry, remote>>
    BY <1>4 DEF Fetch
  <2>2. d \in CallType
    BY <1>1, <1>2 DEF CallType
  <2>3. CallOK(d, tick_sizes, asked)
    BY <1>1, <1>2, <2>1 DEF CallOK, NamesOne, CallType
  <2> HIDE DEF d
  <2> QED BY <1>2, <2>1, <2>2, <2>3, CallChange
<1>5. CASE FetchFails(t)
  <2>1. call' = [call EXCEPT ![t] = NoCall] /\ tick_sizes' = tick_sizes /\ UNCHANGED <<registry, remote>>
    BY <1>5 DEF FetchFails, Return
  <2> QED BY <1>2, <2>1, NoCallOK, CallChange
<1>6. CASE Store(t)
  <2> DEFINE d == [c EXCEPT !.pc = "has", !.configs = {}]
             cache == [k \in c.configs |-> TickSize[k]]
  <2>1. /\ call' = [call EXCEPT ![t] = d] /\ tick_sizes' = cache /\ c.pc = "store"
        /\ UNCHANGED <<registry, remote>>
    BY <1>6 DEF Store, Cached
  <2>2. d \in CallType
    BY <1>1 DEF CallType
  <2>3. c.configs \subseteq Contracts /\ Lasting \subseteq c.configs
    BY <1>1, <2>1 DEF CallType, CallOK
  <2>4. cache # None
    <3>1. cache \in [c.configs -> Nat]
      BY <2>3, ContractsAssumption
    <3> HIDE DEF cache
    <3> QED BY <2>3, <3>1, CacheAssumption
  <2>5. CacheOK(cache)
    BY <2>3 DEF CacheOK
  <2>6. CallOK(d, cache, asked)
    BY <1>1, <2>1, <2>4 DEF CallOK, NamesOne, CallType
  <2> HIDE DEF d, cache
  <2> QED BY <2>1, <2>2, <2>4, <2>5, <2>6, CallChange
<1>7. CASE Has(t)
  <2>1. /\ c.pc = "has" /\ tick_sizes # None /\ c.sub \in Asked /\ NeedsTickSize(c.sub)
        /\ tick_sizes' = tick_sizes /\ UNCHANGED <<registry, remote>>
    BY <1>1, <1>7 DEF Has, CallOK
  <2>2. CASE AssetText(c.sub) \in DOMAIN tick_sizes
    <3> DEFINE d == [c EXCEPT !.pc = "read"]
    <3>1. call' = [call EXCEPT ![t] = d]
      BY <1>7, <2>2 DEF Has, Goto
    <3>2. AssetText(c.sub) \in Contracts
      BY <1>2, <2>1, <2>2 DEF CacheOK
    <3>3. d \in CallType
      BY <1>1 DEF CallType
    <3>4. CallOK(d, tick_sizes, asked)
      BY <1>1, <2>1, <3>2 DEF CallOK, NamesOne, CallType
    <3> HIDE DEF d
    <3> QED BY <1>2, <2>1, <3>1, <3>3, <3>4, CallChange
  <2>3. CASE AssetText(c.sub) \notin DOMAIN tick_sizes /\ c.refresh
    <3> DEFINE d == [c EXCEPT !.pc = "register", !.refresh = FALSE]
    <3>1. call' = [call EXCEPT ![t] = d]
      BY <1>7, <2>3 DEF Has
    <3>2. d \in CallType /\ d.sub = c.sub /\ d.raw = FALSE
      BY <1>1, <2>1 DEF CallType, CallOK
    <3>3. RawRight(d)
      <4>1. ASSUME Acceptable(c.sub), Settled(c.sub) PROVE FALSE
        <5>1. AboutContract(c.sub)
          BY <2>1, <4>1, LookedUp
        <5>2. AssetText(c.sub) \in Lasting
          BY <4>1, <5>1 DEF Settled, AssetText, Lasting
        <5> QED BY <1>2, <2>1, <2>3, <5>2 DEF CacheOK
      <4> HIDE DEF d
      <4> QED BY <3>2, <4>1 DEF RawRight
    <3>4. CallOK(d, tick_sizes, asked)
      BY <1>1, <2>1, <3>3 DEF CallOK, NamesOne, CallType
    <3> HIDE DEF d
    <3> QED BY <1>2, <2>1, <3>1, <3>2, <3>4, CallChange
  <2>4. CASE AssetText(c.sub) \notin DOMAIN tick_sizes /\ ~c.refresh
    <3> DEFINE d == [c EXCEPT !.pc = "fetch", !.refresh = TRUE]
    <3>1. call' = [call EXCEPT ![t] = d]
      BY <1>7, <2>4 DEF Has
    <3>2. d \in CallType
      BY <1>1 DEF CallType
    <3>3. CallOK(d, tick_sizes, asked)
      BY <1>1, <2>1 DEF CallOK, NamesOne, CallType
    <3> HIDE DEF d
    <3> QED BY <1>2, <2>1, <3>1, <3>2, <3>3, CallChange
  <2> QED BY <2>2, <2>3, <2>4
<1>8. CASE Read(t)
  <2>1. /\ c.pc = "read" /\ tick_sizes # None /\ c.sub \in Asked /\ NeedsTickSize(c.sub)
        /\ AssetText(c.sub) \in Contracts
        /\ tick_sizes' = tick_sizes /\ UNCHANGED <<registry, remote>>
    BY <1>1, <1>8 DEF Read, CallOK
  <2>2. CASE AssetText(c.sub) \notin DOMAIN tick_sizes
    <3>1. call' = [call EXCEPT ![t] = NoCall]
      BY <1>8, <2>2 DEF Read, Return
    <3> QED BY <1>2, <2>1, <3>1, NoCallOK, CallChange
  <2>3. CASE AssetText(c.sub) \in DOMAIN tick_sizes
    <3> DEFINE tick == tick_sizes[AssetText(c.sub)]
               d == [c EXCEPT !.pc = "register", !.refresh = FALSE, !.raw = IsRawBook(c.sub, tick)]
    <3>1. call' = [call EXCEPT ![t] = d]
      BY <1>8, <2>3 DEF Read
    <3>2. AboutContract(c.sub)
      BY <2>1, ContractsAssumption DEF AssetText
    <3>3. tick = TickSize[c.sub.asset.value]
      BY <1>2, <2>1, <2>3, <3>2 DEF CacheOK, AssetText
    <3>4. IsRawBook(c.sub, tick) \in BOOLEAN
      BY DEF IsRawBook
    <3>5. d \in CallType /\ d.sub = c.sub /\ d.raw = IsRawBook(c.sub, tick)
      BY <1>1, <3>4 DEF CallType
    <3>6. RawRight(d)
      <4> HIDE DEF d
      <4> QED BY <2>1, <3>2, <3>3, <3>5, ReadRight
    <3>7. CallOK(d, tick_sizes, asked)
      BY <1>1, <2>1, <3>6 DEF CallOK, NamesOne, CallType
    <3> HIDE DEF d
    <3> QED BY <1>2, <2>1, <3>1, <3>5, <3>7, CallChange
  <2> QED BY <2>2, <2>3
<1> QED BY <1>3, <1>4, <1>5, <1>6, <1>7, <1>8 DEF LookupStep

(* A refused call keeps the invariant.                                       *)
LEMMA RefuseKeeps ==
    ASSUME StreamsInv, NEW t \in Threads, NEW c, Refuse(t, c)
    PROVE  StreamsInv'
<1>1. call' = [call EXCEPT ![t] = NoCall] /\ tick_sizes' = tick_sizes /\ UNCHANGED <<registry, remote>>
  BY DEF Refuse, Return
<1>2. CacheOK(tick_sizes)
  BY DEF StreamsInv, CacheInv
<1> QED BY <1>1, <1>2, NoCallOK, CallChange

-----------------------------------------------------------------------------
(* The wire form of a good call asks for the stream that the call names.     *)
LEMMA GrantedNamed ==
    ASSUME NEW w, NEW s \in Subscriptions, StreamNamed(w) = StreamNamed(s), WireForm(w)
    PROVE  Granted(w) = IF Available(StreamNamed(s)) THEN {StreamNamed(s)} ELSE {}
BY DEF Granted

(* A call returns to its caller while the registry is changed under it.      *)
LEMMA ReturnKeepsCalls ==
    ASSUME StreamsInv, NEW t \in Threads, Return(t), UNCHANGED <<tick_sizes, listed>>,
           DOMAIN asked \subseteq DOMAIN asked', \A i \in DOMAIN asked : asked'[i] = asked[i]
    PROVE  CacheInv' /\ CallsInv'
<1>1. CacheInv'
  BY DEF StreamsInv, CacheInv
<1>2. \A u \in Threads : call'[u] = IF u = t THEN NoCall ELSE call[u]
  BY DEF StreamsInv, CallsInv, Return
<1>3. call' \in [Threads -> CallType]
  BY NoCallOK DEF StreamsInv, CallsInv, Return
<1>4. \A u \in Threads : CallOK(call[u], tick_sizes, asked')
  BY DEF StreamsInv, CallsInv, CallOK, NamesOne
<1>5. \A u \in Threads : CallOK(call'[u], tick_sizes', asked')
  BY <1>2, <1>4, NoCallOK
<1> QED BY <1>1, <1>3, <1>5 DEF CallsInv

(* The step of subscribe in the registry keeps it.                           *)
LEMMA SubscribeKeeps ==
    ASSUME StreamsInv, NEW t \in Threads, NEW c, c.sub \in Asked \/ c = call[t],
           RegisterSubscribe(t, c)
    PROVE  StreamsInv'
<1> DEFINE m == Mapped(c)
           I == Ident(m)
           S == StreamNamed(c.sub)
           n == Len(asked) + 1
           new == [id |-> n, identifier |-> I, wire |-> Normalize(m)]
<1>1. /\ Reaching(t, c) /\ Acceptable(m) /\ Len(asked) < MaxIds /\ Return(t)
      /\ asked' = Append(asked, c.sub) /\ entries' = entries \cup {new}
      /\ streams' = IF Under(I) = {} THEN streams \cup Granted(Normalize(m)) ELSE streams
      /\ UNCHANGED <<tick_sizes, dropped, listed, offered>>
  BY DEF RegisterSubscribe, Ident
<1>2. c.sub \in Asked /\ RawRight(c)
  BY <1>1, ReachingGood
<1>3. /\ c.sub \in Subscriptions /\ m \in Subscriptions
      /\ Meaning(I) = S /\ (Settled(c.sub) => I = S)
      /\ StreamNamed(Normalize(m)) = S /\ WireForm(Normalize(m))
  BY <1>1, <1>2, MappedMeansTheSame
<1>4. /\ new.id = n /\ new.identifier = I /\ new.wire = Normalize(m)
      /\ \E k \in Subscriptions : I = Ident(k)
  BY <1>3
<1>5. Granted(Normalize(m)) = IF Available(S) THEN {S} ELSE {}
  BY <1>3, GrantedNamed
<1>6. /\ asked' \in Seq(Asked) /\ Len(asked') <= MaxIds /\ n \in Nat
      /\ n \notin DOMAIN asked /\ DOMAIN asked' = DOMAIN asked \cup {n}
      /\ \A i \in DOMAIN asked : asked'[i] = asked[i]
      /\ asked'[n] = c.sub
  BY <1>1, <1>2, AskedAssumption DEF StreamsInv, RegistryInv
<1> HIDE DEF I, S, n, new, m
<1>7. CacheInv' /\ CallsInv'
  BY <1>1, <1>6, ReturnKeepsCalls
<1>8. RegistryInv'
  <2>1. \A e \in entries : EntryOK(e)'
    BY <1>6 DEF StreamsInv, RegistryInv, EntryOK
  <2>2. \A e : e = new => EntryOK(e)'
    <3> SUFFICES ASSUME NEW e, e = new PROVE EntryOK(e)'
      OBVIOUS
    <3>1. e.id = n /\ e.identifier = I /\ e.wire = Normalize(m) /\ asked'[e.id] = c.sub
      BY <1>4, <1>6
    <3> QED BY <1>3, <1>4, <1>6, <3>1 DEF EntryOK, S
  <2>3. \A e \in entries' : EntryOK(e)'
    BY <1>1, <2>1, <2>2
  <2> QED BY <1>1, <1>3, <1>6, <2>3 DEF StreamsInv, RegistryInv
<1>9. RemoteInv'
  <2>1. \A st : Available(st)' <=> Available(st)
    BY <1>1 DEF Available
  <2>2. \A st \in streams' : st \in streams \/ (st = S /\ Available(S))
    BY <1>1, <1>5
  <2> QED BY <1>1, <1>3, <2>1, <2>2 DEF StreamsInv, RemoteInv, S
<1>10. Served'
  <2>2. \A st : Available(st)' <=> Available(st)
    BY <1>1 DEF Available
  <2> SUFFICES ASSUME NEW e \in entries', Settled(asked'[e.id]), Available(StreamNamed(asked'[e.id]))
               PROVE  StreamNamed(asked'[e.id]) \in streams'
    BY <2>2, <1>1 DEF Served, Available
  <2>1. streams \subseteq streams'
    BY <1>1
  <2>3. CASE e \in entries
    <3>1. asked'[e.id] = asked[e.id]
      BY <1>6, <2>3 DEF StreamsInv, RegistryInv, EntryOK
    <3> QED BY <2>1, <2>3, <3>1 DEF StreamsInv, Served
  <2>4. CASE e = new
    <3>1. asked'[e.id] = c.sub /\ Settled(c.sub) /\ Available(S) /\ I = S
      BY <1>3, <1>4, <1>6, <2>4 DEF S
    <3>2. CASE Under(I) = {}
      BY <1>1, <1>5, <3>1, <3>2 DEF S
    <3>3. CASE Under(I) # {}
      <4>1. PICK d \in entries : d.identifier = I
        BY <3>3 DEF Under
      <4>2. Meaning(I) = StreamNamed(asked[d.id]) /\ asked[d.id] \in Subscriptions
        BY <4>1 DEF StreamsInv, RegistryInv, EntryOK
      <4>3. StreamNamed(asked[d.id]) = S
        BY <1>3, <4>2
      <4>4. Settled(asked[d.id])
        BY <1>3, <3>1, <4>2, <4>3, NamedFields DEF S
      <4>5. S \in streams
        BY <3>1, <4>1, <4>3, <4>4 DEF StreamsInv, Served
      <4> QED BY <2>1, <3>1, <4>5 DEF S
    <3> QED BY <3>2, <3>3
  <2> QED BY <1>1, <2>3, <2>4
<1>11. NothingLeftRunning'
  <2> SUFFICES ASSUME NEW st \in streams' PROVE \E e \in entries' : StreamNamed(asked'[e.id]) = st
    BY DEF NothingLeftRunning
  <2>1. CASE st \in streams
    <3>1. PICK e \in entries : StreamNamed(asked[e.id]) = st
      BY <2>1 DEF StreamsInv, NothingLeftRunning
    <3>2. e.id \in DOMAIN asked
      BY DEF StreamsInv, RegistryInv, EntryOK
    <3> QED BY <1>1, <1>6, <3>1, <3>2
  <2>2. CASE st = S
    BY <1>1, <1>4, <1>6, <2>2 DEF S
  <2> QED BY <1>1, <1>5, <2>1, <2>2
<1>12. Unsubscribed'
  <2>1. \A e \in entries : e.id \in DOMAIN asked
    BY DEF StreamsInv, RegistryInv, EntryOK
  <2>2. n \notin dropped
    BY <1>6 DEF StreamsInv, RegistryInv
  <2> QED BY <1>1, <1>4, <1>6, <2>1, <2>2 DEF StreamsInv, Unsubscribed
<1> QED BY <1>7, <1>8, <1>9, <1>10, <1>11, <1>12 DEF StreamsInv

(* The step of unsubscribe in the registry keeps it.                         *)
LEMMA UnsubscribeKeeps ==
    ASSUME StreamsInv, NEW t \in Threads, NEW c, c.sub \in Asked \/ c = call[t],
           RegisterUnsubscribe(t, c)
    PROVE  StreamsInv'
<1> DEFINE m == Mapped(c)
           I == Ident(m)
           S == StreamNamed(c.sub)
           mine == {e \in Under(I) : e.id = c.id}
<1>1. /\ Reaching(t, c) /\ Acceptable(m) /\ c.id # 0 /\ Return(t)
      /\ entries' = entries \ mine /\ dropped' = dropped \cup {c.id}
      /\ streams' = IF LastUnder(I, mine) THEN streams \ Granted(Normalize(m)) ELSE streams
      /\ UNCHANGED <<tick_sizes, asked, listed, offered>>
  BY DEF RegisterUnsubscribe, Ident, Mine
<1>2. c.sub \in Asked /\ RawRight(c) /\ NamesOne(c, asked)
  BY <1>1, ReachingGood
<1>3. /\ c.sub \in Subscriptions /\ m \in Subscriptions
      /\ Meaning(I) = S /\ (Settled(c.sub) => I = S)
      /\ StreamNamed(Normalize(m)) = S /\ WireForm(Normalize(m))
  BY <1>1, <1>2, MappedMeansTheSame
<1>4. Granted(Normalize(m)) = IF Available(S) THEN {S} ELSE {}
  BY <1>3, GrantedNamed
<1>5. c.id \in DOMAIN asked /\ S = StreamNamed(asked[c.id]) /\ asked[c.id] \in Subscriptions
  BY <1>1, <1>2 DEF NamesOne, StreamsInv, RegistryInv
<1>6. Settled(asked[c.id]) <=> Settled(c.sub)
  BY <1>3, <1>5, NamedFields
<1> HIDE DEF I, S, m
<1>7. \A e \in entries : Settled(asked[e.id]) /\ StreamNamed(asked[e.id]) = S => e \in Under(I)
  <2> SUFFICES ASSUME NEW e \in entries, Settled(asked[e.id]), StreamNamed(asked[e.id]) = S
               PROVE  e \in Under(I)
    OBVIOUS
  <2>1. asked[e.id] \in Subscriptions /\ e.identifier = S
    BY DEF StreamsInv, RegistryInv, EntryOK
  <2>2. Settled(c.sub)
    BY <1>3, <2>1, NamedFields DEF S
  <2> QED BY <1>3, <2>1, <2>2 DEF Under
<1>8. CacheInv' /\ CallsInv'
  BY <1>1, ReturnKeepsCalls
<1>9. RegistryInv'
  BY <1>1, <1>5 DEF StreamsInv, RegistryInv, EntryOK
<1>10. RemoteInv'
  BY <1>1 DEF StreamsInv, RemoteInv, Available
<1>11. Served'
  <2> SUFFICES ASSUME NEW e \in entries', Settled(asked[e.id]), Available(StreamNamed(asked[e.id]))
               PROVE  StreamNamed(asked[e.id]) \in streams'
    BY <1>1 DEF Served, Available
  <2>1. e \in entries /\ StreamNamed(asked[e.id]) \in streams
    BY <1>1 DEF StreamsInv, Served
  <2>2. CASE LastUnder(I, mine)
    <3>1. StreamNamed(asked[e.id]) # S
      BY <1>1, <1>7, <2>1, <2>2 DEF LastUnder
    <3> QED BY <1>1, <1>4, <2>1, <3>1
  <2>3. CASE ~LastUnder(I, mine)
    BY <1>1, <2>1, <2>3
  <2> QED BY <2>2, <2>3
<1>12. NothingLeftRunning'
  <2> SUFFICES ASSUME NEW st \in streams' PROVE \E e \in entries' : StreamNamed(asked[e.id]) = st
    BY <1>1 DEF NothingLeftRunning
  <2>1. st \in streams /\ Available(st)
    BY <1>1 DEF StreamsInv, RemoteInv
  <2>2. PICK e \in entries : StreamNamed(asked[e.id]) = st
    BY <2>1 DEF StreamsInv, NothingLeftRunning
  <2>3. CASE e \in entries'
    BY <2>2, <2>3
  <2>4. CASE e \notin entries'
    <3>1. e \in mine /\ st = S
      BY <1>1, <1>5, <2>2, <2>4
    <3>2. ~(LastUnder(I, mine))
      BY <1>1, <1>4, <2>1, <3>1
    <3>3. PICK d \in Under(I) : d \notin mine
      BY <3>1, <3>2 DEF LastUnder
    <3>4. d \in entries /\ d.identifier = I /\ Meaning(d.identifier) = StreamNamed(asked[d.id])
      BY <3>3 DEF Under, StreamsInv, RegistryInv, EntryOK
    <3> QED BY <1>1, <1>3, <3>1, <3>3, <3>4
  <2> QED BY <2>3, <2>4
<1>13. Unsubscribed'
  <2> SUFFICES ASSUME NEW e \in entries', Settled(asked[e.id]), e.id = c.id PROVE FALSE
    BY <1>1 DEF StreamsInv, Unsubscribed
  <2>1. e \in entries /\ e \in Under(I)
    BY <1>1, <1>5, <1>7
  <2> QED BY <1>1, <2>1
<1> QED BY <1>8, <1>9, <1>10, <1>11, <1>12, <1>13 DEF StreamsInv

(* Replaying one entry of every identifier asks for all streams again.       *)
LEMMA ReconnectKeeps ==
    ASSUME StreamsInv, Reconnect
    PROVE  StreamsInv'
<1>1. /\ streams' = UNION {Granted(e.wire) : e \in {d \in entries : First(d)}}
      /\ UNCHANGED <<tick_sizes, call, asked, entries, dropped, listed, offered>>
  BY DEF Reconnect, client, registry
<1>2. \A e \in entries :
        /\ asked[e.id] \in Subscriptions /\ e.id \in Nat
        /\ Meaning(e.identifier) = StreamNamed(asked[e.id])
        /\ Granted(e.wire) = IF Available(StreamNamed(asked[e.id])) THEN {StreamNamed(asked[e.id])} ELSE {}
  <2> TAKE e \in entries
  <2>1. /\ e.id \in DOMAIN asked /\ asked[e.id] \in Subscriptions
        /\ Meaning(e.identifier) = StreamNamed(asked[e.id])
        /\ StreamNamed(e.wire) = StreamNamed(asked[e.id]) /\ WireForm(e.wire)
    BY DEF StreamsInv, RegistryInv, EntryOK
  <2>2. e.id \in Nat
    BY <2>1 DEF StreamsInv, RegistryInv
  <2> QED BY <2>1, <2>2, GrantedNamed
<1>3. \A st : Available(st)' <=> Available(st)
  BY <1>1 DEF Available
<1>4. CacheInv' /\ CallsInv' /\ RegistryInv' /\ Unsubscribed'
  BY <1>1 DEF StreamsInv, CacheInv, CallsInv, RegistryInv, EntryOK, Unsubscribed
<1>5. \A st \in streams' : \E e \in entries : st = StreamNamed(asked[e.id]) /\ Available(st)
  BY <1>1, <1>2
<1>6. RemoteInv' /\ NothingLeftRunning'
  BY <1>1, <1>2, <1>3, <1>5 DEF StreamsInv, RemoteInv, NothingLeftRunning
<1>7. Served'
  <2> SUFFICES ASSUME NEW e \in entries, Settled(asked[e.id]), Available(StreamNamed(asked[e.id]))
               PROVE  StreamNamed(asked[e.id]) \in streams'
    BY <1>1 DEF Served, Available
  <2> DEFINE I == e.identifier
             ids == {d.id : d \in Under(I)}
  <2>1. e \in Under(I)
    BY DEF Under
  <2>2. ids \in SUBSET Nat /\ ids # {}
    BY <1>2, <2>1 DEF Under
  <2> HIDE DEF ids
  <2>3. PICK least \in ids : \A k \in ids : least <= k
    BY <2>2, LeastId
  <2>4. PICK d \in Under(I) : d.id = least
    BY <2>3 DEF ids
  <2>5. d \in entries /\ d.identifier = I
    BY <2>4 DEF Under
  <2>6. First(d)
    BY <2>3, <2>4, <2>5 DEF First, ids
  <2>7. StreamNamed(asked[d.id]) = StreamNamed(asked[e.id])
    BY <1>2, <2>5
  <2>8. StreamNamed(asked[e.id]) \in Granted(d.wire)
    BY <1>2, <2>5, <2>7
  <2> QED BY <1>1, <2>5, <2>6, <2>8
<1> QED BY <1>4, <1>6, <1>7 DEF StreamsInv

(* A contract is listed: none that a lasting subscription is about.          *)
LEMMA ListKeeps ==
    ASSUME StreamsInv, NEW c \in Contracts, List(c)
    PROVE  StreamsInv'
<1>1. /\ c \in Later \ listed /\ listed' = listed \cup {c}
      /\ UNCHANGED <<tick_sizes, call, asked, entries, dropped, offered, streams>>
  BY DEF List, client, registry
<1>2. CacheInv' /\ RegistryInv' /\ Unsubscribed' /\ NothingLeftRunning'
  BY <1>1 DEF StreamsInv, CacheInv, CacheOK, RegistryInv, EntryOK, Unsubscribed, NothingLeftRunning
<1>3. CallsInv'
  BY <1>1 DEF StreamsInv, CallsInv, CallOK
<1>4. RemoteInv'
  BY <1>1 DEF StreamsInv, RemoteInv, Available
<1>5. Served'
  <2> SUFFICES ASSUME NEW e \in entries, Settled(asked[e.id]), Available(StreamNamed(asked[e.id]))'
               PROVE  StreamNamed(asked[e.id]) \in streams
    BY <1>1 DEF Served
  <2>1. SettledAt(StreamNamed(asked[e.id]))
    BY NamedFields DEF StreamsInv, RegistryInv, EntryOK
  <2>2. Available(StreamNamed(asked[e.id]))
    BY <1>1, <2>1 DEF Available, SettledAt, Lasting
  <2> QED BY <2>2 DEF StreamsInv, Served
<1> QED BY <1>2, <1>3, <1>4, <1>5 DEF StreamsInv

(* A contract is delisted: none that a lasting subscription is about.        *)
LEMMA DelistKeeps ==
    ASSUME StreamsInv, NEW c \in Contracts, Delist(c)
    PROVE  StreamsInv'
<1>1. /\ c \in Later \cap listed /\ listed' = listed \ {c}
      /\ streams' = {st \in streams : ~(st.type \in ContractTypes /\ st.key = c)}
      /\ UNCHANGED <<tick_sizes, call, asked, entries, dropped, offered>>
  BY DEF Delist, client, registry
<1>2. CacheInv' /\ RegistryInv' /\ Unsubscribed' /\ NothingLeftRunning'
  BY <1>1 DEF StreamsInv, CacheInv, RegistryInv, EntryOK, Unsubscribed, NothingLeftRunning, Lasting
<1>3. CallsInv'
  BY <1>1 DEF StreamsInv, CallsInv
<1>4. RemoteInv'
  BY <1>1 DEF StreamsInv, RemoteInv, Available
<1>5. Served'
  <2> SUFFICES ASSUME NEW e \in entries, Settled(asked[e.id]), Available(StreamNamed(asked[e.id]))'
               PROVE  StreamNamed(asked[e.id]) \in streams'
    BY <1>1 DEF Served
  <2>1. SettledAt(StreamNamed(asked[e.id]))
    BY NamedFields DEF StreamsInv, RegistryInv, EntryOK
  <2>2. StreamNamed(asked[e.id]) \in streams
    BY <1>1 DEF Available, StreamsInv, Served
  <2> QED BY <1>1, <2>1, <2>2 DEF SettledAt, Lasting
<1> QED BY <1>2, <1>3, <1>4, <1>5 DEF StreamsInv

(* A grouping is removed: its stream ends, and the entries that it served    *)
(* are forgotten, those and no others.                                       *)
LEMMA RemoveGroupKeeps ==
    ASSUME StreamsInv, NEW c \in Contracts, NEW g \in Groups, RemoveGroup(c, g)
    PROVE  StreamsInv'
<1> DEFINE st == Identifier("l2Book", c, g)
           f == GroupRemoved(c, g)
<1>1. /\ g \in offered[c] /\ g # TickSize[c] /\ offered' = [offered EXCEPT ![c] = offered[c] \ {g}]
      /\ UNCHANGED <<tick_sizes, call, asked, dropped, listed>>
      /\ \/ streams' = streams \ {st} /\ entries' = entries \ Under(WsMessageToIdentifier(f))
         \/ st \notin streams /\ UNCHANGED <<streams, entries>>
  BY DEF RemoveGroup, client
<1>2. WsMessageToIdentifier(f) = st
  <2>1. f.channel = "l2Book" /\ f.data = [asset |-> c, group |-> g]
    BY DEF GroupRemoved, Frame
  <2>2. f.data.asset = c /\ "group" \in DOMAIN f.data /\ f.data.group = g
    BY <2>1
  <2> HIDE DEF f
  <2> QED BY <2>1, <2>2 DEF WsMessageToIdentifier, L2BookIdentifier, GroupOfData, PlainTypes
<1> HIDE DEF f
<1>3. /\ offered' \in [Contracts -> SUBSET (Groups \ {0})] /\ g # NoPart
      /\ \A x \in Contracts : offered'[x] \subseteq offered[x]
      /\ g \notin offered'[c]
      /\ \A x \in Contracts, h \in Groups : h \in offered[x] /\ h \notin offered'[x] => x = c /\ h = g
  BY <1>1 DEF StreamsInv, RemoteInv, NoPart
<1>4. st.type = "l2Book" /\ st.key = c /\ st.part = g
  BY DEF Identifier
<1>5. Meaning(st) = st
  BY <1>1, <1>4 DEF Meaning
<1> HIDE DEF st
<1>6. entries' \subseteq entries /\ streams' = streams \ {st}
  BY <1>1
<1>7. \A e \in entries \ entries' : StreamNamed(asked[e.id]) = st
  BY <1>1, <1>2, <1>5 DEF Under, StreamsInv, RegistryInv, EntryOK
<1>8. \A x : x \in streams' => Available(x)'
  <2> SUFFICES ASSUME NEW x \in streams' PROVE Available(x)'
    OBVIOUS
  <2>1. x \in streams /\ x # st /\ Available(x)
    BY <1>6 DEF StreamsInv, RemoteInv
  <2>2. PICK s \in Subscriptions : x = StreamNamed(s)
    BY <2>1 DEF StreamsInv, RemoteInv
  <2>3. ASSUME x.type = "l2Book", x.part # NoPart PROVE x.part \in offered'[x.key]
    <3>1. x = Identifier("l2Book", x.key, x.part) /\ x.key \in Contracts
      BY <2>2, <2>3, NamedFields
    <3>2. x.part \in offered[x.key] /\ x.part \in Groups
      BY <2>1, <2>3, <3>1 DEF Available, StreamsInv, RemoteInv
    <3>3. ~(x.key = c /\ x.part = g)
      BY <2>1, <3>1 DEF st
    <3> QED BY <1>3, <3>1, <3>2, <3>3
  <2> QED BY <1>1, <2>1, <2>3 DEF Available
<1>9. CacheInv' /\ CallsInv'
  BY <1>1 DEF StreamsInv, CacheInv, CallsInv
<1>10. RegistryInv' /\ Unsubscribed'
  BY <1>1, <1>6 DEF StreamsInv, RegistryInv, EntryOK, Unsubscribed
<1>11. RemoteInv'
  BY <1>3, <1>6, <1>8 DEF StreamsInv, RemoteInv
<1>12. Served'
  <2> SUFFICES ASSUME NEW e \in entries', Settled(asked[e.id]), Available(StreamNamed(asked[e.id]))'
               PROVE  StreamNamed(asked[e.id]) \in streams'
    BY <1>1 DEF Served
  <2> DEFINE x == StreamNamed(asked[e.id])
  <2>1. asked[e.id] \in Subscriptions
    BY <1>6 DEF StreamsInv, RegistryInv, EntryOK
  <2>2. x.type = "l2Book" => x.key \in Contracts
    BY <2>1, NamedFields
  <2>3. Available(x)
    BY <1>1, <1>3, <2>2 DEF Available
  <2>4. x # st
    BY <1>1, <1>3, <1>4 DEF Available
  <2>5. x \in streams
    BY <1>6, <2>3 DEF StreamsInv, Served
  <2> QED BY <1>6, <2>4, <2>5
<1>13. NothingLeftRunning'
  BY <1>1, <1>6, <1>7 DEF StreamsInv, NothingLeftRunning
<1> QED BY <1>9, <1>10, <1>11, <1>12, <1>13 DEF StreamsInv

-----------------------------------------------------------------------------
(* StreamsInv is inductive, for every number of threads and contracts.       *)
THEOREM StreamsInvariance == Spec => []StreamsInv
<1>1. Init => StreamsInv
  BY StreamsInit
<1>2. StreamsInv /\ [Next]_vars => StreamsInv'
  <2> SUFFICES ASSUME StreamsInv, [Next]_vars PROVE StreamsInv'
    OBVIOUS
  <2>1. ASSUME NEW t \in Threads, NEW c, RegistryStep(t, c), c.sub \in Asked \/ c = call[t]
        PROVE  StreamsInv'
    BY <2>1, RefuseKeeps, SubscribeKeeps, UnsubscribeKeeps DEF RegistryStep
  <2>2. ASSUME NEW t \in Threads, CallStep(t) PROVE StreamsInv'
    <3>1. CASE LookupStep(t)
      BY <3>1, LookupKeeps
    <3>2. CASE RegistryStep(t, call[t])
      BY <2>1, <3>2
    <3>3. ASSUME NEW s \in Asked, NEW id \in Ids \cup {0}, Begin(t, s, id) PROVE StreamsInv'
      BY <3>3, BeginKeeps
    <3>4. ASSUME NEW s \in Asked, NEW id \in Ids \cup {0}, RegistryStep(t, CallOf("register", s, id))
          PROVE  StreamsInv'
      <4>1. CallOf("register", s, id).sub = s
        BY DEF CallOf, NoCall
      <4> QED BY <2>1, <3>4, <4>1
    <3> QED BY <2>2, <3>1, <3>2, <3>3, <3>4 DEF CallStep
  <2>3. CASE Reconnect
    BY <2>3, ReconnectKeeps
  <2>4. ASSUME NEW c \in Contracts, List(c) \/ Delist(c) PROVE StreamsInv'
    BY <2>4, ListKeeps, DelistKeeps
  <2>5. ASSUME NEW c \in Contracts, NEW g \in Groups, RemoveGroup(c, g) PROVE StreamsInv'
    BY <2>5, RemoveGroupKeeps
  <2>6. CASE UNCHANGED vars
    <3>1. UNCHANGED <<tick_sizes, call, asked, entries, dropped, listed, offered, streams>>
      BY <2>6 DEF vars, client, registry, remote
    <3> QED BY <3>1 DEF StreamsInv, CacheInv, CallsInv, RegistryInv, EntryOK, RemoteInv, Available,
                        Served, NothingLeftRunning, Unsubscribed
  <2>7. CASE Next
    BY <2>2, <2>3, <2>4, <2>5, <2>7 DEF Next
  <2> QED BY <2>6, <2>7
<1> QED BY <1>1, <1>2, PTL DEF Spec

(* TypeOK: every variable keeps its type, and the cache holds the tick sizes *)
(* of contracts and nothing else.                                            *)
THEOREM StreamsTypes == Spec => []TypeOK
<1>1. StreamsInv => TypeOK
  <2> SUFFICES ASSUME StreamsInv PROVE TypeOK
    OBVIOUS
  <2>1. call \in [Threads ->
            [pc : {"idle", "look", "fetch", "store", "has", "read", "register"},
             sub : Asked \cup {NoSub}, id : Ids \cup {0}, raw : BOOLEAN,
             refresh : BOOLEAN, configs : SUBSET Contracts]]
    BY DEF StreamsInv, CallsInv, CallType
  <2>2. offered \in [Contracts -> SUBSET Groups]
    BY DEF StreamsInv, RemoteInv
  <2>3. \A e \in entries : e.id \in DOMAIN asked
    BY DEF StreamsInv, RegistryInv, EntryOK
  <2> QED BY <2>1, <2>2, <2>3 DEF StreamsInv, CacheInv, CacheOK, RegistryInv, TypeOK
<1> QED BY <1>1, StreamsInvariance, PTL

(* Frames reach the callbacks of their own stream, or of their address.      *)
THEOREM FramesRoutedRight == Spec => []RoutedRight
<1>1. StreamsInv => RoutedRight
  <2> SUFFICES ASSUME StreamsInv, NEW st \in streams
               PROVE  /\ \A f \in FramesOf(st) : \A id \in Reached(f) : StreamNamed(asked[id]) = st
                      /\ \A f \in FramesForAll(st) : \A id \in Reached(f) :
                            /\ StreamNamed(asked[id]).type = st.type
                            /\ StreamNamed(asked[id]).key = st.key
    BY DEF RoutedRight
  <2>1. PICK s \in Subscriptions : st = StreamNamed(s)
    BY DEF StreamsInv, RemoteInv
  <2>2. st = Meaning(Ident(s)) /\ Meaning(st) = st /\ st.part \in Nat
    BY <2>1, NamedByIdent, NamedFields
  <2>3. ASSUME NEW f \in FramesOf(st), NEW id \in Reached(f) PROVE StreamNamed(asked[id]) = st
    <3>1. WsMessageToIdentifier(f) = st
      BY <2>2, FrameNamesStream
    <3>2. st.part # Unnamed
      BY <2>2 DEF Unnamed
    <3>3. PICK e \in entries : e.id = id /\ e.identifier = st
      BY <2>3, <3>1, <3>2 DEF Reached, Under
    <3> QED BY <2>2, <3>3 DEF StreamsInv, RegistryInv, EntryOK
  <2>4. ASSUME NEW f \in FramesForAll(st), NEW id \in Reached(f)
        PROVE  StreamNamed(asked[id]).type = st.type /\ StreamNamed(asked[id]).key = st.key
    <3> DEFINE I == WsMessageToIdentifier(f)
    <3>1. st.type = "userAccount" /\ I = Identifier("userAccount", st.key, Unnamed)
      BY FrameForAll
    <3>2. I.type = "userAccount" /\ I.key = st.key
      BY <3>1 DEF Identifier
    <3> HIDE DEF I
    <3>3. PICK e \in entries : e.id = id /\ e.identifier.type = I.type /\ e.identifier.key = I.key
      BY DEF Reached, Under, I
    <3>4. PICK m \in Subscriptions : e.identifier = Ident(m)
      BY DEF StreamsInv, RegistryInv, EntryOK
    <3>5. StreamNamed(asked[id]) = Meaning(e.identifier)
      BY <3>3 DEF StreamsInv, RegistryInv, EntryOK
    <3> QED BY <3>1, <3>2, <3>3, <3>4, <3>5, IdentMeaning
  <2> QED BY <2>3, <2>4
<1> QED BY <1>1, StreamsInvariance, PTL

(* Frames reach every callback of their stream, or of their address.         *)
THEOREM FramesRoutedToAll == Spec => []RoutedAll
<1>1. StreamsInv => RoutedAll
  <2> SUFFICES ASSUME StreamsInv, NEW st \in streams, NEW e \in entries, Settled(asked[e.id])
               PROVE  /\ StreamNamed(asked[e.id]) = st => \A f \in FramesOf(st) : e.id \in Reached(f)
                      /\ StreamNamed(asked[e.id]).type = st.type /\ StreamNamed(asked[e.id]).key = st.key
                            => \A f \in FramesForAll(st) : e.id \in Reached(f)
    BY DEF RoutedAll
  <2>1. asked[e.id] \in Subscriptions /\ e.identifier = StreamNamed(asked[e.id])
    BY DEF StreamsInv, RegistryInv, EntryOK
  <2>2. ASSUME StreamNamed(asked[e.id]) = st, NEW f \in FramesOf(st) PROVE e.id \in Reached(f)
    <3>1. WsMessageToIdentifier(f) = st
      BY <2>1, <2>2, NamedByIdent, FrameNamesStream
    <3>2. e \in Under(st)
      BY <2>1, <2>2 DEF Under
    <3> QED BY <3>1, <3>2 DEF Reached
  <2>3. ASSUME StreamNamed(asked[e.id]).type = st.type, StreamNamed(asked[e.id]).key = st.key,
               NEW f \in FramesForAll(st)
        PROVE  e.id \in Reached(f)
    <3> DEFINE I == WsMessageToIdentifier(f)
    <3>1. st.type = "userAccount" /\ I = Identifier("userAccount", st.key, Unnamed)
      BY FrameForAll
    <3>2. I.type = "userAccount" /\ I.key = st.key /\ I.part = Unnamed
      BY <3>1 DEF Identifier
    <3> HIDE DEF I
    <3>3. \A d \in entries : d.identifier.part \in Nat
      BY IdentMeaning DEF StreamsInv, RegistryInv, EntryOK
    <3>4. Under(I) = {}
      BY <3>2, <3>3 DEF Under, Unnamed
    <3> QED BY <2>1, <2>3, <3>1, <3>2, <3>4 DEF Reached, I
  <2> QED BY <2>2, <2>3
<1> QED BY <1>1, StreamsInvariance, PTL

(* A callback is served whenever the server has what it asked for.           *)
THEOREM CallbacksServed == Spec => []Served
<1>1. StreamsInv => Served
  BY DEF StreamsInv
<1> QED BY <1>1, StreamsInvariance, PTL

(* The server streams nothing that no callback asked for.                    *)
THEOREM StreamsWanted == Spec => []NothingLeftRunning
<1>1. StreamsInv => NothingLeftRunning
  BY DEF StreamsInv
<1> QED BY <1>1, StreamsInvariance, PTL

(* A callback of a lasting contract does not outlive its unsubscribe.        *)
THEOREM CallbacksUnsubscribed == Spec => []Unsubscribed
<1>1. StreamsInv => Unsubscribed
  BY DEF StreamsInv
<1> QED BY <1>1, StreamsInvariance, PTL
=============================================================================
