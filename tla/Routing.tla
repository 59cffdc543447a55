------------------------------- MODULE Routing -------------------------------
(* Which stream a subscription names and which one a frame belongs to:       *)
(* normalize_subscription, subscription_to_identifier and                    *)
(* ws_message_to_identifier of upside/websocket_manager.py.                  *)
(*                                                                           *)
(* A subscription is a record with the fields the caller gave, so a missing  *)
(* field is one outside its DOMAIN, as in the dict.  The spellings that the  *)
(* code takes for one value are kept apart: a number given as an int or as   *)
(* text, an address in any case.                                             *)
EXTENDS Integers

CONSTANTS
    Contracts,   \* contract ids, as decimal text
    LowerCase,   \* every spelling of an address, and its lower-case form
    Deployers,   \* market deployer ids
    Intervals,   \* INTERVALS, in minutes
    Groups       \* price groupings

ASSUME SpellingsAssumption ==
    /\ LowerCase \in [DOMAIN LowerCase -> DOMAIN LowerCase]
    /\ \A u \in DOMAIN LowerCase : LowerCase[LowerCase[u]] = LowerCase[u]
ASSUME NumbersAssumption ==
    Deployers \subseteq Nat \ {0} /\ Groups \subseteq Nat /\ Intervals \subseteq Nat

Addresses == {LowerCase[u] : u \in DOMAIN LowerCase}

AssetTypes == {"bbo", "trades", "ticker"}
UserTypes == {"orderUpdates", "openOrders", "userFills"}
PlainTypes == {"config", "allMarkets"}

(* A number as the caller wrote it; str() and int() forget the difference.   *)
Spelled(values) == [value : values, text : BOOLEAN]
AsText(x) == [x EXCEPT !.text = TRUE]
AsInt(x) == [x EXCEPT !.text = FALSE]

(* Subscriptions with every field they need.                                 *)
Subscriptions ==
    [type : {"l2Book"} \cup AssetTypes, asset : Spelled(Contracts)]
        \cup [type : {"l2Book"}, asset : Spelled(Contracts), group : Spelled(Groups)]
        \cup [type : {"candle"}, asset : Spelled(Contracts), interval : Nat]
        \cup [type : UserTypes, user : DOMAIN LowerCase]
        \cup [type : {"userAccount"}, user : DOMAIN LowerCase, marketDeployerId : Spelled(Deployers)]
        \cup [type : PlainTypes]

-----------------------------------------------------------------------------
(* A candle interval out of the list is refused before anything is sent.     *)
Normalizable(s) == s.type = "candle" => "interval" \in DOMAIN s /\ s.interval \in Intervals

NormalizeKeepsAsset(s) ==
    [f \in DOMAIN s |->
        CASE f = "user" -> LowerCase[s[f]]
          [] f = "group" -> AsInt(s[f])
          [] OTHER -> s[f]]
Normalize(s) ==
    [f \in DOMAIN s |->
        CASE f = "asset" -> AsText(s[f])
          [] f = "user" -> LowerCase[s[f]]
          [] f = "group" -> AsInt(s[f])
          [] OTHER -> s[f]]

(* The part of an identifier that names no grouping, interval or deployer.   *)
NoPart == 0
(* The deployer of a frame that names none, in its channel or its payload.   *)
Unnamed == -1

Identifier(type, key, part) == [type |-> type, key |-> key, part |-> part]

(* An l2Book grouping is a stream of its own; group 0 is the raw book.       *)
L2BookIdentifierUngrouped(asset, group) == Identifier("l2Book", asset, NoPart)
L2BookIdentifier(asset, group) == Identifier("l2Book", asset, group)

(* The account view differs per deployer, the other user streams do not.     *)
UserIdentifierAnyDeployer(type, user, part) == Identifier(type, LowerCase[user], NoPart)
UserIdentifierCaseKept(type, user, part) == Identifier(type, user, part)
UserIdentifier(type, user, part) == Identifier(type, LowerCase[user], part)

Required(type) ==
    CASE type \in {"l2Book"} \cup AssetTypes -> {"asset"}
      [] type = "candle" -> {"asset", "interval"}
      [] type \in UserTypes -> {"user"}
      [] type = "userAccount" -> {"user", "marketDeployerId"}
      [] OTHER -> {}

(* _field raises for a missing field, and an unknown type raises too.        *)
Identifiable(s) ==
    /\ s.type \in {"l2Book", "candle", "userAccount"} \cup AssetTypes \cup UserTypes \cup PlainTypes
    /\ Required(s.type) \subseteq DOMAIN s

GroupOf(s) == IF "group" \in DOMAIN s THEN s.group.value ELSE NoPart

SubscriptionToIdentifier(s) ==
    CASE s.type = "l2Book" -> L2BookIdentifier(s.asset.value, GroupOf(s))
      [] s.type \in AssetTypes -> Identifier(s.type, s.asset.value, NoPart)
      [] s.type = "candle" -> Identifier("candle", s.asset.value, s.interval)
      [] s.type \in UserTypes -> UserIdentifier(s.type, s.user, NoPart)
      [] s.type = "userAccount" -> UserIdentifier(s.type, s.user, s.marketDeployerId.value)
      [] OTHER -> Identifier(s.type, "", NoPart)

-----------------------------------------------------------------------------
(* Frames.  channel is the text before the first ".", suffix the text after  *)
(* it, and data the payload with the fields that routing reads.  A frame of  *)
(* type trades lists trades, and its payload stands for the first of them.   *)

NoIdentifier == Identifier("none", "", NoPart)

UserChannelToType(channel) == IF channel = "fills" THEN "userFills" ELSE channel

(* A frame may name the deployer in its channel, in its payload, or nowhere. *)
DeployerOfFrameChannelOnly(f) == f.deployer
DeployerOfFrame(f) ==
    IF f.deployer # Unnamed THEN f.deployer
    ELSE IF "marketDeployerId" \in DOMAIN f.data THEN f.data.marketDeployerId
    ELSE Unnamed

GroupOfData(d) == IF "group" \in DOMAIN d THEN d.group ELSE NoPart

(* One bar under compact keys, or the batch of an older server.              *)
CandleIdentifier(d) ==
    IF "candles" \in DOMAIN d
    THEN Identifier("candle", d.asset, d.interval)
    ELSE Identifier("candle", d.s, d.i)

WsMessageToIdentifier(f) ==
    CASE f.channel = "l2Book" -> L2BookIdentifier(f.data.asset, GroupOfData(f.data))
      [] f.channel = "bbo" -> Identifier("bbo", f.data.asset, NoPart)
      [] f.channel = "trades" ->
            IF "asset" \in DOMAIN f.data THEN Identifier("trades", f.data.asset, NoPart) ELSE NoIdentifier
      [] f.channel = "candle" -> CandleIdentifier(f.data)
      [] f.channel \in PlainTypes -> Identifier(f.channel, "", NoPart)
      [] f.channel \in {"orderUpdates", "openOrders", "fills"} ->
            UserIdentifier(UserChannelToType(f.channel), f.suffix, NoPart)
      [] f.channel = "ticker" -> Identifier("ticker", f.suffix, NoPart)
      [] f.channel = "userAccount" -> UserIdentifier("userAccount", f.suffix, DeployerOfFrame(f))
      [] OTHER -> NoIdentifier
=============================================================================
