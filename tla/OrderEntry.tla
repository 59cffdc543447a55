----------------------------- MODULE OrderEntry -----------------------------
(* The order family of Exchange (upside/exchange.py): from a call, or from   *)
(* the OrderRequest dicts a caller builds, to the action that is signed or   *)
(* the ValueError / TypeError raised before anything is signed.              *)
(*                                                                           *)
(* A value is the class the checks tell apart: an amount is absent ("none"), *)
(* no integer ("bad"), below, at or above zero, or above int64 ("over"); an  *)
(* id is "none", "ok" or "bad".  The builder fields, passed on unchecked,    *)
(* are left out.                                                             *)
EXTENDS Integers, Sequences, FiniteSets

CONSTANTS
    MaxBatch,      \* MAX_ORDERS_PER_REQUEST and MAX_CANCELS_PER_REQUEST
    TriggerTypes,  \* the trigger types callers pass
    OrderArgs,     \* arguments of order and market_order
    TriggerArgs,   \* arguments of trigger_order
    Batches,       \* the lists of dicts passed to bulk_orders
    TpSlArgs,      \* arguments of tp_sl
    ModifyArgs,    \* arguments of modify
    CancelLists    \* the ids passed to bulk_cancel and bulk_cancel_by_cloid

Amounts == {"none", "bad", "neg", "zero", "pos", "over"}
Ids == {"none", "ok", "bad"}
Tifs == {"Gtc", "Ioc", "Alo", "Fok"}
Syncs == {"none", "true", "false", "bad"}
SyncActions == {"order", "cancel", "cancelByCloid", "cancelAll", "modify"}
LegNames == {"tp", "sl"}

(* A take-profit or stop-loss: when it fires and what it then places.        *)
Legs == [price : Amounts, limit : Amounts, size : Amounts,
         trigger : TriggerTypes, type : {"none", "limit", "market", "bad"}]
Triggers == [px : Amounts, market : BOOLEAN, side : LegNames \cup {"none", "bad"}]

(* An OrderRequest; "none" is a key that is left out.                        *)
Requests == [asset : {"ok", "bad"}, buy : {"B", "S", "bad"}, size : Amounts,
             price : Amounts, reduce : BOOLEAN, market : BOOLEAN,
             tif : Tifs \cup {"none", "bad"}, cloid : Ids, trigger : Triggers,
             tp : Legs, sl : Legs]
TpSlRequests == [asset : {"ok", "bad"}, position : BOOLEAN, side : {"none", "B", "S", "bad"},
                 reduce : BOOLEAN, tp : Legs, sl : Legs, openTp : Legs, openSl : Legs]
Modifications == [asset : {"ok", "bad"}, oid : Ids, cloid : Ids, price : Amounts,
                  size : Amounts, tif : Tifs \cup {"none", "bad"}, newCloid : Ids]
Cancels == [asset : {"ok", "bad"}, id : Ids]

ASSUME SizesAssumption == MaxBatch \in Nat \ {0} /\ "mark" \in TriggerTypes
ASSUME ArgsAssumption ==
    /\ OrderArgs \subseteq Requests /\ TriggerArgs \subseteq Requests
    /\ Batches \subseteq Seq(Requests) /\ TpSlArgs \subseteq TpSlRequests
    /\ ModifyArgs \subseteq Modifications /\ CancelLists \subseteq Seq(Cancels)

VARIABLES
    sync,    \* self.sync of the client
    call,    \* the call the client is asked for
    outcome  \* the envelope it signs and posts, or the refusal

vars == <<sync, call, outcome>>

NoCall == [method |-> "none"]
Nothing == [type |-> "none"]
Refused == [type |-> "refused"]
NoLeg == [price |-> "none", limit |-> "none", size |-> "none", trigger |-> "mark", type |-> "none"]

Init == sync \in Syncs /\ call = NoCall /\ outcome = Nothing

-----------------------------------------------------------------------------
(* Amounts and legs.                                                         *)

(* str(value) of an argument: None becomes a text that is no integer.        *)
AsText(v) == IF v = "none" THEN "bad" ELSE v

IsSet(v) == v \in {"pos", "over"}
IsAmount(v) == v \in {"zero", "pos"}
IsPositive(v) == v = "pos"

(* _check_tpsl_leg passes.                                                   *)
LegCheckedNoLimit(leg) ==
    /\ leg.price # "bad"
    /\ IF IsSet(leg.price) THEN leg.type \in {"limit", "market"} ELSE leg.type = "none"
LegChecked(leg) ==
    /\ leg.price # "bad"
    /\ IF IsSet(leg.price)
       THEN leg.type \in {"limit", "market"} /\ IsSet(leg.limit)
       ELSE leg.type = "none"

LegAmounts(leg) == IsAmount(leg.price) /\ IsAmount(leg.limit) /\ IsAmount(leg.size)

(* A leg that is set goes to the wire, a size left out as 0; others do not.  *)
WireLegSizeLost(leg) == IF IsSet(leg.price) THEN [leg EXCEPT !.size = "zero"] ELSE NoLeg
WireLeg(leg) ==
    IF IsSet(leg.price)
    THEN [leg EXCEPT !.size = IF @ = "none" THEN "zero" ELSE @]
    ELSE NoLeg

-----------------------------------------------------------------------------
(* One order: _order_to_wire and _tpsl_to_wire.                              *)

LegsSet(r) == {name \in LegNames : IsSet(r[name].price)}

RequestChecked(r) ==
    /\ r.buy # "bad" /\ r.asset = "ok" /\ r.cloid # "bad"
    /\ IsPositive(r.size) /\ IsPositive(r.price)
    /\ \/ r.trigger.px # "none" /\ r.trigger.side \in LegNames /\ IsPositive(r.trigger.px)
       \/ r.trigger.px = "none" /\ (r.market \/ r.tif \in Tifs \cup {"none"})
    /\ \A name \in LegNames : r[name].price # "bad"
    /\ LegsSet(r) # {} => ~r.reduce
    /\ \A name \in LegsSet(r) : LegChecked(r[name]) /\ LegAmounts(WireLeg(r[name]))

OrderType(r) ==
    IF r.trigger.px # "none" THEN [kind |-> "trigger", trigger |-> r.trigger]
    ELSE IF r.market THEN [kind |-> "market"]
    ELSE [kind |-> "limit", tif |-> IF r.tif = "none" THEN "Gtc" ELSE r.tif]

ToWire(r) ==
    [asset |-> r.asset, buy |-> r.buy, size |-> r.size, price |-> r.price, reduce |-> r.reduce,
     t |-> OrderType(r), cloid |-> r.cloid, tp |-> WireLeg(r.tp), sl |-> WireLeg(r.sl)]

BatchCheckedOffByOne(rs) ==
    /\ Len(rs) \in 1 .. MaxBatch + 1
    /\ \A i \in 1 .. Len(rs) : RequestChecked(rs[i])
BatchCheckedAnyLeg(rs) ==
    /\ Len(rs) \in 1 .. MaxBatch
    /\ Len(rs) > 1 => \A i \in 1 .. Len(rs) :
            rs[i].trigger.px = "none" /\ rs[i].tp.price = "none" /\ rs[i].sl.price = "none"
    /\ \A i \in 1 .. Len(rs) : RequestChecked(rs[i])
BatchChecked(rs) ==
    /\ Len(rs) \in 1 .. MaxBatch
    /\ Len(rs) > 1 => \A i \in 1 .. Len(rs) : rs[i].trigger.px = "none" /\ LegsSet(rs[i]) = {}
    /\ \A i \in 1 .. Len(rs) : RequestChecked(rs[i])

(* The dict order() and trigger_order() hand to bulk_orders.                 *)
OrderRequest(a) ==
    [a EXCEPT !.size = AsText(@), !.tif = IF a.market THEN "none" ELSE @,
              !.tp = WireLeg(@), !.sl = WireLeg(@)]
TriggerRequest(a) ==
    [a EXCEPT !.size = AsText(@), !.price = AsText(@), !.trigger.px = AsText(@),
              !.market = FALSE, !.tif = "none", !.tp = WireLeg(@), !.sl = WireLeg(@)]

-----------------------------------------------------------------------------
(* The calls.                                                                *)

Ends(c, checked, envelope) ==
    /\ call' = c
    /\ outcome' = IF checked THEN envelope ELSE Refused
    /\ UNCHANGED sync

(* _post_order_family: the call's flag, else the client's; it must be a bool.*)
OrderFamily(c, checked, type, body) ==
    LET effective == IF c.sync = "none" THEN sync ELSE c.sync
    IN  Ends(c, checked /\ effective # "bad", [type |-> type, body |-> body, sync |-> effective])

Order(a, s) ==
    OrderFamily([method |-> "order", orders |-> <<a>>, sync |-> s],
                /\ a.price # "none" /\ a.cloid # "bad"
                /\ LegChecked(a.tp) /\ LegChecked(a.sl)
                /\ BatchChecked(<<OrderRequest(a)>>),
                "order", <<ToWire(OrderRequest(a))>>)

TriggerOrder(a, s) ==
    OrderFamily([method |-> "trigger", orders |-> <<a>>, sync |-> s],
                /\ a.cloid # "bad" /\ LegChecked(a.tp) /\ LegChecked(a.sl)
                /\ BatchChecked(<<TriggerRequest(a)>>),
                "order", <<ToWire(TriggerRequest(a))>>)

BulkOrders(rs, s) ==
    OrderFamily([method |-> "bulk", orders |-> rs, sync |-> s],
                BatchChecked(rs), "order", [i \in 1 .. Len(rs) |-> ToWire(rs[i])])

ModifyChecked(a) ==
    /\ a.oid # "none" \/ a.cloid # "none"
    /\ a.tif \in {"none", "Gtc", "Alo"} /\ a.asset = "ok"
    /\ a.oid # "bad" /\ (a.oid = "none" => a.cloid # "bad") /\ a.newCloid # "bad"
    /\ a.price = "none" \/ IsPositive(a.price)
    /\ a.size = "none" \/ IsPositive(a.size)

Modify(a, s) ==
    OrderFamily([method |-> "modify", change |-> a, sync |-> s], ModifyChecked(a),
                "modify", [a EXCEPT !.cloid = IF a.oid # "none" THEN "none" ELSE @])

(* cancel and cancel_by_cloid are lists of one.                              *)
BulkCancel(ids, s, type) ==
    OrderFamily([method |-> type, ids |-> ids, sync |-> s],
                /\ Len(ids) \in 1 .. MaxBatch
                /\ \A i \in 1 .. Len(ids) : ids[i].asset = "ok" /\ ids[i].id = "ok",
                type, ids)

CancelAll(asset, s) ==
    OrderFamily([method |-> "cancelAll", asset |-> asset, sync |-> s], asset = "ok", "cancelAll", asset)

(* tp_sl, which is answered synchronously and carries no flag.               *)
TpSlChecked(a) ==
    /\ \A name \in {"tp", "sl", "openTp", "openSl"} : LegChecked(a[name])
    /\ LegsSet(a) # {}
    /\ \/ a.position /\ ~IsSet(a.openTp.price) /\ ~IsSet(a.openSl.price)
       \/ ~a.position /\ a.side \in {"B", "S"} /\ Cardinality(LegsSet(a)) = 1
    /\ a.asset = "ok" /\ LegAmounts(a.tp) /\ LegAmounts(a.sl)
    /\ \A name \in {"openTp", "openSl"} : IsSet(a[name].price) => LegAmounts(WireLeg(a[name]))

TpSl(a) ==
    Ends([method |-> "tpSl", legs |-> a], TpSlChecked(a),
         [type |-> "tpSl", sync |-> "none",
          body |-> [a EXCEPT !.openTp = WireLeg(@), !.openSl = WireLeg(@)]])

(* The caller has its answer, or the exception; calls share nothing else.    *)
Return == call # NoCall /\ call' = NoCall /\ outcome' = Nothing /\ UNCHANGED sync

Call ==
    \/ \E a \in OrderArgs, s \in Syncs : Order(a, s)
    \/ \E a \in TriggerArgs, s \in Syncs : TriggerOrder(a, s)
    \/ \E rs \in Batches, s \in Syncs : BulkOrders(rs, s)
    \/ \E a \in ModifyArgs, s \in Syncs : Modify(a, s)
    \/ \E ids \in CancelLists, s \in Syncs, type \in {"cancel", "cancelByCloid"} :
            BulkCancel(ids, s, type)
    \/ \E asset \in {"ok", "bad"}, s \in Syncs : CancelAll(asset, s)
    \/ \E a \in TpSlArgs : TpSl(a)

Next == (call = NoCall /\ Call) \/ Return

Spec == Init /\ [][Next]_vars

-----------------------------------------------------------------------------
(* The rules of the gateway, from the docstrings and comments of exchange.py *)
(* and utils/constants.py: what it takes, said of the wire.                  *)

LegTaken(leg) ==
    leg.price = "pos" /\ leg.limit = "pos" /\ leg.size \in {"zero", "pos"}
    /\ leg.type \in {"limit", "market"} /\ leg.trigger \in {"mark", "oracle"}

OrderTaken(w) ==
    /\ w.asset = "ok" /\ w.buy \in {"B", "S"} /\ w.size = "pos" /\ w.price = "pos" /\ w.cloid # "bad"
    /\ w.t.kind = "limit" => w.t.tif \in Tifs
    /\ w.t.kind = "trigger" => w.t.trigger.px = "pos" /\ w.t.trigger.side \in LegNames
    /\ \A name \in LegNames : w[name] = NoLeg \/ (LegTaken(w[name]) /\ ~w.reduce)

OrdersTaken(ws) ==
    /\ Len(ws) \in 1 .. MaxBatch
    /\ \A i \in 1 .. Len(ws) : OrderTaken(ws[i])
    /\ Len(ws) > 1 => \A i \in 1 .. Len(ws) :
            ws[i].t.kind # "trigger" /\ ws[i].tp = NoLeg /\ ws[i].sl = NoLeg

LegUnset(leg) == leg.price \in {"none", "zero"} /\ leg.type = "none"
AmountsTaken(leg) == {leg.price, leg.limit, leg.size} \subseteq {"zero", "pos"}
TpSlTaken(w) ==
    LET set == {name \in LegNames : ~LegUnset(w[name])} IN
    /\ w.asset = "ok" /\ set # {} /\ AmountsTaken(w.tp) /\ AmountsTaken(w.sl)
    /\ \A name \in set : LegTaken(w[name])
    /\ \A name \in {"openTp", "openSl"} : w[name] = NoLeg \/ (LegTaken(w[name]) /\ ~w.position)
    /\ ~w.position => w.side \in {"B", "S"} /\ Cardinality(set) = 1

ModifyTaken(w) ==
    /\ w.asset = "ok" /\ {w.oid, w.cloid} = {"ok", "none"} /\ w.newCloid # "bad"
    /\ {w.price, w.size} \subseteq {"none", "pos"} /\ w.tif \in {"none", "Gtc", "Alo"}

Taken(e) ==
    /\ e.sync = "none" \/ (e.type \in SyncActions /\ e.sync \in {"true", "false"})
    /\ CASE e.type = "order" -> OrdersTaken(e.body)
         [] e.type = "modify" -> ModifyTaken(e.body)
         [] e.type = "tpSl" -> TpSlTaken(e.body)
         [] e.type = "cancelAll" -> e.body = "ok"
         [] OTHER -> /\ Len(e.body) \in 1 .. MaxBatch
                     /\ \A i \in 1 .. Len(e.body) : e.body[i] = [asset |-> "ok", id |-> "ok"]

Signed == outcome.type \notin {"none", "refused"}

-----------------------------------------------------------------------------
(* Properties.                                                               *)

TypeOK ==
    /\ sync \in Syncs
    /\ call.method \in {"none", "order", "trigger", "bulk", "tpSl"} \cup SyncActions
    /\ outcome.type \in {"none", "refused", "tpSl"} \cup SyncActions
    /\ (call = NoCall) = (outcome = Nothing)
    /\ outcome.type \in {"order", "cancel", "cancelByCloid"} => Len(outcome.body) \in 1 .. MaxBatch

(* Nothing malformed is signed: the gateway might answer it 202 and drop it. *)
NothingMalformedSigned == Signed => Taken(outcome)

(* A take-profit or stop-loss set above zero is on the order it was asked    *)
(* for as it was asked, whichever method it came through, and no other is.   *)
ProtectionKept ==
    outcome.type = "order" =>
        \A i \in 1 .. Len(call.orders), name \in LegNames :
            LET asked == call.orders[i][name]
                wire == outcome.body[i][name]
            IN  /\ (asked.price = "pos") = (wire # NoLeg)
                /\ asked.price = "pos" =>
                     /\ \A field \in {"price", "limit", "trigger", "type"} : wire[field] = asked[field]
                     /\ wire.size = IF asked.size = "none" THEN "zero" ELSE asked.size

(* The meaning of a call's order arguments, said of the arguments: a call is *)
(* sound when the gateway's rules hold of what it asks for.                  *)
LegSound(leg) == LegUnset(leg) \/ (leg.price = "pos" /\ leg.limit = "pos"
                     /\ leg.size \in {"none", "zero", "pos"} /\ leg.type \in {"limit", "market"})
RequestSound(r) ==
    /\ r.asset = "ok" /\ r.buy # "bad" /\ r.size = "pos" /\ r.price = "pos" /\ r.cloid # "bad"
    /\ r.tif \in Tifs \cup {"none"}
    /\ r.trigger.px \in {"none", "pos"} /\ (r.trigger.px = "pos" => r.trigger.side \in LegNames)
    /\ \A name \in LegNames : LegSound(r[name]) /\ (r.reduce => LegUnset(r[name]))
CallSound ==
    /\ call.method \in {"order", "trigger", "bulk"}
    /\ Len(call.orders) \in 1 .. MaxBatch
    /\ \A i \in 1 .. Len(call.orders) : RequestSound(call.orders[i])
    /\ call.method = "trigger" => call.orders[1].trigger.px = "pos"
    /\ Len(call.orders) > 1 => \A i \in 1 .. Len(call.orders), name \in LegNames :
            call.orders[i].trigger.px = "none" /\ LegUnset(call.orders[i][name])
    /\ "bad" # (IF call.sync = "none" THEN sync ELSE call.sync)

(* No sound order is refused, zeroed legs and orders without a tif included. *)
SoundOrdersSigned == CallSound => Signed
=============================================================================
