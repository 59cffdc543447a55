-------------------------- MODULE OrderEntryProofs --------------------------
(* Proofs of what OrderEntry signs, for every argument and batch limit.      *)
EXTENDS OrderEntry, TLAPS

(* A leg that passed _check_tpsl_leg and the amount checks is one the gateway*)
(* takes, or is left out.                                                    *)
LEMMA LegOnWire ==
    ASSUME NEW leg \in Legs, TriggerTypes \subseteq {"mark", "oracle"},
           IsSet(leg.price) => LegChecked(leg) /\ LegAmounts(WireLeg(leg))
    PROVE  /\ IsSet(leg.price) => LegTaken(WireLeg(leg))
           /\ ~IsSet(leg.price) => WireLeg(leg) = NoLeg
<1>1. CASE IsSet(leg.price)
  <2>1. WireLeg(leg) = [leg EXCEPT !.size = IF @ = "none" THEN "zero" ELSE @]
    BY <1>1 DEF WireLeg
  <2> DEFINE w == WireLeg(leg)
  <2>2. w.price = leg.price /\ w.limit = leg.limit /\ w.trigger = leg.trigger /\ w.type = leg.type
    BY <2>1 DEF Legs
  <2>3. LegChecked(leg) /\ LegAmounts(w)
    BY <1>1
  <2> HIDE DEF w
  <2>4. LegTaken(w)
    BY <1>1, <2>2, <2>3 DEF LegTaken, LegChecked, LegAmounts, IsSet, IsAmount, Legs
  <2> QED BY <1>1, <2>4 DEF w
<1>2. CASE ~IsSet(leg.price)
  BY <1>2 DEF WireLeg
<1> QED BY <1>1, <1>2

(* A leg on the wire is a leg.                                               *)
LEMMA LegTyped ==
    ASSUME NEW leg \in Legs PROVE WireLeg(leg) \in Legs
BY SizesAssumption DEF WireLeg, Legs, NoLeg, Amounts

(* An OrderRequest that passed its checks becomes an order the gateway takes.*)
LEMMA RequestOnWire ==
    ASSUME NEW r \in Requests, TriggerTypes \subseteq {"mark", "oracle"}, RequestChecked(r)
    PROVE  OrderTaken(ToWire(r))
<1> DEFINE w == ToWire(r)
<1>1. /\ w.asset = r.asset /\ w.buy = r.buy /\ w.size = r.size /\ w.price = r.price
      /\ w.reduce = r.reduce /\ w.cloid = r.cloid /\ w.t = OrderType(r)
      /\ w.tp = WireLeg(r.tp) /\ w.sl = WireLeg(r.sl)
  BY DEF ToWire
<1>2. r.tp \in Legs /\ r.sl \in Legs /\ r.buy \in {"B", "S", "bad"}
  BY DEF Requests
<1>3. /\ IsSet(r.tp.price) => LegTaken(w.tp) /\ ~w.reduce
      /\ ~IsSet(r.tp.price) => w.tp = NoLeg
  BY <1>1, <1>2, LegOnWire DEF RequestChecked, LegsSet, LegNames
<1>4. /\ IsSet(r.sl.price) => LegTaken(w.sl) /\ ~w.reduce
      /\ ~IsSet(r.sl.price) => w.sl = NoLeg
  BY <1>1, <1>2, LegOnWire DEF RequestChecked, LegsSet, LegNames
<1>5. /\ w.t.kind = "limit" => w.t.tif \in Tifs
      /\ w.t.kind = "trigger" => w.t.trigger.px = "pos" /\ w.t.trigger.side \in LegNames
  BY <1>1 DEF RequestChecked, OrderType, IsPositive, Tifs
<1>6. /\ w.asset = "ok" /\ w.buy \in {"B", "S"} /\ w.size = "pos" /\ w.price = "pos"
      /\ w.cloid # "bad"
  BY <1>1, <1>2 DEF RequestChecked, IsPositive
<1> HIDE DEF w
<1>7. OrderTaken(w)
  BY <1>3, <1>4, <1>5, <1>6 DEF OrderTaken, LegNames
<1> QED BY <1>7 DEF w

(* A batch that passed its checks is one the gateway takes.                  *)
LEMMA BatchOnWire ==
    ASSUME NEW rs \in Seq(Requests), NEW ws, ws = [i \in 1 .. Len(rs) |-> ToWire(rs[i])],
           TriggerTypes \subseteq {"mark", "oracle"}, BatchChecked(rs)
    PROVE  OrdersTaken(ws)
<1>1. Len(ws) = Len(rs) /\ Len(rs) \in Nat /\ \A i \in 1 .. Len(rs) : ws[i] = ToWire(rs[i])
  OBVIOUS
<1>2. \A i \in 1 .. Len(ws) : OrderTaken(ws[i])
  BY <1>1, RequestOnWire DEF BatchChecked
<1>3. ASSUME Len(rs) > 1, NEW i \in 1 .. Len(rs)
      PROVE  ws[i].t.kind # "trigger" /\ ws[i].tp = NoLeg /\ ws[i].sl = NoLeg
  <2>1. rs[i].trigger.px = "none" /\ LegsSet(rs[i]) = {}
    BY <1>3 DEF BatchChecked
  <2>2. ~IsSet(rs[i].tp.price) /\ ~IsSet(rs[i].sl.price)
    BY <2>1 DEF LegsSet, LegNames
  <2> QED BY <1>1, <1>3, <2>1, <2>2 DEF ToWire, OrderType, WireLeg
<1> QED BY <1>1, <1>2, <1>3 DEF OrdersTaken, BatchChecked

(* So is a tpSl action that passed the checks of tp_sl.                      *)
LEMMA TpSlOnWire ==
    ASSUME NEW a \in TpSlRequests, TriggerTypes \subseteq {"mark", "oracle"}, TpSlChecked(a)
    PROVE  TpSlTaken([a EXCEPT !.openTp = WireLeg(@), !.openSl = WireLeg(@)])
<1> DEFINE w == [a EXCEPT !.openTp = WireLeg(@), !.openSl = WireLeg(@)]
<1>1. /\ w.asset = a.asset /\ w.tp = a.tp /\ w.sl = a.sl /\ w.position = a.position
      /\ w.side = a.side /\ w.openTp = WireLeg(a.openTp) /\ w.openSl = WireLeg(a.openSl)
  BY DEF TpSlRequests
<1>2. a.tp \in Legs /\ a.sl \in Legs /\ a.openTp \in Legs /\ a.openSl \in Legs
  BY DEF TpSlRequests
<1>3. /\ LegChecked(a.tp) /\ LegChecked(a.sl) /\ LegChecked(a.openTp) /\ LegChecked(a.openSl)
      /\ a.asset = "ok" /\ LegAmounts(a.tp) /\ LegAmounts(a.sl) /\ LegsSet(a) # {}
  BY DEF TpSlChecked
<1> HIDE DEF w
<1>4. ASSUME NEW leg \in Legs, LegChecked(leg), LegAmounts(leg)
      PROVE  /\ AmountsTaken(leg)
             /\ IsSet(leg.price) => LegTaken(leg) /\ ~LegUnset(leg)
             /\ ~IsSet(leg.price) => LegUnset(leg)
  BY <1>4 DEF Legs, AmountsTaken, LegTaken, LegUnset, LegChecked, LegAmounts, IsSet, IsAmount
<1>5. /\ AmountsTaken(w.tp) /\ AmountsTaken(w.sl)
      /\ ~LegUnset(w.tp) <=> IsSet(a.tp.price)
      /\ ~LegUnset(w.sl) <=> IsSet(a.sl.price)
      /\ ~LegUnset(w.tp) => LegTaken(w.tp)
      /\ ~LegUnset(w.sl) => LegTaken(w.sl)
  BY <1>1, <1>2, <1>3, <1>4
<1> DEFINE set == {name \in LegNames : ~LegUnset(w[name])}
<1>6. set = LegsSet(a)
  BY <1>5 DEF LegsSet, LegNames
<1>7. \A name \in set : LegTaken(w[name])
  BY <1>5 DEF LegNames
<1>8. ~w.position => w.side \in {"B", "S"} /\ Cardinality(set) = 1
  BY <1>1, <1>6 DEF TpSlChecked
<1>9. \A name \in {"openTp", "openSl"} : w[name] = NoLeg \/ (LegTaken(w[name]) /\ ~w.position)
  <2>1. w.openTp = NoLeg \/ (LegTaken(w.openTp) /\ ~w.position)
    BY <1>1, <1>2, LegOnWire DEF TpSlChecked
  <2>2. w.openSl = NoLeg \/ (LegTaken(w.openSl) /\ ~w.position)
    BY <1>1, <1>2, LegOnWire DEF TpSlChecked
  <2> QED BY <2>1, <2>2
<1>10. w.asset = "ok" /\ set # {}
  BY <1>1, <1>3, <1>6
<1> HIDE DEF set
<1>11. TpSlTaken(w)
  BY <1>5, <1>7, <1>8, <1>9, <1>10 DEF TpSlTaken, set
<1> QED BY <1>11 DEF w

(* So is a modify action that passed the checks of modify.                   *)
LEMMA ModifyOnWire ==
    ASSUME NEW a \in Modifications, ModifyChecked(a)
    PROVE  ModifyTaken([a EXCEPT !.cloid = IF a.oid # "none" THEN "none" ELSE @])
<1> DEFINE w == [a EXCEPT !.cloid = IF a.oid # "none" THEN "none" ELSE @]
<1>1. /\ w.asset = a.asset /\ w.oid = a.oid /\ w.price = a.price /\ w.size = a.size
      /\ w.tif = a.tif /\ w.newCloid = a.newCloid
      /\ w.cloid = IF a.oid # "none" THEN "none" ELSE a.cloid
  BY DEF Modifications
<1>2. a.oid \in Ids /\ a.cloid \in Ids
  BY DEF Modifications
<1> HIDE DEF w
<1>3. {w.oid, w.cloid} = {"ok", "none"}
  BY <1>1, <1>2 DEF ModifyChecked, Ids
<1>4. ModifyTaken(w)
  BY <1>1, <1>3 DEF ModifyChecked, ModifyTaken, IsPositive
<1> QED BY <1>4 DEF w

-----------------------------------------------------------------------------
(* The dicts the two order methods build.                                    *)
LEMMA DictsTyped ==
    ASSUME NEW a \in Requests
    PROVE  OrderRequest(a) \in Requests /\ TriggerRequest(a) \in Requests
<1>1. /\ a.tp \in Legs /\ a.sl \in Legs /\ a.size \in Amounts /\ a.price \in Amounts
      /\ a.trigger \in Triggers
  BY DEF Requests
<1>2. WireLeg(a.tp) \in Legs /\ WireLeg(a.sl) \in Legs
  BY <1>1, LegTyped
<1>3. AsText(a.size) \in Amounts /\ AsText(a.price) \in Amounts
  BY <1>1 DEF AsText, Amounts
<1>4. [a.trigger EXCEPT !.px = AsText(@)] \in Triggers
  BY <1>1 DEF AsText, Amounts, Triggers
<1>5. OrderRequest(a) \in Requests
  BY <1>2, <1>3 DEF OrderRequest, Requests
<1>6. TriggerRequest(a) \in Requests
  BY <1>2, <1>3, <1>4 DEF TriggerRequest, Requests
<1> QED BY <1>5, <1>6

(* The batch of one order that order() and trigger_order() hand on.          *)
LEMMA OneOnWire ==
    ASSUME NEW r \in Requests, TriggerTypes \subseteq {"mark", "oracle"}, BatchChecked(<<r>>)
    PROVE  OrdersTaken(<<ToWire(r)>>)
<1>1. <<r>> \in Seq(Requests) /\ <<ToWire(r)>> = [i \in 1 .. Len(<<r>>) |-> ToWire(<<r>>[i])]
  OBVIOUS
<1> QED BY <1>1, BatchOnWire

(* What every method of the order family leaves behind.                      *)
LEMMA FamilyOutcome ==
    ASSUME NEW c, NEW checked \in BOOLEAN, NEW type \in SyncActions, NEW body, sync \in Syncs,
           c.sync \in Syncs, OrderFamily(c, checked, type, body),
           checked => Taken([type |-> type, body |-> body, sync |-> "none"])
    PROVE  NothingMalformedSigned'
<1> DEFINE flag == IF c.sync = "none" THEN sync ELSE c.sync
           e == [type |-> type, body |-> body, sync |-> flag]
<1>1. outcome' = IF checked /\ flag # "bad" THEN e ELSE Refused
  BY DEF OrderFamily, Ends
<1>2. CASE checked /\ flag # "bad"
  <2>1. flag = "none" \/ (type \in SyncActions /\ flag \in {"true", "false"})
    BY <1>2 DEF Syncs
  <2>2. e.type = type /\ e.body = body /\ e.sync = flag
    OBVIOUS
  <2>3. Taken([type |-> type, body |-> body, sync |-> "none"])
    BY <1>2
  <2> HIDE DEF e, flag
  <2>4. Taken(e)
    BY <2>1, <2>2, <2>3 DEF Taken
  <2>5. outcome' = e
    BY <1>1, <1>2
  <2> QED BY <2>4, <2>5 DEF NothingMalformedSigned
<1>3. CASE ~(checked /\ flag # "bad")
  BY <1>1, <1>3 DEF NothingMalformedSigned, Signed, Refused
<1> QED BY <1>2, <1>3

OrderInv == sync \in Syncs /\ NothingMalformedSigned

(* Nothing is signed at first.                                               *)
LEMMA OrderInvInit == Init => OrderInv
BY DEF Init, OrderInv, NothingMalformedSigned, Signed, Nothing

(* No call signs what the gateway would not take.                            *)
LEMMA OrderInvStep ==
    ASSUME TriggerTypes \subseteq {"mark", "oracle"}, OrderInv, [Next]_vars
    PROVE  OrderInv'
<1> USE ArgsAssumption
<1>1. sync \in Syncs /\ sync' = sync
  BY DEF OrderInv, Next, Call, Order, TriggerOrder, BulkOrders, Modify, BulkCancel, CancelAll,
         TpSl, OrderFamily, Ends, Return, vars
<1>2. ASSUME NEW a \in OrderArgs, NEW s \in Syncs, Order(a, s) PROVE NothingMalformedSigned'
  <2> DEFINE checked == /\ a.price # "none" /\ a.cloid # "bad"
                        /\ LegChecked(a.tp) /\ LegChecked(a.sl)
                        /\ BatchChecked(<<OrderRequest(a)>>)
             c == [method |-> "order", orders |-> <<a>>, sync |-> s]
             body == <<ToWire(OrderRequest(a))>>
  <2>1. checked => OrdersTaken(body)
    BY DictsTyped, OneOnWire
  <2>2. checked => Taken([type |-> "order", body |-> body, sync |-> "none"])
    BY <2>1 DEF Taken
  <2>3. OrderFamily(c, checked, "order", body) /\ checked \in BOOLEAN /\ c.sync \in Syncs
    BY <1>2 DEF Order
  <2> HIDE DEF checked, c, body
  <2> QED BY <1>1, <2>2, <2>3, FamilyOutcome DEF SyncActions
<1>3. ASSUME NEW a \in TriggerArgs, NEW s \in Syncs, TriggerOrder(a, s)
      PROVE  NothingMalformedSigned'
  <2> DEFINE checked == /\ a.cloid # "bad" /\ LegChecked(a.tp) /\ LegChecked(a.sl)
                        /\ BatchChecked(<<TriggerRequest(a)>>)
             c == [method |-> "trigger", orders |-> <<a>>, sync |-> s]
             body == <<ToWire(TriggerRequest(a))>>
  <2>1. checked => OrdersTaken(body)
    BY DictsTyped, OneOnWire
  <2>2. checked => Taken([type |-> "order", body |-> body, sync |-> "none"])
    BY <2>1 DEF Taken
  <2>3. OrderFamily(c, checked, "order", body) /\ checked \in BOOLEAN /\ c.sync \in Syncs
    BY <1>3 DEF TriggerOrder
  <2> HIDE DEF checked, c, body
  <2> QED BY <1>1, <2>2, <2>3, FamilyOutcome DEF SyncActions
<1>4. ASSUME NEW rs \in Batches, NEW s \in Syncs, BulkOrders(rs, s) PROVE NothingMalformedSigned'
  <2> DEFINE checked == BatchChecked(rs)
             c == [method |-> "bulk", orders |-> rs, sync |-> s]
             body == [i \in 1 .. Len(rs) |-> ToWire(rs[i])]
  <2>1. checked => OrdersTaken(body)
    BY BatchOnWire
  <2>2. checked => Taken([type |-> "order", body |-> body, sync |-> "none"])
    BY <2>1 DEF Taken
  <2>3. OrderFamily(c, checked, "order", body) /\ checked \in BOOLEAN /\ c.sync \in Syncs
    BY <1>4 DEF BulkOrders, BatchChecked
  <2> HIDE DEF checked, c, body
  <2> QED BY <1>1, <2>2, <2>3, FamilyOutcome DEF SyncActions
<1>5. ASSUME NEW a \in ModifyArgs, NEW s \in Syncs, Modify(a, s) PROVE NothingMalformedSigned'
  <2> DEFINE checked == ModifyChecked(a)
             c == [method |-> "modify", change |-> a, sync |-> s]
             body == [a EXCEPT !.cloid = IF a.oid # "none" THEN "none" ELSE @]
  <2>1. checked => ModifyTaken(body)
    BY ModifyOnWire
  <2>2. checked => Taken([type |-> "modify", body |-> body, sync |-> "none"])
    BY <2>1 DEF Taken
  <2>3. OrderFamily(c, checked, "modify", body) /\ checked \in BOOLEAN /\ c.sync \in Syncs
    BY <1>5 DEF Modify, ModifyChecked
  <2> HIDE DEF checked, c, body
  <2> QED BY <1>1, <2>2, <2>3, FamilyOutcome DEF SyncActions
<1>6. ASSUME NEW ids \in CancelLists, NEW s \in Syncs, NEW type \in {"cancel", "cancelByCloid"},
             BulkCancel(ids, s, type)
      PROVE  NothingMalformedSigned'
  <2> DEFINE checked == /\ Len(ids) \in 1 .. MaxBatch
                        /\ \A i \in 1 .. Len(ids) : ids[i].asset = "ok" /\ ids[i].id = "ok"
             c == [method |-> type, ids |-> ids, sync |-> s]
  <2>1. checked => \A i \in 1 .. Len(ids) : ids[i] = [asset |-> "ok", id |-> "ok"]
    <3>1. \A i \in 1 .. Len(ids) : ids[i] \in Cancels
      OBVIOUS
    <3>2. \A x \in Cancels : x.asset = "ok" /\ x.id = "ok" => x = [asset |-> "ok", id |-> "ok"]
      BY DEF Cancels
    <3> QED BY <3>1, <3>2
  <2>2. checked => Taken([type |-> type, body |-> ids, sync |-> "none"])
    BY <2>1 DEF Taken
  <2>3. OrderFamily(c, checked, type, ids) /\ checked \in BOOLEAN /\ c.sync \in Syncs
    BY <1>6 DEF BulkCancel
  <2> HIDE DEF checked, c
  <2> QED BY <1>1, <2>2, <2>3, FamilyOutcome DEF SyncActions
<1>7. ASSUME NEW asset \in {"ok", "bad"}, NEW s \in Syncs, CancelAll(asset, s)
      PROVE  NothingMalformedSigned'
  <2> DEFINE checked == asset = "ok"
             c == [method |-> "cancelAll", asset |-> asset, sync |-> s]
  <2>1. checked => Taken([type |-> "cancelAll", body |-> asset, sync |-> "none"])
    BY DEF Taken
  <2>2. OrderFamily(c, checked, "cancelAll", asset) /\ checked \in BOOLEAN /\ c.sync \in Syncs
    BY <1>7 DEF CancelAll
  <2> HIDE DEF checked, c
  <2> QED BY <1>1, <2>1, <2>2, FamilyOutcome DEF SyncActions
<1>8. ASSUME NEW a \in TpSlArgs, TpSl(a) PROVE NothingMalformedSigned'
  <2> DEFINE body == [a EXCEPT !.openTp = WireLeg(@), !.openSl = WireLeg(@)]
             e == [type |-> "tpSl", sync |-> "none", body |-> body]
  <2>1. outcome' = IF TpSlChecked(a) THEN e ELSE Refused
    BY <1>8 DEF TpSl, Ends
  <2>2. TpSlChecked(a) => TpSlTaken(body)
    BY TpSlOnWire
  <2>3. e.type = "tpSl" /\ e.sync = "none" /\ e.body = body
    OBVIOUS
  <2> HIDE DEF e, body
  <2>4. TpSlChecked(a) => Taken(e)
    BY <2>2, <2>3 DEF Taken
  <2> QED BY <2>1, <2>4 DEF NothingMalformedSigned, Signed, Refused
<1>9. ASSUME Return PROVE NothingMalformedSigned'
  <2>1. outcome'.type = "none"
    BY <1>9 DEF Return, Nothing
  <2> QED BY <2>1 DEF NothingMalformedSigned, Signed
<1>10. ASSUME UNCHANGED vars PROVE NothingMalformedSigned'
  <2>1. outcome' = outcome
    BY <1>10 DEF vars
  <2> QED BY <2>1 DEF OrderInv, NothingMalformedSigned, Signed
<1>11. NothingMalformedSigned'
  BY <1>2, <1>3, <1>4, <1>5, <1>6, <1>7, <1>8, <1>9, <1>10 DEF Next, Call
<1> QED BY <1>1, <1>11 DEF OrderInv

(* NothingMalformedSigned: as long as callers pass one of the two trigger    *)
(* types, which the code does not check, no call of the order family signs   *)
(* an action that breaks the gateway's rules, whatever its arguments.        *)
THEOREM OnlyWellFormedSigned ==
    ASSUME TriggerTypes \subseteq {"mark", "oracle"}
    PROVE  Spec => []NothingMalformedSigned
<1>1. Init => OrderInv
  BY OrderInvInit
<1>2. OrderInv /\ [Next]_vars => OrderInv'
  BY OrderInvStep
<1>3. OrderInv => NothingMalformedSigned
  BY DEF OrderInv
<1> QED BY <1>1, <1>2, <1>3, PTL DEF Spec

-----------------------------------------------------------------------------
(* Types, protection and completeness: what a call leaves behind, in terms   *)
(* of the call alone.                                                        *)
LegKept(asked, wire) ==
    /\ (asked.price = "pos") = (wire # NoLeg)
    /\ asked.price = "pos" =>
         /\ \A field \in {"price", "limit", "trigger", "type"} : wire[field] = asked[field]
         /\ wire.size = IF asked.size = "none" THEN "zero" ELSE asked.size

LegsKept(orders, body) ==
    \A i \in 1 .. Len(orders), name \in LegNames : LegKept(orders[i][name], body[i][name])

OrdersSound(method, orders) ==
    /\ method \in {"order", "trigger", "bulk"}
    /\ Len(orders) \in 1 .. MaxBatch
    /\ \A i \in 1 .. Len(orders) : RequestSound(orders[i])
    /\ method = "trigger" => orders[1].trigger.px = "pos"
    /\ Len(orders) > 1 => \A i \in 1 .. Len(orders), name \in LegNames :
            orders[i].trigger.px = "none" /\ LegUnset(orders[i][name])

(* A leg that passed its amount checks is on the wire as it was asked for,   *)
(* and going through _put_tpsl_leg twice changes nothing.                    *)
LEMMA WireLegKeeps ==
    ASSUME NEW leg \in Legs
    PROVE  /\ WireLeg(WireLeg(leg)) = WireLeg(leg)
           /\ (IsSet(leg.price) => LegAmounts(WireLeg(leg))) => LegKept(leg, WireLeg(leg))
           /\ IsSet(WireLeg(leg).price) = IsSet(leg.price)
<1>1. CASE ~IsSet(leg.price)
  <2>1. WireLeg(leg) = NoLeg /\ NoLeg.price = "none"
    BY <1>1 DEF WireLeg, NoLeg
  <2>2. ~IsSet(NoLeg.price) /\ leg.price # "pos"
    BY <1>1, <2>1 DEF IsSet
  <2>3. WireLeg(NoLeg) = NoLeg
    BY <2>2 DEF WireLeg
  <2>4. LegKept(leg, NoLeg)
    BY <2>2 DEF LegKept
  <2>5. IsSet(NoLeg.price) = IsSet(leg.price)
    BY <1>1, <2>2 DEF IsSet
  <2> QED BY <2>1, <2>3, <2>4, <2>5
<1>2. CASE IsSet(leg.price)
  <2> DEFINE w == [leg EXCEPT !.size = IF @ = "none" THEN "zero" ELSE @]
  <2>1. WireLeg(leg) = w
    BY <1>2 DEF WireLeg
  <2>2. /\ w.price = leg.price /\ w.limit = leg.limit /\ w.trigger = leg.trigger /\ w.type = leg.type
        /\ w.size = IF leg.size = "none" THEN "zero" ELSE leg.size
        /\ w \in Legs
    BY DEF Legs, Amounts
  <2>3. NoLeg.price = "none" /\ leg.price \in {"pos", "over"}
    BY <1>2 DEF NoLeg, IsSet
  <2> HIDE DEF w
  <2>4. WireLeg(w) = w
    <3>1. WireLeg(w) = [w EXCEPT !.size = IF @ = "none" THEN "zero" ELSE @]
      BY <1>2, <2>2 DEF WireLeg
    <3>2. w.size # "none"
      BY <2>2
    <3> QED BY <2>2, <3>1, <3>2 DEF Legs
  <2>5. w # NoLeg
    BY <2>2, <2>3
  <2>6. LegAmounts(w) => LegKept(leg, w)
    BY <2>2, <2>3, <2>5 DEF LegAmounts, IsAmount, LegKept
  <2> QED BY <1>2, <2>1, <2>2, <2>4, <2>6
<1> QED BY <1>1, <1>2

(* So the legs of an order that passed its checks are kept.                  *)
LEMMA RequestKeepsLegs ==
    ASSUME NEW r \in Requests, RequestChecked(r), NEW name \in LegNames
    PROVE  LegKept(r[name], ToWire(r)[name])
<1>1. r.tp \in Legs /\ r.sl \in Legs
  BY DEF Requests
<1>2. ToWire(r).tp = WireLeg(r.tp) /\ ToWire(r).sl = WireLeg(r.sl)
  BY DEF ToWire
<1>3. /\ IsSet(r.tp.price) => LegAmounts(WireLeg(r.tp))
      /\ IsSet(r.sl.price) => LegAmounts(WireLeg(r.sl))
  BY DEF RequestChecked, LegsSet, LegNames
<1>4. LegKept(r.tp, WireLeg(r.tp)) /\ LegKept(r.sl, WireLeg(r.sl))
  BY <1>1, <1>3, WireLegKeeps
<1> QED BY <1>2, <1>4 DEF LegNames

(* Also when the leg went through order() or trigger_order() first.          *)
LEMMA DictKeepsLegs ==
    ASSUME NEW a \in Requests, NEW r \in Requests, RequestChecked(r),
           r.tp = WireLeg(a.tp), r.sl = WireLeg(a.sl), NEW name \in LegNames
    PROVE  LegKept(a[name], ToWire(r)[name])
<1>1. a.tp \in Legs /\ a.sl \in Legs
  BY DEF Requests
<1>2. ToWire(r).tp = WireLeg(a.tp) /\ ToWire(r).sl = WireLeg(a.sl)
  BY <1>1, WireLegKeeps DEF ToWire
<1>3. /\ IsSet(a.tp.price) => LegAmounts(WireLeg(a.tp))
      /\ IsSet(a.sl.price) => LegAmounts(WireLeg(a.sl))
  BY <1>1, WireLegKeeps DEF RequestChecked, LegsSet, LegNames
<1>4. LegKept(a.tp, WireLeg(a.tp)) /\ LegKept(a.sl, WireLeg(a.sl))
  BY <1>1, <1>3, WireLegKeeps
<1> QED BY <1>2, <1>4 DEF LegNames

(* The checks of a sound leg and of a sound order pass.                      *)
LEMMA SoundLegPasses ==
    ASSUME NEW leg \in Legs, LegSound(leg)
    PROVE  /\ LegChecked(leg)
           /\ leg.price # "bad"
           /\ IsSet(leg.price) => LegAmounts(WireLeg(leg))
           /\ LegUnset(leg) => ~IsSet(leg.price)
<1>1. CASE LegUnset(leg)
  BY <1>1 DEF LegUnset, LegChecked, IsSet
<1>2. CASE ~LegUnset(leg)
  <2>1. leg.price = "pos" /\ leg.limit = "pos" /\ leg.size \in {"none", "zero", "pos"}
        /\ leg.type \in {"limit", "market"}
    BY <1>2 DEF LegSound
  <2>2. LegChecked(leg)
    BY <2>1 DEF LegChecked, IsSet
  <2> DEFINE w == WireLeg(leg)
  <2>3. w.price = "pos" /\ w.limit = "pos" /\ w.size \in {"zero", "pos"}
    BY <2>1 DEF WireLeg, IsSet, Legs
  <2>4. LegAmounts(w)
    BY <2>3 DEF LegAmounts, IsAmount
  <2> QED BY <1>2, <2>1, <2>2, <2>4
<1> QED BY <1>1, <1>2

(* An order that follows the rules passes its checks, directly or as the     *)
(* dict that order() or trigger_order() makes of it.                         *)
LEMMA SoundRequestPasses ==
    ASSUME NEW a \in Requests, RequestSound(a), NEW r \in Requests,
           r.asset = a.asset, r.buy = a.buy, r.size = a.size, r.price = a.price,
           r.reduce = a.reduce, r.cloid = a.cloid, r.tif \in Tifs \cup {"none"},
           r.trigger = a.trigger,
           \A name \in LegNames : r[name] = a[name] \/ r[name] = WireLeg(a[name])
    PROVE  RequestChecked(r) /\ \A name \in LegNames : IsSet(r[name].price) = IsSet(a[name].price)
<1>1. a.tp \in Legs /\ a.sl \in Legs /\ r.tp \in Legs /\ r.sl \in Legs
  BY DEF Requests
<1>2. LegSound(a.tp) /\ LegSound(a.sl)
  BY DEF RequestSound, LegNames
<1>3. ASSUME NEW x \in Legs, NEW y \in Legs, LegSound(x), y = x \/ y = WireLeg(x)
      PROVE  /\ IsSet(y.price) = IsSet(x.price) /\ y.price # "bad"
             /\ IsSet(y.price) => LegChecked(y) /\ LegAmounts(WireLeg(y))
  <2>1. /\ IsSet(WireLeg(x).price) = IsSet(x.price) /\ WireLeg(WireLeg(x)) = WireLeg(x)
        /\ LegChecked(x) /\ x.price # "bad"
        /\ IsSet(x.price) => LegAmounts(WireLeg(x))
    BY <1>3, WireLegKeeps, SoundLegPasses
  <2>2. IsSet(x.price) => /\ WireLeg(x).price = x.price /\ WireLeg(x).limit = x.limit
                          /\ WireLeg(x).type = x.type
    BY DEF WireLeg, Legs
  <2>3. IsSet(x.price) => LegChecked(WireLeg(x)) /\ WireLeg(x).price # "bad"
    BY <2>1, <2>2 DEF LegChecked
  <2>4. ~IsSet(x.price) => WireLeg(x).price # "bad"
    BY DEF WireLeg, NoLeg
  <2> QED BY <1>3, <2>1, <2>3, <2>4
<1>4. \A name \in LegNames :
         /\ IsSet(r[name].price) = IsSet(a[name].price) /\ r[name].price # "bad"
         /\ IsSet(r[name].price) => LegChecked(r[name]) /\ LegAmounts(WireLeg(r[name]))
  BY <1>1, <1>2, <1>3 DEF LegNames
<1>5. r.reduce => LegsSet(r) = {}
  BY <1>1, <1>2, <1>4, SoundLegPasses DEF RequestSound, LegsSet, LegNames
<1>6. \/ r.trigger.px # "none" /\ r.trigger.side \in LegNames /\ IsPositive(r.trigger.px)
      \/ r.trigger.px = "none" /\ (r.market \/ r.tif \in Tifs \cup {"none"})
  BY DEF RequestSound, IsPositive
<1>7. /\ r.buy # "bad" /\ r.asset = "ok" /\ r.cloid # "bad" /\ IsPositive(r.size)
      /\ IsPositive(r.price) /\ a.reduce \in BOOLEAN
  BY DEF RequestSound, IsPositive, Requests
<1>8. RequestChecked(r)
  BY <1>4, <1>5, <1>6, <1>7 DEF RequestChecked, LegsSet
<1> QED BY <1>4, <1>8

(* On its own it makes a batch that passes.                                  *)
LEMMA OneOrderPasses ==
    ASSUME NEW r, RequestChecked(r) PROVE BatchChecked(<<r>>)
BY SizesAssumption DEF BatchChecked

(* What every method of the order family leaves behind, once more.           *)
LEMMA FamilyStep ==
    ASSUME NEW c, NEW checked \in BOOLEAN, NEW type \in SyncActions, NEW body, sync \in Syncs,
           c.sync \in Syncs, OrderFamily(c, checked, type, body),
           c.method \in {"order", "trigger", "bulk"} \cup SyncActions,
           checked /\ type \in {"order", "cancel", "cancelByCloid"} => Len(body) \in 1 .. MaxBatch,
           checked /\ type = "order" => LegsKept(c.orders, body),
           OrdersSound(c.method, c.orders) => checked
    PROVE  TypeOK' /\ ProtectionKept' /\ SoundOrdersSigned'
<1> DEFINE flag == IF c.sync = "none" THEN sync ELSE c.sync
           e == [type |-> type, body |-> body, sync |-> flag]
<1>1. call' = c /\ sync' = sync /\ outcome' = IF checked /\ flag # "bad" THEN e ELSE Refused
  BY DEF OrderFamily, Ends
<1>2. e.type = type /\ e.body = body /\ Refused.type = "refused" /\ NoCall.method = "none"
      /\ Nothing.type = "none"
  BY DEF Refused, NoCall, Nothing
<1>3. "none" \notin SyncActions /\ "refused" \notin SyncActions
  BY DEF SyncActions
<1> HIDE DEF e
<1>4. call' # NoCall /\ outcome' # Nothing
  BY <1>1, <1>2, <1>3
<1>5. TypeOK'
  BY <1>1, <1>2, <1>3, <1>4 DEF TypeOK
<1>6. ProtectionKept'
  BY <1>1, <1>2 DEF ProtectionKept, LegsKept, LegKept
<1>7. ASSUME CallSound' PROVE Signed'
  <2>1. OrdersSound(c.method, c.orders) /\ flag # "bad"
    BY <1>1, <1>7 DEF CallSound, OrdersSound
  <2> QED BY <1>1, <1>2, <1>3, <2>1 DEF Signed
<1> QED BY <1>5, <1>6, <1>7 DEF SoundOrdersSigned

OutcomeInv == TypeOK /\ ProtectionKept /\ SoundOrdersSigned

(* The three properties hold before the first call.                          *)
LEMMA OutcomeInvInit == Init => OutcomeInv
<1>1. ASSUME Init PROVE OutcomeInv
  <2>1. sync \in Syncs /\ call = NoCall /\ outcome = Nothing /\ call.method = "none"
        /\ outcome.type = "none"
    BY <1>1 DEF Init, NoCall, Nothing
  <2> QED BY <2>1 DEF OutcomeInv, TypeOK, ProtectionKept, SoundOrdersSigned, CallSound
<1> QED BY <1>1

(* Every method keeps them.                                                  *)
LEMMA OutcomeInvStep == ASSUME OutcomeInv, [Next]_vars PROVE OutcomeInv'
<1> USE ArgsAssumption
<1>1. sync \in Syncs
  BY DEF OutcomeInv, TypeOK
<1> DEFINE Goal == TypeOK /\ ProtectionKept /\ SoundOrdersSigned
<1>2. ASSUME NEW a \in OrderArgs, NEW s \in Syncs, Order(a, s) PROVE Goal'
  <2> DEFINE checked == /\ a.price # "none" /\ a.cloid # "bad"
                        /\ LegChecked(a.tp) /\ LegChecked(a.sl)
                        /\ BatchChecked(<<OrderRequest(a)>>)
             c == [method |-> "order", orders |-> <<a>>, sync |-> s]
             r == OrderRequest(a)
             body == <<ToWire(r)>>
  <2>1. r \in Requests /\ a \in Requests
    BY DictsTyped
  <2>2. r = [a EXCEPT !.size = AsText(@), !.tif = IF a.market THEN "none" ELSE @,
                      !.tp = WireLeg(@), !.sl = WireLeg(@)]
    BY DEF OrderRequest
  <2>3. /\ r.asset = a.asset /\ r.buy = a.buy /\ r.size = AsText(a.size) /\ r.price = a.price
        /\ r.reduce = a.reduce /\ r.cloid = a.cloid /\ r.trigger = a.trigger
        /\ r.tp = WireLeg(a.tp) /\ r.sl = WireLeg(a.sl)
        /\ r.tif = "none" \/ r.tif = a.tif
    BY <2>1, <2>2 DEF Requests
  <2> HIDE DEF r
  <2>4. checked => LegsKept(c.orders, body)
    <3>1. checked => RequestChecked(r)
      BY DEF BatchChecked, r
    <3>2. checked => \A name \in LegNames : LegKept(a[name], ToWire(r)[name])
      BY <2>1, <2>3, <3>1, DictKeepsLegs
    <3> QED BY <3>2 DEF LegsKept
  <2>5. OrdersSound(c.method, c.orders) => checked
    <3>1. ASSUME OrdersSound("order", <<a>>) PROVE checked
      <4>1. RequestSound(a)
        BY <3>1 DEF OrdersSound
      <4>2. r.size = a.size /\ r.tif \in Tifs \cup {"none"}
        BY <2>3, <4>1 DEF RequestSound, AsText
      <4>3. RequestChecked(r)
        <5>1. \A name \in LegNames : r[name] = a[name] \/ r[name] = WireLeg(a[name])
          BY <2>3 DEF LegNames
        <5> QED BY <2>1, <2>3, <4>1, <4>2, <5>1, SoundRequestPasses
      <4>4. BatchChecked(<<OrderRequest(a)>>)
        BY <4>3, OneOrderPasses DEF r
      <4>5. LegChecked(a.tp) /\ LegChecked(a.sl)
        BY <2>1, <4>1, SoundLegPasses DEF RequestSound, LegNames, Requests
      <4> QED BY <4>1, <4>4, <4>5 DEF RequestSound
    <3> QED BY <3>1
  <2>6. checked => Len(body) \in 1 .. MaxBatch
    BY SizesAssumption
  <2>7. OrderFamily(c, checked, "order", body) /\ checked \in BOOLEAN /\ c.sync \in Syncs
    BY <1>2 DEF Order, r
  <2>8. c.method = "order"
    OBVIOUS
  <2> HIDE DEF checked, c, body
  <2> QED BY <1>1, <2>4, <2>5, <2>6, <2>7, <2>8, FamilyStep DEF SyncActions
<1>3. ASSUME NEW a \in TriggerArgs, NEW s \in Syncs, TriggerOrder(a, s) PROVE Goal'
  <2> DEFINE checked == /\ a.cloid # "bad" /\ LegChecked(a.tp) /\ LegChecked(a.sl)
                        /\ BatchChecked(<<TriggerRequest(a)>>)
             c == [method |-> "trigger", orders |-> <<a>>, sync |-> s]
             r == TriggerRequest(a)
             body == <<ToWire(r)>>
  <2>1. r \in Requests /\ a \in Requests
    BY DictsTyped
  <2>2. r = [a EXCEPT !.size = AsText(@), !.price = AsText(@), !.trigger.px = AsText(@),
                      !.market = FALSE, !.tif = "none", !.tp = WireLeg(@), !.sl = WireLeg(@)]
    BY DEF TriggerRequest
  <2>3. /\ r.asset = a.asset /\ r.buy = a.buy /\ r.size = AsText(a.size)
        /\ r.price = AsText(a.price) /\ r.reduce = a.reduce /\ r.cloid = a.cloid
        /\ r.trigger = [a.trigger EXCEPT !.px = AsText(@)] /\ r.tif = "none"
        /\ r.tp = WireLeg(a.tp) /\ r.sl = WireLeg(a.sl)
    BY <2>1, <2>2 DEF Requests
  <2> HIDE DEF r
  <2>4. checked => LegsKept(c.orders, body)
    <3>1. checked => RequestChecked(r)
      BY DEF BatchChecked, r
    <3>2. checked => \A name \in LegNames : LegKept(a[name], ToWire(r)[name])
      BY <2>1, <2>3, <3>1, DictKeepsLegs
    <3> QED BY <3>2 DEF LegsKept
  <2>5. OrdersSound(c.method, c.orders) => checked
    <3>1. ASSUME OrdersSound("trigger", <<a>>) PROVE checked
      <4>1. RequestSound(a) /\ a.trigger.px = "pos"
        BY <3>1 DEF OrdersSound
      <4>2. r.size = a.size /\ r.price = a.price
        BY <2>3, <4>1 DEF RequestSound, AsText
      <4>3. r.trigger = a.trigger
        <5>1. AsText(a.trigger.px) = a.trigger.px /\ a.trigger \in Triggers
          BY <2>1, <4>1 DEF AsText, Requests
        <5> QED BY <2>3, <5>1 DEF Triggers
      <4>4. RequestChecked(r)
        <5>1. \A name \in LegNames : r[name] = a[name] \/ r[name] = WireLeg(a[name])
          BY <2>3 DEF LegNames
        <5> QED BY <2>1, <2>3, <4>1, <4>2, <4>3, <5>1, SoundRequestPasses
      <4>5. BatchChecked(<<TriggerRequest(a)>>)
        BY <4>4, OneOrderPasses DEF r
      <4>6. LegChecked(a.tp) /\ LegChecked(a.sl)
        BY <2>1, <4>1, SoundLegPasses DEF RequestSound, LegNames, Requests
      <4> QED BY <4>1, <4>5, <4>6 DEF RequestSound
    <3> QED BY <3>1
  <2>6. checked => Len(body) \in 1 .. MaxBatch
    BY SizesAssumption
  <2>7. OrderFamily(c, checked, "order", body) /\ checked \in BOOLEAN /\ c.sync \in Syncs
    BY <1>3 DEF TriggerOrder, r
  <2>8. c.method = "trigger"
    OBVIOUS
  <2> HIDE DEF checked, c, body
  <2> QED BY <1>1, <2>4, <2>5, <2>6, <2>7, <2>8, FamilyStep DEF SyncActions
<1>4. ASSUME NEW rs \in Batches, NEW s \in Syncs, BulkOrders(rs, s) PROVE Goal'
  <2> DEFINE checked == BatchChecked(rs)
             c == [method |-> "bulk", orders |-> rs, sync |-> s]
             body == [i \in 1 .. Len(rs) |-> ToWire(rs[i])]
  <2>1. Len(rs) \in Nat /\ Len(body) = Len(rs) /\ \A i \in 1 .. Len(rs) : rs[i] \in Requests
    OBVIOUS
  <2>2. checked => LegsKept(rs, body)
    BY <2>1, RequestKeepsLegs DEF LegsKept, BatchChecked
  <2>3. OrdersSound("bulk", rs) => checked
    <3>1. ASSUME OrdersSound("bulk", rs) PROVE checked
      <4>1. ASSUME NEW i \in 1 .. Len(rs) PROVE RequestChecked(rs[i])
        <5>1. rs[i] \in Requests /\ RequestSound(rs[i])
          BY <2>1, <3>1, <4>1 DEF OrdersSound
        <5> QED BY <5>1, SoundRequestPasses DEF RequestSound
      <4>2. ASSUME Len(rs) > 1, NEW i \in 1 .. Len(rs)
            PROVE  rs[i].trigger.px = "none" /\ LegsSet(rs[i]) = {}
        <5>1. rs[i].trigger.px = "none" /\ \A name \in LegNames : LegUnset(rs[i][name])
          BY <3>1, <4>2 DEF OrdersSound, LegNames
        <5> QED BY <5>1 DEF LegsSet, LegUnset, IsSet
      <4> QED BY <3>1, <4>1, <4>2 DEF BatchChecked, OrdersSound
    <3> QED BY <3>1
  <2>4. checked => Len(body) \in 1 .. MaxBatch
    BY <2>1 DEF BatchChecked
  <2>5. OrderFamily(c, checked, "order", body) /\ checked \in BOOLEAN /\ c.sync \in Syncs
    BY <1>4 DEF BulkOrders, BatchChecked
  <2>6. c.method = "bulk" /\ c.orders = rs
    OBVIOUS
  <2> HIDE DEF checked, c, body
  <2> QED BY <1>1, <2>2, <2>3, <2>4, <2>5, <2>6, FamilyStep DEF SyncActions
<1>5. ASSUME NEW c, NEW checked \in BOOLEAN, NEW type \in SyncActions, NEW body,
             OrderFamily(c, checked, type, body), c.sync \in Syncs, c.method = type,
             type # "order", checked /\ type # "modify" /\ type # "cancelAll" => Len(body) \in 1 .. MaxBatch
      PROVE  Goal'
  <2>1. ~OrdersSound(c.method, c.orders)
    BY <1>5 DEF OrdersSound, SyncActions
  <2> QED BY <1>1, <1>5, <2>1, FamilyStep DEF SyncActions
<1>6. ASSUME NEW a \in ModifyArgs, NEW s \in Syncs, Modify(a, s) PROVE Goal'
  <2> DEFINE c == [method |-> "modify", change |-> a, sync |-> s]
             body == [a EXCEPT !.cloid = IF a.oid # "none" THEN "none" ELSE @]
  <2>1. OrderFamily(c, ModifyChecked(a), "modify", body) /\ ModifyChecked(a) \in BOOLEAN
        /\ c.sync \in Syncs /\ c.method = "modify"
    BY <1>6 DEF Modify, ModifyChecked
  <2> HIDE DEF c, body, Goal
  <2> QED BY <1>5, <2>1 DEF SyncActions
<1>7. ASSUME NEW ids \in CancelLists, NEW s \in Syncs, NEW type \in {"cancel", "cancelByCloid"},
             BulkCancel(ids, s, type)
      PROVE  Goal'
  <2> DEFINE checked == /\ Len(ids) \in 1 .. MaxBatch
                        /\ \A i \in 1 .. Len(ids) : ids[i].asset = "ok" /\ ids[i].id = "ok"
             c == [method |-> type, ids |-> ids, sync |-> s]
  <2>1. OrderFamily(c, checked, type, ids) /\ checked \in BOOLEAN /\ c.sync \in Syncs
        /\ c.method = type /\ (checked => Len(ids) \in 1 .. MaxBatch)
    BY <1>7 DEF BulkCancel
  <2> HIDE DEF c, checked, Goal
  <2> QED BY <1>5, <2>1 DEF SyncActions
<1>8. ASSUME NEW asset \in {"ok", "bad"}, NEW s \in Syncs, CancelAll(asset, s) PROVE Goal'
  <2> DEFINE checked == asset = "ok"
             c == [method |-> "cancelAll", asset |-> asset, sync |-> s]
  <2>1. OrderFamily(c, checked, "cancelAll", asset) /\ checked \in BOOLEAN /\ c.sync \in Syncs
        /\ c.method = "cancelAll"
    BY <1>8 DEF CancelAll
  <2> HIDE DEF c, checked, Goal
  <2> QED BY <1>5, <2>1 DEF SyncActions
<1>9. ASSUME NEW a \in TpSlArgs, TpSl(a) PROVE Goal'
  <2> DEFINE body == [a EXCEPT !.openTp = WireLeg(@), !.openSl = WireLeg(@)]
             e == [type |-> "tpSl", sync |-> "none", body |-> body]
             c == [method |-> "tpSl", legs |-> a]
  <2>1. outcome' = (IF TpSlChecked(a) THEN e ELSE Refused) /\ call' = c /\ sync' = sync
    BY <1>9 DEF TpSl, Ends
  <2>2. /\ e.type = "tpSl" /\ c.method = "tpSl" /\ Refused.type = "refused"
        /\ NoCall.method = "none" /\ Nothing.type = "none"
    BY DEF Refused, NoCall, Nothing
  <2> HIDE DEF e, body, c
  <2>3. call' # NoCall /\ outcome' # Nothing /\ outcome'.type \in {"refused", "tpSl"}
    BY <2>1, <2>2
  <2>4. TypeOK'
    BY <1>1, <2>1, <2>2, <2>3 DEF TypeOK
  <2>5. ProtectionKept' /\ SoundOrdersSigned'
    BY <2>1, <2>2, <2>3 DEF ProtectionKept, SoundOrdersSigned, CallSound
  <2> QED BY <2>4, <2>5
<1>10. ASSUME Return PROVE Goal'
  <2>1. /\ outcome' = Nothing /\ call' = NoCall /\ sync' = sync
        /\ NoCall.method = "none" /\ Nothing.type = "none"
    BY <1>10 DEF Return, Nothing, NoCall
  <2> QED BY <1>1, <2>1 DEF TypeOK, ProtectionKept, SoundOrdersSigned, CallSound
<1>11. ASSUME UNCHANGED vars PROVE Goal'
  <2>1. outcome' = outcome /\ call' = call /\ sync' = sync
    BY <1>11 DEF vars
  <2> QED BY <2>1 DEF OutcomeInv, TypeOK, ProtectionKept, SoundOrdersSigned, CallSound, Signed
<1>12. Goal'
  BY <1>2, <1>3, <1>4, <1>6, <1>7, <1>8, <1>9, <1>10, <1>11 DEF Next, Call
<1> QED BY <1>12 DEF OutcomeInv

(* The variables keep their types, no call is left without its outcome, and  *)
(* no batch that is signed is empty or longer than the limit.                *)
THEOREM OrderTypes == Spec => []TypeOK
<1>1. OutcomeInv => TypeOK
  BY DEF OutcomeInv
<1> QED BY <1>1, OutcomeInvInit, OutcomeInvStep, PTL DEF Spec

(* ProtectionKept: whatever the arguments, a leg that was set above zero is  *)
(* on the order it was asked for, unchanged, and no order gets another one.  *)
THEOREM LegsProtected == Spec => []ProtectionKept
<1>1. OutcomeInv => ProtectionKept
  BY DEF OutcomeInv
<1> QED BY <1>1, OutcomeInvInit, OutcomeInvStep, PTL DEF Spec

(* SoundOrdersSigned: the checks refuse no order that follows the gateway's  *)
(* rules, whatever its method, its legs and its flag.                        *)
THEOREM SoundOrdersPass == Spec => []SoundOrdersSigned
<1>1. OutcomeInv => SoundOrdersSigned
  BY DEF OutcomeInv
<1> QED BY <1>1, OutcomeInvInit, OutcomeInvStep, PTL DEF Spec
=============================================================================
