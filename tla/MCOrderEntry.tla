---------------------------- MODULE MCOrderEntry ----------------------------
(* The arguments TLC tries.  A part of a request is varied while the rest is *)
(* sound; the two legs of an order and the orders of a batch vary together.  *)
EXTENDS OrderEntry

Leg(price, limit, size, trigger, type) ==
    [price |-> price, limit |-> limit, size |-> size, trigger |-> trigger, type |-> type]
NoTrigger == [px |-> "none", market |-> TRUE, side |-> "none"]
FullLeg == Leg("pos", "pos", "none", "mark", "limit")
ZeroLeg == Leg("zero", "zero", "zero", "mark", "none")

Plain == [asset |-> "ok", buy |-> "B", size |-> "pos", price |-> "pos", reduce |-> FALSE,
          market |-> FALSE, tif |-> "Gtc", cloid |-> "none", trigger |-> NoTrigger,
          tp |-> NoLeg, sl |-> NoLeg]

Prices == {"none", "bad", "neg", "zero", "pos", "over"}
AnyLeg ==
    {Leg(price, limit, size, trigger, type) :
        price \in Prices, limit \in Prices, size \in Prices, trigger \in TriggerTypes,
        type \in {"none", "limit", "market", "bad"}}
SomeLegs == {NoLeg, ZeroLeg, FullLeg, Leg("neg", "none", "none", "mark", "none"),
             Leg("pos", "zero", "pos", "oracle", "market"), Leg("zero", "pos", "pos", "mark", "limit")}

(* Every field but the legs, a few wrong at a time.                          *)
Fields ==
    {[Plain EXCEPT !.asset = x, !.buy = y, !.cloid = z] :
        x \in {"ok", "bad"}, y \in {"B", "S", "bad"}, z \in {"none", "ok", "bad"}}
    \cup {[Plain EXCEPT !.size = x, !.price = y] : x, y \in Prices}

OrdersTried ==
    Fields
    \cup {[Plain EXCEPT !.market = m, !.tif = x, !.reduce = b] :
            m, b \in BOOLEAN, x \in {"Gtc", "Ioc", "Alo", "Fok", "bad"}}
    \cup {[Plain EXCEPT !.tp = x] : x \in AnyLeg}
    \cup {[Plain EXCEPT !.tp = x, !.sl = y, !.reduce = b, !.market = m] :
            x, y \in SomeLegs, b, m \in BOOLEAN}

Trigger(px, side) == [px |-> px, market |-> FALSE, side |-> side]
TriggersTried ==
    {[r EXCEPT !.trigger = Trigger("pos", "tp")] : r \in Fields}
    \cup {[Plain EXCEPT !.trigger = [px |-> x, market |-> m, side |-> y], !.tp = leg, !.reduce = b] :
            x \in Prices, m, b \in BOOLEAN, y \in {"none", "bad", "tp", "sl"}, leg \in {NoLeg, FullLeg}}
    \cup {[Plain EXCEPT !.trigger = Trigger("pos", "sl"), !.sl = x] : x \in AnyLeg}

(* Dicts, whose keys may be left out or be combined as no method would.      *)
Dicts ==
    {[Plain EXCEPT !.tif = x, !.market = m, !.tp = y, !.sl = z, !.trigger = t, !.reduce = b] :
        x \in {"none", "Alo", "bad"}, m \in BOOLEAN, y, z \in SomeLegs, b \in BOOLEAN,
        t \in {NoTrigger, Trigger("pos", "sl"), Trigger("pos", "none"), Trigger("zero", "tp")}}
BatchedDicts ==
    {Plain, [Plain EXCEPT !.tp = ZeroLeg], [Plain EXCEPT !.sl = FullLeg],
     [Plain EXCEPT !.trigger = Trigger("pos", "sl")], [Plain EXCEPT !.price = "zero"],
     [Plain EXCEPT !.tif = "none"], [Plain EXCEPT !.tp = Leg("bad", "pos", "none", "mark", "limit")]}
BatchesTried ==
    {<<>>} \cup {<<r>> : r \in Dicts} \cup {<<r, s>> : r, s \in BatchedDicts}
    \cup {<<r, Plain, Plain>> : r \in BatchedDicts}

TpSlPlain == [asset |-> "ok", position |-> TRUE, side |-> "none", reduce |-> FALSE,
              tp |-> ZeroLeg, sl |-> ZeroLeg, openTp |-> NoLeg, openSl |-> NoLeg]
WholeLeg == Leg("pos", "pos", "zero", "mark", "limit")
TpSlTried ==
    {[TpSlPlain EXCEPT !.tp = x, !.sl = y, !.asset = z] :
        x \in AnyLeg, y \in {ZeroLeg, WholeLeg}, z \in {"ok", "bad"}}
    \cup {[TpSlPlain EXCEPT !.position = FALSE, !.side = s, !.tp = x, !.sl = y, !.openSl = z] :
            s \in {"none", "B", "S", "bad"}, x, y \in {ZeroLeg, WholeLeg}, z \in SomeLegs}
    \cup {[TpSlPlain EXCEPT !.position = b, !.side = "S", !.tp = WholeLeg, !.openTp = x] :
            b \in BOOLEAN, x \in AnyLeg}

ModifyPlain == [asset |-> "ok", oid |-> "ok", cloid |-> "none", price |-> "none", size |-> "none",
                tif |-> "none", newCloid |-> "none"]
ModifiesTried ==
    {[ModifyPlain EXCEPT !.oid = x, !.cloid = y, !.newCloid = z] : x, y, z \in Ids}
    \cup {[ModifyPlain EXCEPT !.asset = a, !.price = x, !.size = y, !.tif = t] :
            a \in {"ok", "bad"}, x, y \in Prices, t \in {"none", "Gtc", "Ioc", "Alo", "Fok", "bad"}}

CancelsTried == UNION {[1 .. n -> {c \in Cancels : c.id # "none"}] : n \in 0 .. 3}
=============================================================================
