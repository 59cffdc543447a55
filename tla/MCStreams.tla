----------------------------- MODULE MCStreams -----------------------------
(* Small instances of Streams for TLC.                                       *)
EXTENDS Streams, TLC

(* Two spellings of one address, and another address.                        *)
Spellings == ("0xAB" :> "0xab") @@ ("0xab" :> "0xab") @@ ("0xcd" :> "0xcd")

TickSizes == ("1" :> 10) @@ ("2" :> 10)
DigitMerge == ("1" :> {10, 100}) @@ ("2" :> {10})

Num(n) == [value |-> n, text |-> FALSE]
Text(n) == [value |-> n, text |-> TRUE]
Book(asset, group) == [type |-> "l2Book", asset |-> asset, group |-> group]
Account(user, deployer) ==
    [type |-> "userAccount", user |-> user, marketDeployerId |-> deployer]

(* Every type, the spellings of each field, the raw book under all its       *)
(* names, a contract that comes and goes, and subscriptions that are refused.*)
SubscriptionsTried ==
    {[type |-> "l2Book", asset |-> Num("1")],
     Book(Text("1"), Num(10)), Book(Num("1"), Text(100)), Book(Text("2"), Num(10)),
     [type |-> "trades"],
     [type |-> "trades", asset |-> Num("1")],
     [type |-> "ticker", asset |-> Text("1")],
     [type |-> "candle", asset |-> Num("1"), interval |-> 1],
     [type |-> "candle", asset |-> Text("1"), interval |-> 7],
     [type |-> "userFills", user |-> "0xAB"],
     Account("0xAB", Num(1)), Account("0xab", Text(2)), Account("0xcd", Num(1))}

(* Books are mixed with books and other streams with each other: only books  *)
(* go through the cache.                                                     *)
AllBooks == \A n \in DOMAIN asked : asked[n].type = "l2Book"
NoBooks == \A n \in DOMAIN asked : asked[n].type # "l2Book"
BooksApart == AllBooks \/ (NoBooks /\ \A t \in Threads : call[t] = NoCall)

ThreadSymmetry == Permutations(Threads)
=============================================================================
