------------------------- MODULE SubscriptionService -------------------------
(* What Info.subscribe and Info.unsubscribe of upside/info.py promise: a     *)
(* callback wants its topic from the call that subscribed it until the call  *)
(* that unsubscribes it, or until the server withdraws the topic; no other   *)
(* call changes what it wants.  What flows is what is wanted and offered, so *)
(* two callbacks of one topic share it and neither can end it for the other. *)
(* Threads, the registry, spellings, the tick-size cache and reconnects are  *)
(* not seen.                                                                 *)
CONSTANTS Ids, Topics

VARIABLES
    wanted,   \* who wants what: [id, topic] of every callback
    issued,   \* ids handed out, each to one callback for ever
    offered,  \* topics the server has
    flowing   \* topics the server streams

Init ==
    /\ wanted = {} /\ issued = {} /\ flowing = {}
    /\ offered \subseteq Topics

Serve == flowing' = {w.topic : w \in wanted'} \cap offered'

Subscribe(id) ==
    /\ id \notin issued
    /\ issued' = issued \cup {id}
    /\ \E topic \in Topics : wanted' = wanted \cup {[id |-> id, topic |-> topic]}
    /\ Serve
    /\ UNCHANGED offered

Unsubscribe(id) ==
    /\ id \in issued
    /\ wanted' = {w \in wanted : w.id # id}
    /\ Serve
    /\ UNCHANGED <<issued, offered>>

Withdraw(topic) ==
    /\ topic \in offered
    /\ offered' = offered \ {topic}
    /\ wanted' = {w \in wanted : w.topic # topic}
    /\ Serve
    /\ UNCHANGED issued

Next ==
    \/ \E id \in Ids : Subscribe(id) \/ Unsubscribe(id)
    \/ \E topic \in offered \ offered' : Withdraw(topic)

Spec == Init /\ [][Next]_<<wanted, issued, offered, flowing>>
=============================================================================
