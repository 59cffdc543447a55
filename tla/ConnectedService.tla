-------------------------- MODULE ConnectedService --------------------------
(* What the registry of upside/websocket_manager.py promises through a       *)
(* connection that comes and goes.  A callback wants its topic until it is   *)
(* unsubscribed, or until the client hears that the server has withdrawn the *)
(* topic.  A topic starts flowing only because somebody wants it, and stops  *)
(* only because nobody does, because it was withdrawn, or together with all  *)
(* others when the connection is lost.  Locks, threads, the replay and the   *)
(* errors of a send are not seen.                                            *)
CONSTANTS Ids, Topics

VARIABLES
    wanted,   \* who wants what: [id, topic] of every callback
    issued,   \* ids handed out, each to one callback for ever
    offered,  \* topics the server has
    up,       \* whether there is a connection
    flowing   \* topics the server streams on it

vars == <<wanted, issued, offered, up, flowing>>

Init ==
    /\ wanted = {} /\ issued = {} /\ flowing = {}
    /\ offered = Topics
    /\ up = FALSE

Wanted(topic) == \E w \in wanted : w.topic = topic

Subscribe(id, topic) ==
    /\ id \notin issued
    /\ issued' = issued \cup {id}
    /\ wanted' = wanted \cup {[id |-> id, topic |-> topic]}
    /\ UNCHANGED <<offered, up, flowing>>

Unsubscribe(id) ==
    /\ id \in issued
    /\ wanted' = {w \in wanted : w.id # id}
    /\ UNCHANGED <<issued, offered, up, flowing>>

Withdraw(topic) ==
    /\ topic \in offered
    /\ offered' = offered \ {topic}
    /\ flowing' = flowing \ {topic}
    /\ UNCHANGED <<wanted, issued, up>>

Forget(topic) ==
    /\ topic \notin offered
    /\ wanted' = {w \in wanted : w.topic # topic}
    /\ UNCHANGED <<issued, offered, up, flowing>>

Connect ==
    /\ ~up /\ up' = TRUE
    /\ UNCHANGED <<wanted, issued, offered, flowing>>

Lose ==
    /\ up /\ up' = FALSE
    /\ flowing' = {}
    /\ UNCHANGED <<wanted, issued, offered>>

Start(topic) ==
    /\ up /\ topic \in offered /\ Wanted(topic)
    /\ flowing' = flowing \cup {topic}
    /\ UNCHANGED <<wanted, issued, offered, up>>

End(topic) ==
    /\ ~Wanted(topic)
    /\ flowing' = flowing \ {topic}
    /\ UNCHANGED <<wanted, issued, offered, up>>

Next ==
    \/ \E id \in Ids : Unsubscribe(id) \/ \E topic \in Topics : Subscribe(id, topic)
    \/ \E topic \in Topics : Withdraw(topic) \/ Forget(topic) \/ Start(topic) \/ End(topic)
    \/ Connect \/ Lose

Spec == Init /\ [][Next]_vars
=============================================================================
