----------------------------- MODULE AtMostOnce -----------------------------
(* What a signed write promises its caller (the docstrings of upside/api.py  *)
(* and of OutcomeUnknownError): the action takes effect at most once; a      *)
(* success means it took effect, a failure means it did not and never will,  *)
(* and an unknown outcome means the caller has to look.                      *)
EXTENDS Naturals

CONSTANT Calls

VARIABLES
    effects,  \* per call, how often its action took effect
    told      \* per call, what the caller has been told

Told == {"nothing", "success", "failure", "unknown"}

Init ==
    /\ effects = [p \in Calls |-> 0]
    /\ told = [p \in Calls |-> "nothing"]

TakeEffect(p) ==
    /\ effects[p] = 0 /\ told[p] \in {"nothing", "unknown"}
    /\ effects' = [effects EXCEPT ![p] = 1]
    /\ UNCHANGED told

Tell(p, outcome) ==
    /\ told[p] = "nothing"
    /\ outcome = "success" => effects[p] = 1
    /\ outcome = "failure" => effects[p] = 0
    /\ told' = [told EXCEPT ![p] = outcome]
    /\ UNCHANGED effects

Next == \E p \in Calls : TakeEffect(p) \/ \E outcome \in Told \ {"nothing"} : Tell(p, outcome)

Spec == Init /\ [][Next]_<<effects, told>>
=============================================================================
