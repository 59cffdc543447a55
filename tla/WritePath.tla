----------------------------- MODULE WritePath -----------------------------
(* A POST from the call of a client method to its outcome: NonceManager.next *)
(* (upside/utils/signing.py), Exchange._post_action (upside/exchange.py) and *)
(* API.post with its retry rules (upside/api.py).                            *)
(*                                                                           *)
(* Calls run concurrently, on any number of client objects.  A copy <<p, k>> *)
(* is what attempt k of call p puts on the wire.  External, modelled from    *)
(* how the code uses them: requests (how an attempt can fail), the network   *)
(* and the gateway, which refuses a nonce it has accepted before.            *)
EXTENDS Integers, FiniteSets

CONSTANTS
    Writes,      \* calls that POST to /exchange, all signed with one key
    Reads,       \* calls that POST to /info
    Managers,    \* NonceManager objects
    ManagerOf,   \* the NonceManager each write's Exchange uses
    MaxRetries,  \* max_retries
    MaxClock,    \* bound on the wall clock, in milliseconds
    Redirects    \* whether a server may answer a POST with a redirect

Calls == Writes \cup Reads

ASSUME CallsAssumption == Writes \cap Reads = {}
ASSUME ManagersAssumption == ManagerOf \in [Writes -> Managers]
ASSUME BoundsAssumption ==
    MaxRetries \in Nat /\ MaxClock \in Nat /\ Redirects \in BOOLEAN

VARIABLES
    clock,     \* time.time() in milliseconds; it can be set back
    last,      \* _last of each NonceManager
    pc,        \* where each call is
    nonce,     \* the nonce each write is signed with
    attempt,   \* attempt of API.post
    result,    \* how the call ended
    sent,      \* copies that left the machine; any of them may get lost
    answers,   \* the response to each copy that arrived; it may get lost
    accepted,  \* copies of writes the gateway accepted for execution
    used       \* the nonces they were signed with

local == <<pc, nonce, attempt, result>>
remote == <<sent, answers, accepted, used>>
vars == <<clock, last, local, remote>>

Copies == Calls \X (0 .. MaxRetries)
Responses == {"ok", "notJson", "refused", "duplicate", "unavailable", "notReady"}
Unsent == {"refusedConnection", "badCertificate", "badRequest"}
Failures == Unsent \cup {"cut", "undecodable"}
Results == {"none", "returned", "ClientError", "ServerError", "OutcomeUnknownError",
            "RequestException"}

Init ==
    /\ clock \in 0 .. MaxClock
    /\ last = [m \in Managers |-> 0]
    /\ pc = [p \in Calls |-> "new"]
    /\ nonce = [p \in Writes |-> 0]
    /\ attempt = [p \in Calls |-> 0]
    /\ result = [p \in Calls |-> "none"]
    /\ sent = {}
    /\ answers = {}
    /\ accepted = {}
    /\ used = {}

-----------------------------------------------------------------------------
(* The rules of API.post, over the failures that requests can raise:         *)
(* refusedConnection (refused, unreachable, DNS, connect timeout),           *)
(* badCertificate (a rejected server certificate), badRequest (bad URL or    *)
(* header), cut (read timeout, reset, proxy, chunk or any other TLS error)   *)
(* and undecodable (a body that does not decompress).                        *)

Idempotent(p) == p \in Reads

NeverSentAnyConnectionError(f) == f \in {"refusedConnection", "badCertificate", "cut"}
NeverSent(f) == f = "refusedConnection"

RetryableTransport(f) == f \in {"refusedConnection", "badCertificate", "cut"}

MaybeDeliveredTransportOnly(f) == RetryableTransport(f) /\ f # "badCertificate"
MaybeDelivered(f) == (RetryableTransport(f) \/ f = "undecodable") /\ f # "badCertificate"

Transient(r) == r = "unavailable"

MayRetryOffByOne(p) == attempt[p] <= MaxRetries
MayRetry(p) == attempt[p] < MaxRetries

RetryFailureAlways(p, f) == RetryableTransport(f)
RetryFailure(p, f) == NeverSent(f) \/ (Idempotent(p) /\ RetryableTransport(f))

RaisedFor(p, f) ==
    IF ~Idempotent(p) /\ ~NeverSent(f) /\ MaybeDelivered(f)
    THEN "OutcomeUnknownError"
    ELSE "RequestException"

(* _handle_response: the status, and a body that does not parse.             *)
ResultOfTimeoutAsRejection(r) ==
    CASE r = "ok" -> "returned"
      [] r \in {"refused", "duplicate", "unavailable"} -> "ClientError"
      [] OTHER -> "ServerError"
ResultOf(r) ==
    CASE r = "ok" -> "returned"
      [] r \in {"refused", "duplicate"} -> "ClientError"
      [] OTHER -> "ServerError"

-----------------------------------------------------------------------------
(* The client.                                                               *)

(* NonceManager.next, under its own lock.                                    *)
NextNonceSeconds(m) == IF last[m] + 1000 > clock THEN last[m] + 1000 ELSE clock
NextNonceClockOnly(m) == IF last[m] > clock THEN last[m] ELSE clock
NextNonce(m) == IF last[m] + 1 > clock THEN last[m] + 1 ELSE clock

(* _post_action takes a nonce and signs once, before API.post's loop.        *)
StartWrite(p) ==
    /\ p \in Writes /\ pc[p] = "new"
    /\ LET m == ManagerOf[p] IN
        /\ last' = [last EXCEPT ![m] = NextNonce(m)]
        /\ nonce' = [nonce EXCEPT ![p] = NextNonce(m)]
    /\ pc' = [pc EXCEPT ![p] = "send"]
    /\ UNCHANGED <<clock, attempt, result, remote>>

StartRead(p) ==
    /\ p \in Reads /\ pc[p] = "new"
    /\ pc' = [pc EXCEPT ![p] = "send"]
    /\ UNCHANGED <<clock, last, nonce, attempt, result, remote>>

(* _wait_before_retry, and the next round of the loop.                       *)
RetryUncounted(p) == pc' = [pc EXCEPT ![p] = "send"] /\ UNCHANGED <<attempt, result>>
Retry(p) ==
    /\ attempt' = [attempt EXCEPT ![p] = @ + 1]
    /\ pc' = [pc EXCEPT ![p] = "send"]
    /\ UNCHANGED result

Finish(p, outcome) ==
    /\ result' = [result EXCEPT ![p] = outcome]
    /\ pc' = [pc EXCEPT ![p] = "done"]
    /\ UNCHANGED attempt

Fails(p, f) ==
    IF MayRetry(p) /\ RetryFailure(p, f) THEN Retry(p) ELSE Finish(p, RaisedFor(p, f))

(* An attempt that fails before a byte of the request leaves the machine: a  *)
(* handshake that is reset or a proxy that fails looks like a cut answer.    *)
FailBeforeSending(p, f) ==
    /\ pc[p] = "send" /\ f \in Unsent \cup {"cut"}
    /\ Fails(p, f)
    /\ UNCHANGED <<clock, last, nonce, remote>>

Send(p) ==
    /\ pc[p] = "send"
    /\ sent' = sent \cup {<<p, attempt[p]>>}
    /\ pc' = [pc EXCEPT ![p] = "wait"]
    /\ UNCHANGED <<clock, last, nonce, attempt, result, answers, accepted, used>>

(* An attempt that fails afterwards, whatever became of the copy.            *)
FailAfterSending(p, f) ==
    /\ pc[p] = "wait" /\ f \in {"cut", "undecodable"}
    /\ Fails(p, f)
    /\ UNCHANGED <<clock, last, nonce, remote>>

(* requests follows a redirect: the server has had the request, and the      *)
(* attempt fails to reach the place it was redirected to.                    *)
FailAfterRedirectResigned(p, f) ==
    /\ Redirects /\ pc[p] = "wait" /\ f \in Unsent
    /\ Fails(p, f)
    /\ IF p \in Writes /\ pc'[p] = "send"
       THEN /\ nonce' = [nonce EXCEPT ![p] = NextNonce(ManagerOf[p])]
            /\ last' = [last EXCEPT ![ManagerOf[p]] = NextNonce(ManagerOf[p])]
       ELSE UNCHANGED <<nonce, last>>
    /\ UNCHANGED <<clock, remote>>
FailAfterRedirect(p, f) ==
    /\ Redirects /\ pc[p] = "wait" /\ f \in Unsent
    /\ Fails(p, f)
    /\ UNCHANGED <<clock, last, nonce, remote>>

Respond(p, r) ==
    /\ pc[p] = "wait" /\ [copy |-> <<p, attempt[p]>>, response |-> r] \in answers
    /\ IF Idempotent(p) /\ MayRetry(p) /\ Transient(r)
       THEN Retry(p)
       ELSE Finish(p, ResultOf(r))
    /\ UNCHANGED <<clock, last, nonce, remote>>

-----------------------------------------------------------------------------
(* The clock, the network and the gateway.                                   *)

SetClock ==
    /\ clock' \in 0 .. MaxClock
    /\ UNCHANGED <<last, local, remote>>

(* Copies the server has yet to handle, however late.                        *)
Transit == sent \ {a.copy : a \in answers}

Answer(c, r) == answers' = answers \cup {[copy |-> c, response |-> r]}

(* Every nonce of an accepted write is used up, whichever call signed it.    *)
Used(n) == n \in used

(* A write is accepted (and its answer may still be a 504, or get mangled),  *)
(* or refused with a 4xx or a 5xx; a used nonce is a DUPLICATE_NONCE.        *)
AcceptWrite(c, r) ==
    /\ c[1] \in Writes /\ ~Used(nonce[c[1]])
    /\ r \in {"ok", "notJson", "unavailable"}
    /\ Answer(c, r)
    /\ accepted' = accepted \cup {c}
    /\ used' = used \cup {nonce[c[1]]}
    /\ UNCHANGED <<clock, last, local, sent>>

RefuseWrite(c, r) ==
    /\ c[1] \in Writes
    /\ r \in IF Used(nonce[c[1]]) THEN {"duplicate"} ELSE {"refused", "unavailable"}
    /\ Answer(c, r)
    /\ UNCHANGED <<clock, last, local, sent, accepted, used>>

(* Only a read that is waited for: answering any other changes nothing.      *)
AnswerRead(c, r) ==
    /\ c[1] \in Reads /\ pc[c[1]] = "wait" /\ attempt[c[1]] = c[2]
    /\ r \in {"ok", "notJson", "refused", "unavailable", "notReady"}
    /\ Answer(c, r)
    /\ UNCHANGED <<clock, last, local, sent, accepted, used>>

-----------------------------------------------------------------------------
ClientStep(p) ==
    \/ \E f \in Failures : FailBeforeSending(p, f) \/ FailAfterSending(p, f)
    \/ \E f \in Unsent : FailAfterRedirect(p, f)
    \/ Send(p)
    \/ \E r \in Responses : Respond(p, r)

Next ==
    \/ \E p \in Calls : StartWrite(p) \/ StartRead(p) \/ ClientStep(p)
    \/ SetClock
    \/ \E c \in Transit, r \in Responses : AcceptWrite(c, r) \/ RefuseWrite(c, r) \/ AnswerRead(c, r)

Spec == Init /\ [][Next]_vars

(* Connect and read timeouts end every attempt, so a running call goes on.   *)
FairSpec == Spec /\ \A p \in Calls : WF_vars(ClientStep(p))

-----------------------------------------------------------------------------
(* Properties.                                                               *)

TypeOK ==
    /\ clock \in 0 .. MaxClock
    /\ last \in [Managers -> Nat]
    /\ pc \in [Calls -> {"new", "send", "wait", "done"}]
    /\ nonce \in [Writes -> Nat]
    /\ attempt \in [Calls -> 0 .. MaxRetries]
    /\ result \in [Calls -> Results]
    /\ sent \subseteq Copies
    /\ answers \subseteq [copy : Copies, response : Responses]
    /\ accepted \subseteq Copies
    /\ used \subseteq Nat

(* A write that may have reached the gateway is never sent again.            *)
WritesSentOnce ==
    \A c, d \in sent : c[1] \in Writes /\ c[1] = d[1] => c = d

(* Writes signed through one NonceManager never get each other refused as    *)
(* DUPLICATE_NONCE, nor does a write ever get itself refused.                *)
NoDuplicateNonce ==
    \A a \in answers : a.response = "duplicate" =>
        \E c \in accepted : nonce[c[1]] = nonce[a.copy[1]] /\ ManagerOf[c[1]] # ManagerOf[a.copy[1]]

(* The engine rejects a nonce too far ahead of its time.  However a burst of *)
(* calls outruns the clock and wherever the clock is set back to, no nonce   *)
(* is further ahead of the latest time the clock can have shown than its     *)
(* NonceManager has handed out nonces.                                       *)
Drawn(m) == {p \in Writes : pc[p] # "new" /\ ManagerOf[p] = m}
NoncesNearClock ==
    \A m \in Managers, p \in Writes :
        p \in Drawn(m) => nonce[p] <= MaxClock + Cardinality(Drawn(m))

(* A write that ends in a plain exception never left the machine, so its     *)
(* caller may repeat it: every failure that can come after the request is    *)
(* sent is told apart.  Not conversely: a reset during the TLS handshake     *)
(* raises OutcomeUnknownError for a write that was not sent.                 *)
FailureMeansUnsent ==
    \A p \in Writes : result[p] = "RequestException" => \A c \in sent : c[1] # p

(* The most steps a call has left to take; the other side cannot add any.    *)
StepsLeft(p) ==
    CASE pc[p] = "new" -> 2 * MaxRetries + 3
      [] pc[p] = "send" -> 2 * (MaxRetries - attempt[p]) + 2
      [] pc[p] = "wait" -> 2 * (MaxRetries - attempt[p]) + 1
      [] pc[p] = "done" -> 0

(* Whatever fails, answers late or is redirected, every step of a call       *)
(* brings it nearer to its end, and no other step takes it further away.     *)
CallsDwindle ==
    [][\A p \in Calls :
        /\ StepsLeft(p)' <= StepsLeft(p)
        /\ ClientStep(p) => StepsLeft(p)' < StepsLeft(p)]_vars

(* Every started call ends.                                                  *)
CallsEnd == \A p \in Calls : pc[p] = "send" ~> pc[p] = "done"

(* The caller's view; a ServerError leaves the outcome open.                 *)
Effects(p) == Cardinality({c \in accepted : c[1] = p})
ToldOf(p) ==
    IF result[p] = "none" THEN "nothing"
    ELSE IF result[p] = "returned" THEN "success"
    ELSE IF result[p] \in {"ClientError", "RequestException"} THEN "failure"
    ELSE "unknown"

(* Even where redirects make API.post send a write again, signing it once    *)
(* makes it take effect at most once, and a call that returns did.           *)
ExecutedOnce ==
    \A p \in Writes : Effects(p) <= 1 /\ (result[p] = "returned" => Effects(p) = 1)

Promise == INSTANCE AtMostOnce
    WITH Calls <- Writes,
         effects <- [p \in Writes |-> Effects(p)],
         told <- [p \in Writes |-> ToldOf(p)]

(* A write takes effect at most once, a success means that it did, a failure *)
(* that it did not and never will, even when a copy arrives late.            *)
KeepsPromise == Promise!Spec
=============================================================================
