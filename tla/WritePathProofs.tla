-------------------------- MODULE WritePathProofs --------------------------
(* Proofs of the safety properties of WritePath for every value of the       *)
(* constants.  What redirects break (see the README) is proved without them. *)
EXTENDS WritePath, FiniteSetTheorems, TLAPS

Answered(c) == \E a \in answers : a.copy = c

(* What is on the wire belongs to a call that was started, and what the      *)
(* server handled was sent.                                                  *)
WireInv ==
    /\ \A c \in sent : c[1] \in Writes => pc[c[1]] # "new"
    /\ \A p \in Writes : pc[p] = "wait" => <<p, attempt[p]>> \in sent
    /\ \A a \in answers : a.copy \in sent
    /\ \A c \in accepted : c \in sent /\ c[1] \in Writes /\ Answered(c)

(* Without redirects a write has at most the copy of its current attempt     *)
(* out, and no attempt follows it.                                           *)
SentInv ==
    \A c \in sent : c[1] \in Writes =>
        c = <<c[1], attempt[c[1]]>> /\ pc[c[1]] \in {"wait", "done"}

(* Nonces: never above the manager's last one, and taken once.               *)
NonceInv ==
    /\ \A p \in Writes : pc[p] # "new" => nonce[p] <= last[ManagerOf[p]]
    /\ \A p, q \in Writes :
          pc[p] # "new" /\ pc[q] # "new" /\ p # q /\ ManagerOf[p] = ManagerOf[q]
              => nonce[p] # nonce[q]

(* What an answer to a write says about it.                                  *)
AnswerInv ==
    /\ \A a \in answers : a.response = "duplicate" => a.copy[1] \in Writes
    /\ \A a \in answers : a.copy[1] \in Writes =>
        /\ a.response = "ok" => a.copy \in accepted
        /\ a.response \in {"refused", "duplicate"} => a.copy \notin accepted

(* The nonces used up are those of the accepted writes, each used up once.   *)
UsedInv ==
    /\ \A c \in accepted : nonce[c[1]] \in used
    /\ \A n \in used : \E c \in accepted : nonce[c[1]] = n
    /\ \A c, d \in accepted : nonce[c[1]] = nonce[d[1]] => c = d

(* A write that returned was accepted.                                       *)
ReturnedInv == \A p \in Writes : result[p] = "returned" => \E c \in accepted : c[1] = p

(* What a result says about the write.                                       *)
ResultInv ==
    \A p \in Writes :
        /\ result[p] = "none" <=> pc[p] # "done"
        /\ result[p] = "returned" => \E c \in accepted : c[1] = p
        /\ result[p] = "ClientError" =>
              /\ \A c \in accepted : c[1] # p
              /\ \A c \in sent : c[1] = p => Answered(c)

(* What holds with redirects too, and all that holds without.                *)
AnyInv == TypeOK /\ WireInv /\ NonceInv /\ AnswerInv /\ UsedInv /\ ReturnedInv

IInv == AnyInv /\ SentInv /\ NoDuplicateNonce /\ FailureMeansUnsent /\ ResultInv

-----------------------------------------------------------------------------
(* The initial values have their types.                                      *)
LEMMA TypeInit == Init => TypeOK
BY BoundsAssumption DEF Init, TypeOK, Results

(* Retrying or ending a call keeps its variables in their types.             *)
LEMMA TypeFails ==
    ASSUME TypeOK, NEW p \in Calls, NEW f \in Failures, Fails(p, f)
    PROVE  /\ pc' \in [Calls -> {"new", "send", "wait", "done"}]
           /\ attempt' \in [Calls -> 0 .. MaxRetries]
           /\ result' \in [Calls -> Results]
<1>1. CASE MayRetry(p) /\ RetryFailure(p, f)
  BY <1>1, BoundsAssumption DEF Fails, MayRetry, Retry, TypeOK
<1>2. CASE ~(MayRetry(p) /\ RetryFailure(p, f))
  BY <1>2 DEF Fails, Finish, RaisedFor, TypeOK, Results
<1> QED BY <1>1, <1>2

(* Every step keeps the types.                                               *)
LEMMA TypeStep == TypeOK /\ [Next]_vars => TypeOK'
<1> SUFFICES ASSUME TypeOK, [Next]_vars PROVE TypeOK'
  OBVIOUS
<1> USE BoundsAssumption, ManagersAssumption DEF local, remote
<1>1. ASSUME NEW p \in Calls, StartWrite(p) PROVE TypeOK'
  <2>1. NextNonce(ManagerOf[p]) \in Nat
    BY <1>1 DEF TypeOK, NextNonce, StartWrite
  <2> QED BY <1>1, <2>1 DEF TypeOK, StartWrite
<1>2. ASSUME NEW p \in Calls, StartRead(p) PROVE TypeOK'
  BY <1>2 DEF TypeOK, StartRead
<1>3. ASSUME NEW p \in Calls, NEW f \in Failures,
             FailBeforeSending(p, f) \/ FailAfterSending(p, f)
      PROVE  TypeOK'
  BY <1>3, TypeFails DEF TypeOK, FailBeforeSending, FailAfterSending
<1>4. ASSUME NEW p \in Calls, Send(p) PROVE TypeOK'
  <2>1. <<p, attempt[p]>> \in Copies
    BY DEF TypeOK, Copies
  <2> QED BY <1>4, <2>1 DEF TypeOK, Send
<1>5. ASSUME NEW p \in Calls, NEW f \in Unsent, FailAfterRedirect(p, f) PROVE TypeOK'
  BY <1>5, TypeFails DEF TypeOK, FailAfterRedirect, Failures
<1>6. ASSUME NEW p \in Calls, NEW r \in Responses, Respond(p, r) PROVE TypeOK'
  <2>1. CASE Idempotent(p) /\ MayRetry(p) /\ Transient(r)
    BY <1>6, <2>1 DEF TypeOK, Respond, MayRetry, Retry
  <2>2. CASE ~(Idempotent(p) /\ MayRetry(p) /\ Transient(r))
    <3>1. ResultOf(r) \in Results
      BY DEF ResultOf, Results, Responses
    <3> QED BY <1>6, <2>2, <3>1 DEF TypeOK, Respond, Finish
  <2> QED BY <2>1, <2>2
<1>7. CASE SetClock
  BY <1>7 DEF TypeOK, SetClock
<1>8. ASSUME NEW c \in Transit, NEW r \in Responses,
             AcceptWrite(c, r) \/ RefuseWrite(c, r) \/ AnswerRead(c, r)
      PROVE  TypeOK'
  <2>1. c \in Copies
    BY DEF Transit, TypeOK
  <2>2. /\ answers' = answers \cup {[copy |-> c, response |-> r]}
        /\ accepted' \subseteq accepted \cup {c}
        /\ UNCHANGED <<clock, last, local, sent>>
    BY <1>8 DEF AcceptWrite, RefuseWrite, AnswerRead, Answer
  <2>3. used' = used \/ (c[1] \in Writes /\ used' = used \cup {nonce[c[1]]})
    BY <1>8 DEF AcceptWrite, RefuseWrite, AnswerRead
  <2>4. used' \subseteq Nat
    <3>1. c[1] \in Writes => nonce[c[1]] \in Nat
      BY DEF TypeOK
    <3> QED BY <2>3, <3>1 DEF TypeOK
  <2> QED BY <2>1, <2>2, <2>4 DEF TypeOK
<1>9. CASE UNCHANGED vars
  BY <1>9 DEF TypeOK, vars
<1> QED BY <1>1, <1>2, <1>3, <1>4, <1>5, <1>6, <1>7, <1>8, <1>9 DEF Next, ClientStep

(* TypeOK: every variable keeps the type the code gives it; in particular    *)
(* no call makes more than 1 + max_retries attempts.                         *)
THEOREM TypeCorrect == Spec => []TypeOK
BY TypeInit, TypeStep, PTL DEF Spec

-----------------------------------------------------------------------------
(* How a step of the client looks to one write p.  Steps of other calls      *)
(* leave p alone, and no attempt of a write follows one that was sent.       *)
NothingSent(p) == \A c \in sent : c[1] # p

(* A call moves no other call.                                               *)
LEMMA SameForOthers ==
    ASSUME TypeOK, NEW p \in Calls, NEW f \in Failures,
           Fails(p, f) \/ \E r \in Responses : Respond(p, r)
    PROVE  \A q \in Calls \ {p} : pc'[q] = pc[q] /\ attempt'[q] = attempt[q] /\ result'[q] = result[q]
BY DEF TypeOK, Fails, Respond, Retry, Finish

(* A write that fails before it is sent has sent nothing, and is retried or  *)
(* fails.                                                                    *)
LEMMA WriteFailsBefore ==
    ASSUME TypeOK, SentInv, NEW p \in Writes, NEW f \in Failures, FailBeforeSending(p, f)
    PROVE  /\ NothingSent(p)
           /\ \/ pc'[p] = "send" /\ result'[p] = result[p]
              \/ pc'[p] = "done" /\ result'[p] \in {"RequestException", "OutcomeUnknownError"}
<1>1. NothingSent(p)
  BY DEF NothingSent, WireInv, SentInv, FailBeforeSending, TypeOK
<1>2. Fails(p, f) /\ p \in Calls
  BY DEF FailBeforeSending, Calls
<1>3. RaisedFor(p, f) \in {"RequestException", "OutcomeUnknownError"}
  BY DEF RaisedFor
<1> QED BY <1>1, <1>2, <1>3 DEF TypeOK, Fails, Retry, Finish

(* A write that fails after it was sent ends with OutcomeUnknownError.       *)
LEMMA WriteFailsAfter ==
    ASSUME TypeOK, NEW p \in Writes, NEW f \in Failures, FailAfterSending(p, f)
    PROVE  attempt' = attempt /\ pc'[p] = "done" /\ result'[p] = "OutcomeUnknownError"
<1>1. ~Idempotent(p) /\ p \in Calls
  BY CallsAssumption DEF Idempotent, Calls
<1>2. Fails(p, f) /\ f \in {"cut", "undecodable"}
  BY DEF FailAfterSending
<1>3. RaisedFor(p, f) = "OutcomeUnknownError" /\ ~RetryFailure(p, f)
  BY <1>1, <1>2 DEF RaisedFor, RetryFailure, NeverSent, MaybeDelivered, RetryableTransport
<1> QED BY <1>1, <1>2, <1>3 DEF TypeOK, Fails, Finish

(* A write that gets a response ends with what the response says.            *)
LEMMA WriteResponds ==
    ASSUME TypeOK, NEW p \in Writes, NEW r \in Responses, Respond(p, r)
    PROVE  attempt' = attempt /\ pc'[p] = "done" /\ result'[p] = ResultOf(r)
BY CallsAssumption DEF TypeOK, Respond, Finish, Idempotent, Calls

-----------------------------------------------------------------------------
(* How the other steps look to the invariants: a step of a running call      *)
(* touches no nonce and no other call; the gateway touches no call.          *)
LEMMA CallStep ==
    ASSUME TypeOK, NEW p \in Calls, ClientStep(p) \/ StartRead(p)
    PROVE  /\ p \in Writes => pc[p] \in {"send", "wait"}
           /\ \A q \in Calls \ {p} :
                pc'[q] = pc[q] /\ attempt'[q] = attempt[q] /\ result'[q] = result[q]
           /\ UNCHANGED <<nonce, last, answers, accepted, used>>
<1> USE CallsAssumption DEF Calls, remote
<1> DEFINE Same == \A q \in Calls \ {p} :
                     pc'[q] = pc[q] /\ attempt'[q] = attempt[q] /\ result'[q] = result[q]
<1>1. ASSUME NEW f \in Failures, FailBeforeSending(p, f) \/ FailAfterSending(p, f)
              \/ FailAfterRedirect(p, f)
      PROVE  Same
  BY <1>1, SameForOthers DEF FailBeforeSending, FailAfterSending, FailAfterRedirect, Failures
<1>2. ASSUME NEW r \in Responses, Respond(p, r)
      PROVE  Same
  BY <1>2, SameForOthers DEF Failures
<1>3. ASSUME Send(p) \/ StartRead(p)
      PROVE  Same
  BY <1>3 DEF Send, StartRead, TypeOK
<1>4. Same
  BY <1>1, <1>2, <1>3 DEF ClientStep, Failures
<1>5. /\ p \in Writes => pc[p] \in {"send", "wait"}
      /\ UNCHANGED <<nonce, last, answers, accepted, used>>
  BY DEF ClientStep, FailBeforeSending, FailAfterSending, FailAfterRedirect, Send, Respond, StartRead
<1> QED BY <1>4, <1>5

(* A step of a running call either sends its copy, or leaves what was sent   *)
(* alone and goes on to another attempt or to the end.                       *)
LEMMA CallMoves ==
    ASSUME TypeOK, NEW p \in Calls, ClientStep(p)
    PROVE  \/ Send(p)
           \/ sent' = sent /\ pc'[p] \in {"send", "done"}
<1>1. ASSUME NEW f \in Failures, Fails(p, f) PROVE pc'[p] \in {"send", "done"}
  BY <1>1 DEF Fails, Retry, Finish, TypeOK
<1>2. ASSUME NEW r \in Responses, Respond(p, r) PROVE pc'[p] \in {"send", "done"}
  BY <1>2 DEF Respond, Retry, Finish, TypeOK
<1> QED BY <1>1, <1>2 DEF ClientStep, FailBeforeSending, FailAfterSending, FailAfterRedirect,
                          Respond, Failures, remote

(* What a step of the gateway leaves alone.                                  *)
LEMMA ServerStep ==
    ASSUME TypeOK, WireInv, NEW c \in Transit, NEW r \in Responses,
           AcceptWrite(c, r) \/ RefuseWrite(c, r) \/ AnswerRead(c, r)
    PROVE  /\ UNCHANGED <<pc, nonce, attempt, result, last, sent>>
           /\ answers' = answers \cup {[copy |-> c, response |-> r]}
           /\ \/ accepted' = accepted /\ used' = used
              \/ /\ accepted' = accepted \cup {c} /\ used' = used \cup {nonce[c[1]]}
                 /\ c[1] \in Writes /\ nonce[c[1]] \notin used
           /\ c \in sent /\ c \notin accepted /\ ~Answered(c)
<1>1. c \in sent /\ ~Answered(c)
  BY DEF Transit, Answered
<1>2. c \notin accepted
  BY <1>1 DEF WireInv
<1> QED BY <1>1, <1>2 DEF AcceptWrite, RefuseWrite, AnswerRead, Answer, local, Used

-----------------------------------------------------------------------------
(* Every step keeps the account of what is on the wire.                      *)
LEMMA WireStep ==
    ASSUME TypeOK, WireInv, [Next]_vars
    PROVE  WireInv'
<1> USE DEF local, remote
<1>0. Writes \subseteq Calls /\ \A p \in Reads : p \in Calls /\ p \notin Writes
  BY CallsAssumption DEF Calls
<1>1. ASSUME NEW p \in Calls, StartWrite(p) \/ StartRead(p) PROVE WireInv'
  <2>1. /\ UNCHANGED <<attempt, sent, answers, accepted>>
        /\ \A q \in Writes : pc'[q] = pc[q] \/ pc'[q] = "send"
    BY <1>0, <1>1 DEF TypeOK, StartWrite, StartRead
  <2> QED BY <2>1 DEF WireInv, Answered
<1>2. ASSUME NEW p \in Calls, ClientStep(p) PROVE WireInv'
  <2>1. /\ \A q \in Writes \ {p} : pc'[q] = pc[q] /\ attempt'[q] = attempt[q]
        /\ UNCHANGED <<answers, accepted>>
    BY <1>2, CallStep DEF Calls
  <2>2. CASE sent' = sent /\ pc'[p] \in {"send", "done"}
    BY <2>1, <2>2 DEF WireInv, Answered
  <2>3. CASE Send(p)
    <3>1. sent' = sent \cup {<<p, attempt[p]>>} /\ attempt' = attempt /\ pc'[p] = "wait"
      BY <2>3 DEF Send, TypeOK
    <3>2. \A c \in sent' : c[1] \in Writes => pc'[c[1]] # "new"
      BY <2>1, <3>1 DEF WireInv
    <3>3. \A q \in Writes : pc'[q] = "wait" => <<q, attempt'[q]>> \in sent'
      BY <2>1, <3>1 DEF WireInv
    <3> QED BY <2>1, <3>1, <3>2, <3>3 DEF WireInv, Answered
  <2> QED BY <1>2, <2>2, <2>3, CallMoves
<1>3. ASSUME NEW c \in Transit, NEW r \in Responses,
             AcceptWrite(c, r) \/ RefuseWrite(c, r) \/ AnswerRead(c, r)
      PROVE  WireInv'
  <2>1. /\ UNCHANGED <<pc, attempt, sent>> /\ answers' = answers \cup {[copy |-> c, response |-> r]}
        /\ accepted' = accepted \/ (accepted' = accepted \cup {c} /\ c[1] \in Writes)
        /\ c \in sent
    BY <1>3, ServerStep
  <2>2. \A a \in answers' : a.copy \in sent'
    BY <2>1 DEF WireInv
  <2>3. Answered(c)'
    <3>1. [copy |-> c, response |-> r] \in answers' /\ [copy |-> c, response |-> r].copy = c
      BY <2>1
    <3> QED BY <3>1 DEF Answered
  <2>4. \A d \in accepted : Answered(d) => Answered(d)'
    BY <2>1 DEF Answered
  <2>5. \A d \in accepted' : d \in sent' /\ d[1] \in Writes /\ Answered(d)'
    BY <2>1, <2>3, <2>4 DEF WireInv
  <2> QED BY <2>1, <2>2, <2>5 DEF WireInv
<1>4. CASE SetClock \/ UNCHANGED vars
  BY <1>4 DEF SetClock, vars, WireInv, Answered
<1> QED BY <1>1, <1>2, <1>3, <1>4 DEF Next

(* Without redirects, every step keeps a write to one copy.                  *)
LEMMA SentStep ==
    ASSUME Redirects = FALSE, TypeOK, WireInv, SentInv, [Next]_vars
    PROVE  SentInv'
<1> USE DEF local, remote
<1>0. Writes \subseteq Calls /\ \A p \in Reads : p \in Calls /\ p \notin Writes
  BY CallsAssumption DEF Calls
<1>1. ASSUME NEW p \in Calls, StartWrite(p) \/ StartRead(p) PROVE SentInv'
  <2>1. /\ UNCHANGED <<attempt, sent>>
        /\ \A q \in Writes : pc[q] # "new" => pc'[q] = pc[q]
    BY <1>0, <1>1 DEF TypeOK, StartWrite, StartRead
  <2> QED BY <2>1 DEF WireInv, SentInv
<1>2. ASSUME NEW p \in Calls, ClientStep(p) PROVE SentInv'
  <2>1. \A q \in Writes \ {p} : pc'[q] = pc[q] /\ attempt'[q] = attempt[q]
    BY <1>2, CallStep DEF Calls
  <2>2. ASSUME Send(p) PROVE SentInv'
    <3>1. sent' = sent \cup {<<p, attempt[p]>>} /\ attempt' = attempt /\ pc'[p] = "wait"
          /\ pc[p] = "send"
      BY <2>2 DEF Send, TypeOK
    <3> QED BY <2>1, <3>1 DEF SentInv
  <2>3. ASSUME sent' = sent, p \notin Writes PROVE SentInv'
    BY <2>1, <2>3 DEF SentInv
  <2>4. ASSUME NEW f \in Failures, FailBeforeSending(p, f), p \in Writes PROVE SentInv'
    <3>1. sent' = sent /\ NothingSent(p)
      BY <2>4, WriteFailsBefore DEF FailBeforeSending
    <3> QED BY <2>1, <3>1 DEF SentInv, NothingSent
  <2>5. ASSUME NEW f \in Failures, FailAfterSending(p, f), p \in Writes PROVE SentInv'
    <3>1. sent' = sent /\ attempt' = attempt /\ pc'[p] = "done"
      BY <2>5, WriteFailsAfter DEF FailAfterSending
    <3> QED BY <2>1, <3>1 DEF SentInv
  <2>6. ASSUME NEW r \in Responses, Respond(p, r), p \in Writes PROVE SentInv'
    <3>1. sent' = sent /\ attempt' = attempt /\ pc'[p] = "done"
      BY <2>6, WriteResponds DEF Respond
    <3> QED BY <2>1, <3>1 DEF SentInv
  <2> QED BY <1>2, <2>2, <2>3, <2>4, <2>5, <2>6, CallMoves DEF ClientStep, FailAfterRedirect
<1>3. ASSUME NEW c \in Transit, NEW r \in Responses,
             AcceptWrite(c, r) \/ RefuseWrite(c, r) \/ AnswerRead(c, r)
      PROVE  SentInv'
  BY <1>3, ServerStep DEF SentInv
<1>4. CASE SetClock \/ UNCHANGED vars
  BY <1>4 DEF SetClock, vars, SentInv
<1> QED BY <1>1, <1>2, <1>3, <1>4 DEF Next

-----------------------------------------------------------------------------
(* Every step keeps nonces of one manager apart.                             *)
LEMMA NonceStep ==
    ASSUME TypeOK, WireInv, NonceInv, [Next]_vars
    PROVE  NonceInv'
<1>1. ASSUME NEW p \in Calls, StartWrite(p) PROVE NonceInv'
  <2> DEFINE m == ManagerOf[p]
  <2>1. /\ p \in Writes /\ pc[p] = "new" /\ pc' = [pc EXCEPT ![p] = "send"]
        /\ last' = [last EXCEPT ![m] = NextNonce(m)]
        /\ nonce' = [nonce EXCEPT ![p] = NextNonce(m)]
    BY <1>1 DEF StartWrite
  <2>2. m \in Managers
    BY <2>1, ManagersAssumption
  <2>3. NextNonce(m) \in Nat /\ NextNonce(m) > last[m]
    BY <2>2, BoundsAssumption DEF TypeOK, NextNonce
  <2>4. last'[m] = NextNonce(m) /\ nonce'[p] = NextNonce(m)
    BY <2>1, <2>2 DEF TypeOK
  <2>5. \A q \in Writes \ {p} : /\ pc'[q] = pc[q] /\ nonce'[q] = nonce[q]
                                /\ nonce[q] \in Nat /\ ManagerOf[q] \in Managers
    BY <2>1, ManagersAssumption DEF TypeOK, Calls
  <2>6. \A n \in Managers : last[n] \in Nat /\ last'[n] \in Nat /\ last[n] <= last'[n]
    BY <2>1, <2>2, <2>3 DEF TypeOK
  <2>7. \A q \in Writes : pc'[q] # "new" => nonce'[q] <= last'[ManagerOf[q]]
    <3> SUFFICES ASSUME NEW q \in Writes, pc'[q] # "new"
                 PROVE  nonce'[q] <= last'[ManagerOf[q]]
      OBVIOUS
    <3>1. CASE q = p
      BY <3>1, <2>3, <2>4
    <3>2. CASE q # p
      <4>1. nonce[q] <= last[ManagerOf[q]]
        BY <3>2, <2>5 DEF NonceInv
      <4> QED BY <3>2, <4>1, <2>5, <2>6
    <3> QED BY <3>1, <3>2
  <2>8. \A q \in Writes \ {p} : pc'[q] # "new" /\ ManagerOf[q] = m => nonce'[q] # nonce'[p]
    BY <2>2, <2>3, <2>4, <2>5 DEF NonceInv, TypeOK
  <2>9. \A q, s \in Writes :
          pc'[q] # "new" /\ pc'[s] # "new" /\ q # s /\ ManagerOf[q] = ManagerOf[s]
              => nonce'[q] # nonce'[s]
    BY <2>5, <2>8 DEF NonceInv
  <2> HIDE DEF m
  <2> QED BY <2>7, <2>9 DEF NonceInv
<1>2. ASSUME NEW p \in Calls, ClientStep(p) \/ StartRead(p) PROVE NonceInv'
  <2>1. /\ UNCHANGED <<nonce, last>>
        /\ \A q \in Writes : pc'[q] # "new" => pc[q] # "new"
    BY <1>2, CallStep DEF Calls
  <2> QED BY <2>1 DEF NonceInv
<1>3. ASSUME NEW c \in Transit, NEW r \in Responses,
             AcceptWrite(c, r) \/ RefuseWrite(c, r) \/ AnswerRead(c, r)
      PROVE  NonceInv'
  BY <1>3, ServerStep DEF NonceInv
<1>4. CASE SetClock \/ UNCHANGED vars
  BY <1>4 DEF SetClock, vars, NonceInv, local
<1> QED BY <1>1, <1>2, <1>3, <1>4 DEF Next

-----------------------------------------------------------------------------
(* Every step keeps answers tied to what was accepted.                       *)
LEMMA AnswerStep ==
    ASSUME TypeOK, WireInv, AnswerInv, [Next]_vars
    PROVE  AnswerInv'
<1>1. ASSUME NEW p \in Calls, StartWrite(p) PROVE AnswerInv'
  BY <1>1 DEF StartWrite, remote, AnswerInv
<1>2. ASSUME NEW p \in Calls, ClientStep(p) \/ StartRead(p) PROVE AnswerInv'
  BY <1>2, CallStep DEF AnswerInv
<1>3. ASSUME NEW c \in Transit, NEW r \in Responses,
             AcceptWrite(c, r) \/ RefuseWrite(c, r) \/ AnswerRead(c, r)
      PROVE  AnswerInv'
  <2> DEFINE new == [copy |-> c, response |-> r]
  <2>1. answers' = answers \cup {new} /\ c \notin accepted /\ new.copy = c /\ new.response = r
    BY <1>3, ServerStep
  <2>2. \A a \in answers : a.copy # c
    BY DEF Transit
  <2>3. /\ r = "duplicate" => c[1] \in Writes
        /\ c[1] \in Writes /\ r = "ok" => c \in accepted'
        /\ r \in {"refused", "duplicate"} => accepted' = accepted
        /\ accepted' = accepted \/ accepted' = accepted \cup {c}
    <3>1. CASE AcceptWrite(c, r)
      BY <3>1 DEF AcceptWrite
    <3>2. CASE RefuseWrite(c, r)
      BY <3>2 DEF RefuseWrite
    <3>3. CASE AnswerRead(c, r)
      BY <3>3, CallsAssumption DEF AnswerRead
    <3> QED BY <1>3, <3>1, <3>2, <3>3
  <2> HIDE DEF new
  <2>4. \A a \in answers' : a.response = "duplicate" => a.copy[1] \in Writes
    BY <2>1, <2>3 DEF AnswerInv
  <2>5. \A a \in answers' : a.copy[1] \in Writes /\ a.response = "ok" => a.copy \in accepted'
    BY <2>1, <2>3 DEF AnswerInv
  <2>6. \A a \in answers' : a.copy[1] \in Writes /\ a.response \in {"refused", "duplicate"}
            => a.copy \notin accepted'
    BY <2>1, <2>2, <2>3 DEF AnswerInv
  <2> QED BY <2>4, <2>5, <2>6 DEF AnswerInv
<1>4. CASE SetClock \/ UNCHANGED vars
  BY <1>4 DEF SetClock, vars, remote, AnswerInv
<1> QED BY <1>1, <1>2, <1>3, <1>4 DEF Next

(* Every step keeps the used nonces those of what was accepted.              *)
LEMMA UsedStep ==
    ASSUME TypeOK, WireInv, UsedInv, [Next]_vars
    PROVE  UsedInv'
<1>1. ASSUME NEW p \in Calls, StartWrite(p) PROVE UsedInv'
  <2>1. pc[p] = "new" /\ p \in Writes /\ UNCHANGED <<accepted, used>>
        /\ nonce' = [nonce EXCEPT ![p] = NextNonce(ManagerOf[p])]
    BY <1>1 DEF StartWrite, remote
  <2>2. \A c \in accepted : nonce'[c[1]] = nonce[c[1]]
    BY <2>1 DEF WireInv, TypeOK
  <2> QED BY <2>1, <2>2 DEF UsedInv
<1>2. ASSUME NEW p \in Calls, ClientStep(p) \/ StartRead(p) PROVE UsedInv'
  BY <1>2, CallStep DEF UsedInv
<1>3. ASSUME NEW c \in Transit, NEW r \in Responses,
             AcceptWrite(c, r) \/ RefuseWrite(c, r) \/ AnswerRead(c, r)
      PROVE  UsedInv'
  <2>1. nonce' = nonce
    BY <1>3, ServerStep
  <2>2. CASE accepted' = accepted /\ used' = used
    BY <2>1, <2>2 DEF UsedInv
  <2>3. CASE accepted' = accepted \cup {c} /\ used' = used \cup {nonce[c[1]]}
             /\ nonce[c[1]] \notin used
    BY <2>1, <2>3 DEF UsedInv
  <2> QED BY <1>3, <2>2, <2>3, ServerStep
<1>4. CASE SetClock \/ UNCHANGED vars
  BY <1>4 DEF SetClock, vars, local, remote, UsedInv
<1> QED BY <1>1, <1>2, <1>3, <1>4 DEF Next

(* A write returns only when the answer says that it was accepted.           *)
LEMMA ReturnedStep ==
    ASSUME TypeOK, WireInv, AnswerInv, ReturnedInv, [Next]_vars
    PROVE  ReturnedInv'
<1>1. ASSUME NEW p \in Calls, StartWrite(p) \/ StartRead(p) PROVE ReturnedInv'
  BY <1>1 DEF StartWrite, StartRead, remote, ReturnedInv
<1>2. ASSUME NEW p \in Calls, ClientStep(p) PROVE ReturnedInv'
  <2>1. /\ \A q \in Writes \ {p} : result'[q] = result[q]
        /\ accepted' = accepted
    BY <1>2, CallStep DEF Calls
  <2>2. ASSUME p \in Writes, result'[p] = "returned" PROVE \E c \in accepted : c[1] = p
    <3>1. CASE result'[p] = result[p]
      BY <2>2, <3>1 DEF ReturnedInv
    <3>2. ASSUME NEW r \in Responses, Respond(p, r) PROVE \E c \in accepted : c[1] = p
      <4>1. r = "ok"
        BY <2>2, <3>2, WriteResponds DEF ResultOf
      <4>2. PICK a \in answers : a.copy = <<p, attempt[p]>> /\ a.response = "ok"
        BY <3>2, <4>1 DEF Respond
      <4> QED BY <2>2, <4>2 DEF AnswerInv
    <3>3. ASSUME NEW f \in Failures, Fails(p, f) PROVE result'[p] = result[p] \/ result'[p] # "returned"
      BY <3>3 DEF Fails, Retry, Finish, RaisedFor, TypeOK
    <3> QED BY <1>2, <2>2, <3>1, <3>2, <3>3 DEF ClientStep, Send, FailBeforeSending,
                FailAfterSending, FailAfterRedirect, Failures
  <2> QED BY <2>1, <2>2 DEF ReturnedInv
<1>3. ASSUME NEW c \in Transit, NEW r \in Responses,
             AcceptWrite(c, r) \/ RefuseWrite(c, r) \/ AnswerRead(c, r)
      PROVE  ReturnedInv'
  <2>1. result' = result /\ accepted \subseteq accepted'
    BY <1>3, ServerStep
  <2> QED BY <2>1 DEF ReturnedInv
<1>4. CASE SetClock \/ UNCHANGED vars
  BY <1>4 DEF SetClock, vars, local, remote, ReturnedInv
<1> QED BY <1>1, <1>2, <1>3, <1>4 DEF Next

(* No step makes the gateway find a nonce of the same manager used.          *)
LEMMA DuplicateStep ==
    ASSUME TypeOK, WireInv, SentInv, UsedInv, NonceInv, AnswerInv, NoDuplicateNonce, [Next]_vars
    PROVE  NoDuplicateNonce'
<1>1. ASSUME NEW p \in Calls, StartWrite(p) PROVE NoDuplicateNonce'
  <2>1. pc[p] = "new" /\ p \in Writes /\ UNCHANGED <<answers, accepted>>
        /\ nonce' = [nonce EXCEPT ![p] = NextNonce(ManagerOf[p])]
    BY <1>1 DEF StartWrite, remote
  <2>2. \A c \in sent : c[1] \in Writes => nonce'[c[1]] = nonce[c[1]]
    BY <2>1 DEF WireInv, SentInv, TypeOK
  <2>3. \A a \in answers : a.response = "duplicate" => nonce'[a.copy[1]] = nonce[a.copy[1]]
    BY <2>2 DEF WireInv, SentInv, AnswerInv
  <2>4. \A c \in accepted : nonce'[c[1]] = nonce[c[1]]
    BY <2>2 DEF WireInv, SentInv
  <2> QED BY <2>1, <2>3, <2>4 DEF NoDuplicateNonce
<1>2. ASSUME NEW p \in Calls, ClientStep(p) \/ StartRead(p) PROVE NoDuplicateNonce'
  BY <1>2, CallStep DEF NoDuplicateNonce
<1>3. ASSUME NEW c \in Transit, NEW r \in Responses,
             AcceptWrite(c, r) \/ RefuseWrite(c, r) \/ AnswerRead(c, r)
      PROVE  NoDuplicateNonce'
  <2> DEFINE new == [copy |-> c, response |-> r]
  <2>1. /\ answers' = answers \cup {new} /\ new.copy = c /\ new.response = r
        /\ nonce' = nonce /\ accepted \subseteq accepted'
        /\ c \in sent /\ c \notin accepted
    BY <1>3, ServerStep
  <2>2. r = "duplicate" =>
          \E d \in accepted : nonce[d[1]] = nonce[c[1]] /\ ManagerOf[d[1]] # ManagerOf[c[1]]
    <3> SUFFICES ASSUME r = "duplicate"
                 PROVE  \E d \in accepted : /\ nonce[d[1]] = nonce[c[1]]
                                            /\ ManagerOf[d[1]] # ManagerOf[c[1]]
      OBVIOUS
    <3>1. c[1] \in Writes /\ Used(nonce[c[1]])
      BY <1>3 DEF AcceptWrite, RefuseWrite, AnswerRead
    <3>2. PICK d \in accepted : nonce[d[1]] = nonce[c[1]]
      BY <3>1 DEF Used, UsedInv
    <3>3. d \in sent /\ d[1] \in Writes /\ d # c
      BY <2>1 DEF WireInv, SentInv
    <3>4. d[1] # c[1] /\ pc[c[1]] # "new" /\ pc[d[1]] # "new"
      BY <2>1, <3>1, <3>3 DEF WireInv, SentInv
    <3> QED BY <3>1, <3>2, <3>3, <3>4 DEF NonceInv
  <2> HIDE DEF new
  <2> QED BY <2>1, <2>2 DEF NoDuplicateNonce
<1>4. CASE SetClock \/ UNCHANGED vars
  BY <1>4 DEF SetClock, vars, local, remote, NoDuplicateNonce
<1> QED BY <1>1, <1>2, <1>3, <1>4 DEF Next

-----------------------------------------------------------------------------
(* No step ends a write in a plain exception once it is sent.                *)
LEMMA OutcomeStep ==
    ASSUME Redirects = FALSE, TypeOK, WireInv, SentInv, ResultInv, FailureMeansUnsent, [Next]_vars
    PROVE  FailureMeansUnsent'
<1> USE DEF local, remote
<1>1. ASSUME NEW p \in Calls, StartWrite(p) \/ StartRead(p) PROVE FailureMeansUnsent'
  BY <1>1 DEF StartWrite, StartRead, FailureMeansUnsent
<1>2. ASSUME NEW p \in Calls, ClientStep(p) PROVE FailureMeansUnsent'
  <2>1. \A q \in Writes \ {p} : result'[q] = result[q]
    BY <1>2, CallStep DEF Calls
  <2>2. sent \subseteq sent' /\ \A c \in sent' : c \in sent \/ c[1] = p
    <3>1. CASE Send(p)
      BY <3>1 DEF Send
    <3>2. CASE sent' = sent
      BY <3>2
    <3> QED BY <1>2, <3>1, <3>2 DEF ClientStep, FailBeforeSending, FailAfterSending,
                                    FailAfterRedirect, Respond
  <2>3. p \in Writes /\ result'[p] = "RequestException" => \A c \in sent' : c[1] # p
    <3> SUFFICES ASSUME p \in Writes, result'[p] = "RequestException"
                 PROVE  \A c \in sent' : c[1] # p
      OBVIOUS
    <3>1. CASE Send(p)
      BY <3>1 DEF Send, ResultInv
    <3>2. ASSUME NEW f \in Failures, FailAfterSending(p, f) PROVE FALSE
      BY <3>2, WriteFailsAfter
    <3>3. ASSUME NEW f \in Failures, FailBeforeSending(p, f) PROVE \A c \in sent' : c[1] # p
      BY <3>3, WriteFailsBefore DEF NothingSent, FailBeforeSending
    <3>4. ASSUME NEW r \in Responses, Respond(p, r) PROVE FALSE
      BY <3>4, WriteResponds DEF ResultOf
    <3> QED BY <1>2, <3>1, <3>2, <3>3, <3>4 DEF ClientStep, FailAfterRedirect
  <2> QED BY <2>1, <2>2, <2>3 DEF FailureMeansUnsent
<1>3. ASSUME NEW c \in Transit, NEW r \in Responses,
             AcceptWrite(c, r) \/ RefuseWrite(c, r) \/ AnswerRead(c, r)
      PROVE  FailureMeansUnsent'
  BY <1>3, ServerStep DEF FailureMeansUnsent
<1>4. CASE SetClock \/ UNCHANGED vars
  BY <1>4 DEF SetClock, vars, FailureMeansUnsent
<1> QED BY <1>1, <1>2, <1>3, <1>4 DEF Next

(* Every step keeps results tied to answers.                                 *)
LEMMA ResultStep ==
    ASSUME Redirects = FALSE, TypeOK, WireInv, SentInv, AnswerInv, ResultInv, [Next]_vars
    PROVE  ResultInv'
<1> USE DEF local, remote
<1>1. ASSUME NEW p \in Calls, StartWrite(p) \/ StartRead(p) PROVE ResultInv'
  <2>1. /\ UNCHANGED <<result, sent, answers, accepted>>
        /\ \A q \in Writes : pc'[q] = "done" <=> pc[q] = "done"
    BY <1>1 DEF StartWrite, StartRead, TypeOK, Calls
  <2> QED BY <2>1 DEF ResultInv, Answered
<1>2. ASSUME NEW p \in Calls, ClientStep(p) PROVE ResultInv'
  <2>1. /\ \A q \in Writes \ {p} : pc'[q] = pc[q] /\ result'[q] = result[q]
        /\ UNCHANGED <<answers, accepted>>
    BY <1>2, CallStep DEF Calls
  <2>2. sent' = sent \/ sent' = sent \cup {<<p, attempt[p]>>}
    BY <1>2 DEF ClientStep, FailBeforeSending, FailAfterSending, FailAfterRedirect, Send, Respond
  <2>3. \A c \in sent' : c \in sent \/ c[1] = p
    BY <2>2
  <2> DEFINE Says(q) == /\ result[q] = "none" <=> pc[q] # "done"
                        /\ result[q] = "returned" => \E c \in accepted : c[1] = q
                        /\ result[q] = "ClientError" =>
                              /\ \A c \in accepted : c[1] # q
                              /\ \A c \in sent : c[1] = q => Answered(c)
  <2>4. \A q \in Writes \ {p} : Says(q)'
    BY <2>1, <2>3 DEF ResultInv, Answered
  <2>5. ASSUME p \in Writes PROVE Says(p)'
    <3>1. ASSUME Send(p) PROVE Says(p)'
      <4>1. result[p] = "none" /\ result' = result /\ pc'[p] = "wait"
        BY <2>5, <3>1 DEF Send, ResultInv, TypeOK, Calls
      <4> QED BY <4>1
    <3>2. ASSUME NEW f \in Failures, FailBeforeSending(p, f) PROVE Says(p)'
      <4>1. result[p] = "none"
        BY <2>5, <3>2 DEF FailBeforeSending, ResultInv
      <4>2. \/ pc'[p] = "send" /\ result'[p] = "none"
            \/ /\ pc'[p] = "done"
               /\ result'[p] \in {"RequestException", "OutcomeUnknownError"}
        BY <2>5, <3>2, <4>1, WriteFailsBefore
      <4> QED BY <4>2
    <3>3. ASSUME NEW f \in Failures, FailAfterSending(p, f) PROVE Says(p)'
      <4>1. pc'[p] = "done" /\ result'[p] = "OutcomeUnknownError"
        BY <2>5, <3>3, WriteFailsAfter
      <4> QED BY <4>1
    <3>4. ASSUME NEW r \in Responses, Respond(p, r) PROVE Says(p)'
      <4>1. pc'[p] = "done" /\ result'[p] = ResultOf(r)
        BY <2>5, <3>4, WriteResponds
      <4>2. PICK a \in answers : a.copy = <<p, attempt[p]>> /\ a.response = r
        BY <3>4 DEF Respond
      <4>3. Answered(a.copy)' /\ sent' = sent /\ a.copy[1] = p
        BY <2>1, <3>4, <4>2 DEF Answered, Respond
      <4>4. \A d \in sent : d[1] = p => d = a.copy
        BY <2>5, <4>2 DEF WireInv, SentInv
      <4>5. CASE r = "ok"
        <5>1. a.copy \in accepted
          BY <2>5, <4>2, <4>3, <4>5 DEF AnswerInv
        <5> QED BY <2>1, <4>1, <4>3, <4>5, <5>1 DEF ResultOf
      <4>6. CASE r \in {"refused", "duplicate"}
        <5>1. a.copy \notin accepted
          BY <2>5, <4>2, <4>3, <4>6 DEF AnswerInv
        <5>2. \A d \in accepted : d[1] # p
          BY <4>4, <5>1 DEF WireInv, SentInv
        <5>3. \A d \in sent' : d[1] = p => Answered(d)'
          BY <4>3, <4>4
        <5>4. result'[p] = "ClientError"
          BY <4>1, <4>6 DEF ResultOf
        <5> QED BY <2>1, <4>1, <5>2, <5>3, <5>4
      <4>7. CASE r \notin {"ok", "refused", "duplicate"}
        BY <4>1, <4>7 DEF ResultOf
      <4> QED BY <4>5, <4>6, <4>7
    <3> QED BY <1>2, <3>1, <3>2, <3>3, <3>4 DEF ClientStep, FailAfterRedirect
  <2> HIDE DEF Says
  <2>6. \A q \in Writes : Says(q)'
    BY <2>4, <2>5
  <2> QED BY <2>6 DEF ResultInv, Says
<1>3. ASSUME NEW c \in Transit, NEW r \in Responses,
             AcceptWrite(c, r) \/ RefuseWrite(c, r) \/ AnswerRead(c, r)
      PROVE  ResultInv'
  <2>1. /\ UNCHANGED <<pc, result, sent>>
        /\ answers \subseteq answers' /\ accepted \subseteq accepted'
        /\ \A d \in accepted' : d \in accepted \/ d = c
        /\ c \in sent /\ ~Answered(c)
    BY <1>3, ServerStep
  <2>2. \A d \in sent : Answered(d) => Answered(d)'
    BY <2>1 DEF Answered
  <2>3. ASSUME NEW q \in Writes, result[q] = "ClientError"
        PROVE  (\A d \in accepted' : d[1] # q) /\ \A d \in sent' : d[1] = q => Answered(d)'
    BY <2>1, <2>2, <2>3 DEF ResultInv
  <2>4. \A q \in Writes : result[q] = "returned" => \E d \in accepted' : d[1] = q
    BY <2>1 DEF ResultInv
  <2> QED BY <2>1, <2>3, <2>4 DEF ResultInv
<1>4. CASE SetClock \/ UNCHANGED vars
  BY <1>4 DEF SetClock, vars, ResultInv, Answered
<1> QED BY <1>1, <1>2, <1>3, <1>4 DEF Next

-----------------------------------------------------------------------------
(* The invariants hold at first.                                             *)
LEMMA InvInit == Init => IInv
<1> SUFFICES ASSUME Init PROVE IInv
  OBVIOUS
<1>1. TypeOK
  BY TypeInit
<1>2. WireInv /\ SentInv /\ NonceInv /\ AnswerInv /\ NoDuplicateNonce
  BY DEF Init, WireInv, SentInv, NonceInv, AnswerInv, NoDuplicateNonce, Calls
<1>3. UsedInv /\ ReturnedInv /\ FailureMeansUnsent /\ ResultInv
  BY DEF Init, UsedInv, ReturnedInv, FailureMeansUnsent, ResultInv, Calls
<1> QED BY <1>1, <1>2, <1>3 DEF IInv, AnyInv

(* Every step keeps the invariant that redirects do not break.               *)
LEMMA AnyStep == AnyInv /\ [Next]_vars => AnyInv'
BY TypeStep, WireStep, NonceStep, AnswerStep, UsedStep, ReturnedStep DEF AnyInv

(* Every step keeps the invariant.                                           *)
LEMMA InvStep ==
    ASSUME Redirects = FALSE, IInv, [Next]_vars
    PROVE  IInv'
BY AnyStep, SentStep, DuplicateStep, OutcomeStep, ResultStep DEF IInv, AnyInv

(* With and without redirects: what is on the wire, what was answered and    *)
(* accepted, and the nonces agree with each other.                           *)
THEOREM SharedInvariance == Spec => []AnyInv
<1>1. Init => AnyInv
  BY InvInit DEF IInv
<1> QED BY <1>1, AnyStep, PTL DEF Spec

(* The inductive invariant: without redirects, what a write's copies, its    *)
(* nonce, the answers and its result say about each other always agrees.     *)
THEOREM Invariance == ASSUME Redirects = FALSE PROVE Spec => []IInv
<1>1. Init => IInv
  BY InvInit
<1>2. IInv /\ [Next]_vars => IInv'
  BY InvStep
<1> QED BY <1>1, <1>2, PTL DEF Spec

(* WritesSentOnce: API.post never sends a write twice.                       *)
THEOREM SentOnce == ASSUME Redirects = FALSE PROVE Spec => []WritesSentOnce
<1>1. IInv => WritesSentOnce
  BY DEF IInv, AnyInv, WireInv, SentInv, WritesSentOnce
<1> QED BY <1>1, Invariance, PTL

(* NoDuplicateNonce: writes that share a NonceManager never use up each      *)
(* other's nonce, however the clock is set and however the calls interleave. *)
THEOREM NoncesFresh == ASSUME Redirects = FALSE PROVE Spec => []NoDuplicateNonce
<1>1. IInv => NoDuplicateNonce
  BY DEF IInv, AnyInv
<1> QED BY <1>1, Invariance, PTL

(* FailureMeansUnsent: API.post ends a write in a plain RequestException     *)
(* only if no attempt of it left the machine.                                *)
THEOREM FailedUnsent == ASSUME Redirects = FALSE PROVE Spec => []FailureMeansUnsent
<1>1. IInv => FailureMeansUnsent
  BY DEF IInv, AnyInv
<1> QED BY <1>1, Invariance, PTL

-----------------------------------------------------------------------------
(* What holds whether or not a server answers with redirects.                *)

(* A set in which a call has at most one copy counts none or one for it.     *)
LEMMA AtMostOneCopy ==
    ASSUME NEW copies, NEW p, \A c, d \in copies : c[1] = p /\ d[1] = p => c = d
    PROVE  Cardinality({c \in copies : c[1] = p}) = IF \E c \in copies : c[1] = p THEN 1 ELSE 0
<1>1. CASE \E c \in copies : c[1] = p
  <2>1. PICK c \in copies : c[1] = p
    BY <1>1
  <2>2. {d \in copies : d[1] = p} = {c}
    BY <2>1
  <2> QED BY <1>1, <2>2, FS_Singleton
<1>2. CASE ~\E c \in copies : c[1] = p
  <2>1. {d \in copies : d[1] = p} = {}
    BY <1>2
  <2> QED BY <1>2, <2>1, FS_EmptySet
<1> QED BY <1>1, <1>2

(* ExecutedOnce: redirects can make API.post send a write again, but it is   *)
(* signed once and so takes effect at most once; one that returns did.       *)
THEOREM WritesExecutedOnce == Spec => []ExecutedOnce
<1>1. AnyInv => ExecutedOnce
  <2> SUFFICES ASSUME AnyInv, NEW p \in Writes
               PROVE  Effects(p) <= 1 /\ (result[p] = "returned" => Effects(p) = 1)
    BY DEF ExecutedOnce
  <2>1. \A c, d \in accepted : c[1] = p /\ d[1] = p => c = d
    BY DEF AnyInv, UsedInv
  <2>2. Effects(p) = IF \E c \in accepted : c[1] = p THEN 1 ELSE 0
    BY <2>1, AtMostOneCopy DEF Effects
  <2>3. result[p] = "returned" => \E c \in accepted : c[1] = p
    BY DEF AnyInv, ReturnedInv
  <2> QED BY <2>2, <2>3
<1> QED BY <1>1, SharedInvariance, PTL

(* The nonce of a write whose copy was refused as DUPLICATE_NONCE was used   *)
(* up by an earlier copy of that write, or by one of another manager.        *)
NotOthersNonce ==
    \A a \in answers : a.response = "duplicate" =>
        \E c \in accepted :
            /\ nonce[c[1]] = nonce[a.copy[1]]
            /\ c[1] = a.copy[1] \/ ManagerOf[c[1]] # ManagerOf[a.copy[1]]

(* No step makes a write lose its nonce to another write of its manager.     *)
LEMMA OthersStep ==
    ASSUME AnyInv, NotOthersNonce, [Next]_vars
    PROVE  NotOthersNonce'
<1> USE DEF AnyInv
<1>1. ASSUME NEW p \in Calls, StartWrite(p) PROVE NotOthersNonce'
  <2>1. pc[p] = "new" /\ p \in Writes /\ UNCHANGED <<answers, accepted>>
        /\ nonce' = [nonce EXCEPT ![p] = NextNonce(ManagerOf[p])]
    BY <1>1 DEF StartWrite, remote
  <2>2. \A c \in sent : c[1] \in Writes => nonce'[c[1]] = nonce[c[1]]
    BY <2>1 DEF WireInv, TypeOK
  <2>3. \A a \in answers : a.response = "duplicate" => nonce'[a.copy[1]] = nonce[a.copy[1]]
    BY <2>2 DEF WireInv, AnswerInv
  <2>4. \A c \in accepted : nonce'[c[1]] = nonce[c[1]]
    BY <2>2 DEF WireInv
  <2> QED BY <2>1, <2>3, <2>4 DEF NotOthersNonce
<1>2. ASSUME NEW p \in Calls, ClientStep(p) \/ StartRead(p) PROVE NotOthersNonce'
  BY <1>2, CallStep DEF NotOthersNonce
<1>3. ASSUME NEW c \in Transit, NEW r \in Responses,
             AcceptWrite(c, r) \/ RefuseWrite(c, r) \/ AnswerRead(c, r)
      PROVE  NotOthersNonce'
  <2> DEFINE new == [copy |-> c, response |-> r]
  <2>1. /\ answers' = answers \cup {new} /\ new.copy = c /\ new.response = r
        /\ nonce' = nonce /\ accepted \subseteq accepted' /\ c \in sent
    BY <1>3, ServerStep
  <2>2. r = "duplicate" =>
          \E d \in accepted : /\ nonce[d[1]] = nonce[c[1]]
                              /\ d[1] = c[1] \/ ManagerOf[d[1]] # ManagerOf[c[1]]
    <3> SUFFICES ASSUME r = "duplicate"
                 PROVE  \E d \in accepted : /\ nonce[d[1]] = nonce[c[1]]
                                            /\ d[1] = c[1] \/ ManagerOf[d[1]] # ManagerOf[c[1]]
      OBVIOUS
    <3>1. c[1] \in Writes /\ Used(nonce[c[1]])
      BY <1>3 DEF AcceptWrite, RefuseWrite, AnswerRead
    <3>2. PICK d \in accepted : nonce[d[1]] = nonce[c[1]]
      BY <3>1 DEF Used, UsedInv
    <3>3. d[1] \in Writes /\ pc[c[1]] # "new" /\ pc[d[1]] # "new"
      BY <2>1, <3>1 DEF WireInv
    <3> QED BY <3>1, <3>2, <3>3 DEF NonceInv
  <2> HIDE DEF new
  <2> QED BY <2>1, <2>2 DEF NotOthersNonce
<1>4. CASE SetClock \/ UNCHANGED vars
  BY <1>4 DEF SetClock, vars, local, remote, NotOthersNonce
<1> QED BY <1>1, <1>2, <1>3, <1>4 DEF Next

(* Redirects or not, NonceManager.next hands out each nonce once: no write   *)
(* is refused over a nonce that another write of its manager used up.        *)
THEOREM NoncesNotShared == Spec => []NotOthersNonce
<1>1. Init => NotOthersNonce
  BY DEF Init, NotOthersNonce
<1>2. AnyInv /\ NotOthersNonce /\ [Next]_vars => NotOthersNonce'
  BY OthersStep
<1> QED BY <1>1, <1>2, SharedInvariance, PTL DEF Spec

(* A NonceManager has gone past the clock at most as often as it was asked.   *)
DrawnInv ==
    \A m \in Managers : /\ IsFiniteSet(Drawn(m))
                        /\ last[m] <= MaxClock + Cardinality(Drawn(m))

(* A step that starts no write draws no nonce.                               *)
LEMMA NothingDrawn ==
    ASSUME last' = last, \A q \in Writes : pc'[q] # "new" <=> pc[q] # "new"
    PROVE  DrawnInv => DrawnInv'
<1>1. \A m \in Managers : Drawn(m)' = Drawn(m)
  BY DEF Drawn
<1> QED BY <1>1 DEF DrawnInv

(* A write that is started draws one nonce.                                  *)
LEMMA DrawnStep ==
    ASSUME AnyInv, DrawnInv, [Next]_vars
    PROVE  DrawnInv'
<1> USE DEF AnyInv
<1>1. ASSUME NEW p \in Calls, StartWrite(p) PROVE DrawnInv'
  <2> DEFINE k == ManagerOf[p]
  <2>1. /\ p \in Writes /\ pc[p] = "new" /\ pc' = [pc EXCEPT ![p] = "send"]
        /\ last' = [last EXCEPT ![k] = NextNonce(k)] /\ k \in Managers
    BY <1>1, ManagersAssumption DEF StartWrite
  <2>2. \A q \in Writes : pc'[q] = IF q = p THEN "send" ELSE pc[q]
    BY <2>1 DEF TypeOK, Calls
  <2>3. p \notin Drawn(k) /\ Drawn(k)' = Drawn(k) \cup {p}
    BY <2>1, <2>2 DEF Drawn
  <2>4. \A m \in Managers \ {k} : Drawn(m)' = Drawn(m) /\ last'[m] = last[m]
    BY <2>1, <2>2 DEF Drawn, TypeOK
  <2>5. clock \in 0 .. MaxClock /\ last[k] \in Nat /\ last'[k] = NextNonce(k)
    BY <2>1 DEF TypeOK
  <2> HIDE DEF k
  <2>6. IsFiniteSet(Drawn(k)) /\ Cardinality(Drawn(k)) \in Nat
    BY <2>1, FS_CardinalityType DEF DrawnInv
  <2>7. IsFiniteSet(Drawn(k)') /\ Cardinality(Drawn(k)') = Cardinality(Drawn(k)) + 1
    BY <2>3, <2>6, FS_AddElement
  <2>8. last'[k] <= MaxClock + Cardinality(Drawn(k)')
    <3>1. last[k] <= MaxClock + Cardinality(Drawn(k))
      BY <2>1 DEF DrawnInv
    <3> QED BY <2>5, <2>6, <2>7, <3>1, BoundsAssumption DEF NextNonce
  <2>9. \A m \in Managers \ {k} : /\ IsFiniteSet(Drawn(m)')
                                  /\ last'[m] <= MaxClock + Cardinality(Drawn(m)')
    BY <2>4 DEF DrawnInv
  <2> QED BY <2>7, <2>8, <2>9 DEF DrawnInv
<1>2. ASSUME NEW p \in Calls, ClientStep(p) PROVE DrawnInv'
  <2>1. /\ \A q \in Calls \ {p} : pc'[q] = pc[q]
        /\ p \in Writes => pc[p] # "new"
        /\ last' = last
    BY <1>2, CallStep
  <2>2. pc'[p] # "new"
    <3>1. CASE Send(p)
      BY <3>1 DEF Send, TypeOK
    <3>2. CASE pc'[p] \in {"send", "done"}
      BY <3>2
    <3> QED BY <1>2, <3>1, <3>2, CallMoves
  <2>3. \A q \in Writes : pc'[q] # "new" <=> pc[q] # "new"
    BY <2>1, <2>2 DEF Calls
  <2> QED BY <2>1, <2>3, NothingDrawn
<1>3. ASSUME NEW p \in Calls, StartRead(p) PROVE DrawnInv'
  <2>1. \A q \in Writes : pc'[q] = pc[q]
    BY <1>3, CallStep, CallsAssumption DEF StartRead, Calls
  <2>2. last' = last
    BY <1>3 DEF StartRead
  <2> QED BY <2>1, <2>2, NothingDrawn
<1>4. ASSUME NEW c \in Transit, NEW r \in Responses,
             AcceptWrite(c, r) \/ RefuseWrite(c, r) \/ AnswerRead(c, r)
      PROVE  DrawnInv'
  BY <1>4, ServerStep, NothingDrawn
<1>5. CASE SetClock \/ UNCHANGED vars
  BY <1>5, NothingDrawn DEF SetClock, vars, local
<1> QED BY <1>1, <1>2, <1>3, <1>4, <1>5 DEF Next

(* NoncesNearClock: with any number of managers and of calls, and however    *)
(* the clock is set, a nonce is ahead of the clock only by as much as its    *)
(* NonceManager was asked faster than the clock went.                        *)
THEOREM NoncesStayNear == Spec => []NoncesNearClock
<1>1. Init => DrawnInv
  <2> SUFFICES ASSUME Init, NEW m \in Managers
               PROVE  IsFiniteSet(Drawn(m)) /\ last[m] <= MaxClock + Cardinality(Drawn(m))
    BY DEF DrawnInv
  <2>1. Drawn(m) = {} /\ last[m] = 0
    BY DEF Init, Drawn, Calls
  <2> QED BY <2>1, FS_EmptySet, BoundsAssumption
<1>2. AnyInv /\ DrawnInv /\ [Next]_vars => DrawnInv'
  BY DrawnStep
<1>3. AnyInv /\ DrawnInv => NoncesNearClock
  <2> SUFFICES ASSUME AnyInv, DrawnInv, NEW m \in Managers, NEW p \in Writes, p \in Drawn(m)
               PROVE  nonce[p] <= MaxClock + Cardinality(Drawn(m))
    BY DEF NoncesNearClock
  <2>1. nonce[p] <= last[m] /\ nonce[p] \in Nat /\ last[m] \in Nat
    BY DEF Drawn, AnyInv, NonceInv, TypeOK
  <2>2. last[m] <= MaxClock + Cardinality(Drawn(m)) /\ Cardinality(Drawn(m)) \in Nat
    BY FS_CardinalityType DEF DrawnInv
  <2> QED BY <2>1, <2>2, BoundsAssumption
<1> QED BY <1>1, <1>2, <1>3, SharedInvariance, PTL DEF Spec

(* A retry is counted, and the end of a call is final: what a step of a call *)
(* does to the steps it has left.                                            *)
LEMMA ClientStepsDwindle ==
    ASSUME TypeOK, NEW p \in Calls, ClientStep(p)
    PROVE  StepsLeft(p)' < StepsLeft(p)
<1> USE BoundsAssumption
<1>1. attempt[p] \in Nat /\ MaxRetries \in Nat /\ attempt[p] <= MaxRetries
  BY DEF TypeOK
<1>2. ASSUME pc[p] \in {"send", "wait"}, MayRetry(p), Retry(p)
      PROVE  StepsLeft(p)' < StepsLeft(p)
  <2>1. attempt'[p] = attempt[p] + 1 /\ pc'[p] = "send"
    BY <1>2 DEF Retry, TypeOK
  <2> QED BY <1>1, <1>2, <2>1 DEF StepsLeft, MayRetry
<1>3. ASSUME pc[p] \in {"send", "wait"}, NEW outcome, Finish(p, outcome)
      PROVE  StepsLeft(p)' < StepsLeft(p)
  <2>1. pc'[p] = "done"
    BY <1>3 DEF Finish, TypeOK
  <2> QED BY <1>1, <1>3, <2>1 DEF StepsLeft
<1>4. ASSUME NEW f \in Failures, Fails(p, f), pc[p] \in {"send", "wait"}
      PROVE  StepsLeft(p)' < StepsLeft(p)
  BY <1>2, <1>3, <1>4 DEF Fails
<1>5. ASSUME NEW r \in Responses, Respond(p, r)
      PROVE  StepsLeft(p)' < StepsLeft(p)
  BY <1>2, <1>3, <1>5 DEF Respond
<1>6. ASSUME Send(p) PROVE StepsLeft(p)' < StepsLeft(p)
  <2>1. pc[p] = "send" /\ pc'[p] = "wait" /\ attempt' = attempt
    BY <1>6 DEF Send, TypeOK
  <2> QED BY <1>1, <2>1 DEF StepsLeft
<1> QED BY <1>4, <1>5, <1>6 DEF ClientStep, FailBeforeSending, FailAfterSending,
                                FailAfterRedirect, Failures

(* What a step changes of the calls it is not about.                         *)
LEMMA DwindleStep ==
    ASSUME TypeOK, [Next]_vars, NEW p \in Calls
    PROVE  /\ StepsLeft(p)' <= StepsLeft(p)
           /\ ClientStep(p) => StepsLeft(p)' < StepsLeft(p)
<1> USE BoundsAssumption DEF local
<1>1. attempt[p] \in Nat /\ MaxRetries \in Nat /\ attempt[p] <= MaxRetries
      /\ pc[p] \in {"new", "send", "wait", "done"}
  BY DEF TypeOK
<1>2. StepsLeft(p) \in Int
  BY <1>1 DEF StepsLeft
<1>3. ASSUME pc'[p] = pc[p], attempt'[p] = attempt[p]
      PROVE  StepsLeft(p)' = StepsLeft(p)
  BY <1>3 DEF StepsLeft
<1>4. StepsLeft(p)' \in Int
  <2>1. TypeOK'
    BY TypeStep
  <2>2. attempt'[p] \in Nat /\ pc'[p] \in {"new", "send", "wait", "done"}
    BY <2>1 DEF TypeOK
  <2> QED BY <1>1, <2>2 DEF StepsLeft
<1>5. ASSUME NEW q \in Calls, ClientStep(q) PROVE StepsLeft(p)' <= StepsLeft(p)
  <2>1. CASE q = p
    BY <1>2, <1>4, <1>5, <2>1, ClientStepsDwindle
  <2>2. CASE q # p
    BY <1>2, <1>3, <1>5, <2>2, CallStep
  <2> QED BY <2>1, <2>2
<1>6. ASSUME NEW q \in Calls, StartWrite(q) \/ StartRead(q) PROVE StepsLeft(p)' <= StepsLeft(p)
  <2>1. pc' = [pc EXCEPT ![q] = "send"] /\ attempt' = attempt /\ pc[q] = "new"
    BY <1>6 DEF StartWrite, StartRead
  <2>2. CASE q = p
    <3>1. pc'[p] = "send"
      BY <2>1, <2>2 DEF TypeOK
    <3> QED BY <1>1, <2>1, <2>2, <3>1 DEF StepsLeft
  <2>3. CASE q # p
    <3>1. pc'[p] = pc[p]
      BY <2>1, <2>3 DEF TypeOK
    <3> QED BY <1>2, <1>3, <2>1, <3>1
  <2> QED BY <2>2, <2>3
<1>7. ASSUME UNCHANGED local PROVE StepsLeft(p)' <= StepsLeft(p)
  <2>1. StepsLeft(p)' = StepsLeft(p)
    BY <1>3, <1>7
  <2> QED BY <1>2, <2>1
<1> QED BY <1>5, <1>6, <1>7, ClientStepsDwindle
        DEF Next, vars, SetClock, AcceptWrite, RefuseWrite, AnswerRead

(* CallsDwindle: the retry rules bound every call, whatever the network, the *)
(* gateway and the clock do, redirects included.                             *)
THEOREM CallsBounded == Spec => CallsDwindle
<1>1. TypeOK /\ [Next]_vars =>
        [\A p \in Calls : /\ StepsLeft(p)' <= StepsLeft(p)
                          /\ ClientStep(p) => StepsLeft(p)' < StepsLeft(p)]_vars
  BY DwindleStep
<1> QED BY <1>1, TypeCorrect, PTL DEF Spec, CallsDwindle

-----------------------------------------------------------------------------
(* WritePath implements AtMostOnce.                                          *)
TookEffect(p) == \E c \in accepted : c[1] = p

(* The effects of a write are one if a copy of it was accepted, none         *)
(* otherwise.                                                                *)
LEMMA EffectsCount ==
    /\ IInv => \A p \in Writes : Effects(p) = IF TookEffect(p) THEN 1 ELSE 0
    /\ IInv' => \A p \in Writes : Effects(p)' = IF TookEffect(p)' THEN 1 ELSE 0
<1>1. ASSUME IInv, NEW p \in Writes PROVE Effects(p) = IF TookEffect(p) THEN 1 ELSE 0
  <2>1. \A c, d \in accepted : c[1] = p /\ d[1] = p => c = d
    BY <1>1 DEF IInv, AnyInv, WireInv, SentInv
  <2> QED BY <2>1, AtMostOneCopy DEF Effects, TookEffect
<1>2. ASSUME IInv', NEW p \in Writes PROVE Effects(p)' = IF TookEffect(p)' THEN 1 ELSE 0
  <2>1. \A c, d \in accepted' : c[1] = p /\ d[1] = p => c = d
    BY <1>2 DEF IInv, AnyInv, WireInv, SentInv
  <2> QED BY <2>1, AtMostOneCopy DEF Effects, TookEffect
<1> QED BY <1>1, <1>2

(* A call that learns its outcome is told the truth.                         *)
LEMMA TellsTruth ==
    ASSUME IInv, IInv', NEW p \in Writes, ClientStep(p)
    PROVE  /\ ToldOf(p) = "nothing"
           /\ ToldOf(p)' = "success" => TookEffect(p)
           /\ ToldOf(p)' = "failure" => ~TookEffect(p)
           /\ ToldOf(p)' \in {"nothing", "success", "failure", "unknown"}
<1>1. result[p] = "none"
  BY DEF IInv, AnyInv, ResultInv, ClientStep, FailBeforeSending, FailAfterSending, FailAfterRedirect,
         Send, Respond
<1>2. accepted' = accepted
  BY CallStep DEF IInv, AnyInv, Calls
<1>3. result'[p] = "returned" => TookEffect(p)
  BY <1>2 DEF IInv, AnyInv, ResultInv, TookEffect
<1>4. result'[p] = "ClientError" => ~TookEffect(p)
  BY <1>2 DEF IInv, AnyInv, ResultInv, TookEffect
<1>5. result'[p] = "RequestException" => ~TookEffect(p)
  BY <1>2 DEF IInv, AnyInv, FailureMeansUnsent, WireInv, SentInv, TookEffect
<1> QED BY <1>1, <1>3, <1>4, <1>5 DEF ToldOf

(* A copy the server accepts late belongs to a call that was told nothing    *)
(* about its outcome.                                                        *)
LEMMA AcceptedInTime ==
    ASSUME IInv, NEW c \in Transit, NEW r \in Responses, AcceptWrite(c, r)
    PROVE  /\ ~TookEffect(c[1])
           /\ ToldOf(c[1]) \in {"nothing", "unknown"}
           /\ accepted' = accepted \cup {c} /\ result' = result /\ c[1] \in Writes
<1>1. c[1] \in Writes /\ accepted' = accepted \cup {c} /\ result' = result
  BY DEF AcceptWrite, local
<1>2. c \in sent /\ c \notin accepted /\ ~Answered(c)
  BY ServerStep DEF IInv, AnyInv
<1>3. ~TookEffect(c[1])
  BY <1>1, <1>2 DEF IInv, AnyInv, WireInv, SentInv, TookEffect
<1>4. result[c[1]] \notin {"returned", "ClientError", "RequestException"}
  BY <1>1, <1>2, <1>3 DEF IInv, AnyInv, ResultInv, FailureMeansUnsent, TookEffect
<1> QED BY <1>1, <1>3, <1>4 DEF ToldOf

(* Initial states map to initial states of AtMostOnce.                       *)
LEMMA RefinesInit == Init => Promise!Init
<1> SUFFICES ASSUME Init PROVE Promise!Init
  OBVIOUS
<1>1. \A p \in Writes : Effects(p) = 0
  BY InvInit, EffectsCount DEF Init, TookEffect
<1>2. \A p \in Writes : ToldOf(p) = "nothing"
  BY DEF Init, ToldOf, Calls
<1> QED BY <1>1, <1>2 DEF Promise!Init

(* Every step maps to a step of AtMostOnce or to a stutter.                  *)
LEMMA RefinesStep ==
    ASSUME IInv, IInv', [Next]_vars
    PROVE  [Promise!Next]_<<[p \in Writes |-> Effects(p)], [p \in Writes |-> ToldOf(p)]>>
<1> DEFINE effects == [p \in Writes |-> Effects(p)]
           told == [p \in Writes |-> ToldOf(p)]
<1>1. ASSUME UNCHANGED <<result, accepted>> PROVE UNCHANGED <<effects, told>>
  BY <1>1 DEF Effects, ToldOf
<1>2. ASSUME NEW p \in Writes, ClientStep(p)
      PROVE  [Promise!Next]_<<effects, told>>
  <2>1. accepted' = accepted /\ \A q \in Writes \ {p} : result'[q] = result[q]
    BY <1>2, CallStep DEF IInv, AnyInv, Calls
  <2>2. effects' = effects
    BY <2>1 DEF Effects
  <2>3. told' = [told EXCEPT ![p] = ToldOf(p)']
    BY <2>1 DEF ToldOf
  <2>4. CASE ToldOf(p)' = "nothing"
    <3>1. told' = told
      BY <1>2, <2>3, <2>4, TellsTruth
    <3> QED BY <2>2, <3>1
  <2>5. CASE ToldOf(p)' # "nothing"
    <3>1. Promise!Tell(p, ToldOf(p)')
      BY <1>2, <2>2, <2>3, TellsTruth, EffectsCount DEF Promise!Tell
    <3> QED BY <1>2, <2>5, <3>1, TellsTruth DEF Promise!Next, Promise!Told
  <2> QED BY <2>4, <2>5
<1>3. ASSUME NEW p \in Calls, p \notin Writes, ClientStep(p)
      PROVE  UNCHANGED <<effects, told>>
  <2>1. accepted' = accepted /\ \A q \in Writes : result'[q] = result[q]
    BY <1>3, CallStep DEF IInv, AnyInv, Calls
  <2> QED BY <2>1 DEF Effects, ToldOf
<1>4. ASSUME NEW c \in Transit, NEW r \in Responses, AcceptWrite(c, r)
      PROVE  [Promise!Next]_<<effects, told>>
  <2> DEFINE p == c[1]
  <2>1. /\ ~TookEffect(p) /\ ToldOf(p) \in {"nothing", "unknown"} /\ p \in Writes
        /\ accepted' = accepted \cup {c} /\ result' = result
    BY <1>4, AcceptedInTime
  <2>2. told' = told
    BY <2>1 DEF ToldOf
  <2>3. effects[p] = 0
    BY <2>1, EffectsCount
  <2>4. Effects(p)' = 1
    BY <2>1, EffectsCount DEF TookEffect
  <2>5. \A q \in Writes \ {p} : {d \in accepted' : d[1] = q} = {d \in accepted : d[1] = q}
    BY <2>1
  <2>6. effects' = [effects EXCEPT ![p] = 1]
    BY <2>1, <2>4, <2>5 DEF Effects
  <2>7. Promise!TakeEffect(p)
    BY <2>1, <2>2, <2>3, <2>6 DEF Promise!TakeEffect
  <2> QED BY <2>1, <2>7 DEF Promise!Next
<1>5. CASE \E p \in Calls : StartWrite(p) \/ StartRead(p)
  BY <1>1, <1>5 DEF StartWrite, StartRead, remote
<1>6. CASE SetClock \/ UNCHANGED vars
  BY <1>1, <1>6 DEF SetClock, vars, local, remote
<1>7. CASE \E c \in Transit, r \in Responses : RefuseWrite(c, r) \/ AnswerRead(c, r)
  BY <1>1, <1>7 DEF RefuseWrite, AnswerRead, local
<1> QED BY <1>2, <1>3, <1>4, <1>5, <1>6, <1>7 DEF Next

(* KeepsPromise: without redirects every behaviour is one of AtMostOnce.  A  *)
(* write takes effect at most once, and what API.post tells its caller about *)
(* it (success, failure or unknown) is true and stays true.                  *)
THEOREM Refinement == ASSUME Redirects = FALSE PROVE Spec => KeepsPromise
<1>1. Init => Promise!Init
  BY RefinesInit
<1>2. IInv /\ IInv' /\ [Next]_vars =>
        [Promise!Next]_<<[p \in Writes |-> Effects(p)], [p \in Writes |-> ToldOf(p)]>>
  BY RefinesStep
<1>3. Spec => []IInv
  BY Invariance
<1> QED BY <1>1, <1>2, <1>3, PTL DEF Spec, KeepsPromise, Promise!Spec
=============================================================================
