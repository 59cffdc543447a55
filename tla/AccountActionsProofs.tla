------------------------ MODULE AccountActionsProofs ------------------------
(* Proofs about AccountActions: what a client signs is what the server       *)
(* recovers, and what the client keeps of the answers is true, for every     *)
(* configuration, set of requests and number of keys.                        *)
EXTENDS AccountActions, TLAPS

(* The posts are a sequence, with a reply slot for each.                     *)
ToldValues == {"nothing", "returned", "failed", "unknown"}
ResultValues == {"pending", "refused", "rejected", "ok"}

PostsInv ==
    /\ \E S : posted \in Seq(S)
    /\ told \in [DOMAIN posted -> ToldValues]
    /\ result \in [DOMAIN posted -> ResultValues]

(* A caller knows an outcome only after the server has settled it, and a     *)
(* caller that was answered holds the key it was answered with.              *)
ToldInv ==
    \A n \in DOMAIN posted :
        /\ told[n] = "returned" => result[n] \in {"ok", "rejected"}
        /\ told[n] = "failed" => result[n] = "refused"
        /\ told[n] = "returned" /\ posted[n].key # None => posted[n].key \in held

(* A posted approval names the address of the key it was posted for, or one  *)
(* that is no generated key's.                                               *)
ApprovalInv ==
    \A n \in DOMAIN posted :
        /\ posted[n].wallet \in held /\ posted[n].key \in AgentKeys \cup {None}
        /\ posted[n].action.type = "approveAgent" =>
              /\ posted[n].action.agentAddress \in Addresses
              /\ \A k \in AgentKeys : posted[n].action.agentAddress = AddressOf[k] => posted[n].key = k

(* A registration that succeeded made the account; a slot was filled by an   *)
(* approval that succeeded.                                                  *)
RegisteredInv ==
    \A n \in DOMAIN posted :
        posted[n].action.type = "registerAccount" /\ result[n] = "ok" => account # None
SlotInv ==
    \A s \in Slots, k \in AgentKeys :
        slots[s] = AddressOf[k] => \E n \in DOMAIN posted : posted[n].key = k /\ result[n] = "ok"

AInv == TypeOK /\ PostsInv /\ ToldInv /\ ApprovalInv /\ RegisteredInv /\ SlotInv
            /\ AccountIdKept /\ Recovers

-----------------------------------------------------------------------------
(* Signing: what is signed is what is sent.                                  *)

(* Client and server pick the same struct for an action.                     *)
LEMMA ServerReadsStruct ==
    ASSUME NEW action
    PROVE  ServerFields(action) = StructFields(action)
BY DEF ServerFields, StructFields, TypedWithField, Typed

(* Filling in the defaults keeps the type of an action.                      *)
LEMMA DefaultsKeepType ==
    ASSUME NEW action, "type" \in DOMAIN action
    PROVE  WithDefaults(action).type = action.type
BY DEF WithDefaults

(* An envelope built over the filled-in action, under the chain id that the  *)
(* server's environment has, recovers to its wallet, whatever signature      *)
(* chain id the client is configured with.                                   *)
LEMMA EnvelopeRecovers ==
    ASSUME NEW action, "type" \in DOMAIN action, Encodable(WithDefaults(action)),
           NEW e, NEW w, NEW signatureChain, NEW chain,
           e.action = WithDefaults(action),
           e.signature = Sign(w, action, e.nonce, signatureChain, chain),
           e.signatureChainId = IF IsTypedAction(action.type) THEN signatureChain ELSE NoChain
    PROVE  RecoversTo(e, chain, w)
<1> DEFINE d == WithDefaults(action)
<1>1. d.type = action.type
  BY DefaultsKeepType
<1> HIDE DEF d
<1>2. ServerFields(d) = StructFields(d)
  BY ServerReadsStruct
<1>3. Readable(d)
  BY <1>2 DEF Readable, Encodable, d
<1>4. Digest(d, e.nonce, signatureChain, chain) = ServerDigest(e, chain)
  BY <1>1, <1>2 DEF Digest, ServerDigest, Domain, d
<1>5. e.action = d
  BY DEF d
<1>6. e.signature = [by |-> w, over |-> Digest(d, e.nonce, signatureChain, chain)]
  BY DEF Sign, d
<1> HIDE DEF d
<1>7. e.signature.by = w /\ e.signature.over = Digest(d, e.nonce, signatureChain, chain)
  BY <1>6
<1> QED BY <1>3, <1>4, <1>5, <1>7 DEF RecoversTo

(* No action is signed as a struct that is called Agent.                     *)
LEMMA AgentIsNoStruct == ~IsTypedAction("Agent")
BY DEF IsTypedAction, Typed

(* A signature that recovers under an envelope was made for the request in   *)
(* it, under its nonce.                                                      *)
LEMMA DigestBinds ==
    ASSUME NEW d, NEW nonce, NEW signatureChain, NEW chain, NEW e, NEW environment, NEW w,
           RecoversTo(e, environment, w),
           e.signature.over = Digest(d, nonce, signatureChain, chain)
    PROVE  SameRequest(e.action, d) /\ e.nonce = nonce
<1> DEFINE a == e.action
           given == IF IsTypedAction(d.type) THEN StructHash(StructFields(d), d, nonce)
                    ELSE ActionHash(d, nonce)
           found == IF IsTypedAction(a.type) THEN StructHash(ServerFields(a), a, e.nonce)
                    ELSE ActionHash(a, e.nonce)
<1>1. given = found
  <2>1. Digest(d, nonce, signatureChain, chain) = ServerDigest(e, environment)
    BY DEF RecoversTo
  <2>2. Digest(d, nonce, signatureChain, chain).hash = given
    BY DEF Digest
  <2>3. ServerDigest(e, environment).hash = found
    BY DEF ServerDigest
  <2> QED BY <2>1, <2>2, <2>3
<1>2. given.nonce = nonce /\ found.nonce = e.nonce
  BY DEF StructHash, ActionHash
<1>3. /\ given.type = IF IsTypedAction(d.type) THEN d.type ELSE "Agent"
      /\ found.type = IF IsTypedAction(a.type) THEN a.type ELSE "Agent"
  BY DEF StructHash, ActionHash
<1>4. IsTypedAction(d.type) <=> IsTypedAction(a.type)
  BY <1>1, <1>3, AgentIsNoStruct
<1>5. CASE IsTypedAction(d.type)
  <2>1. a.type = d.type
    BY <1>1, <1>3, <1>4, <1>5
  <2>2. given.struct = Meaning(d)
    BY <1>5, ServerReadsStruct DEF StructHash, Meaning
  <2>3. found.struct = Meaning(a)
    BY <1>4, <1>5 DEF StructHash, Meaning
  <2> QED BY <1>1, <1>2, <2>1, <2>2, <2>3 DEF SameRequest
<1>6. CASE ~IsTypedAction(d.type)
  <2>1. given.struct = d /\ found.struct = a
    BY <1>4, <1>6 DEF ActionHash
  <2> HIDE DEF given, found
  <2>2. a = d
    BY <1>1, <2>1
  <2> QED BY <1>1, <1>2, <2>2 DEF SameRequest
<1> QED BY <1>5, <1>6

-----------------------------------------------------------------------------
(* The invariant holds before the first call.                                *)
LEMMA AccountInit == Init => AInv
<1> SUFFICES ASSUME Init PROVE AInv
  OBVIOUS
<1>1. posted = <<>> /\ told = <<>> /\ result = <<>> /\ DOMAIN posted = {}
  BY DEF Init
<1>2. \E S : posted \in Seq(S)
  <2>1. posted \in Seq({})
    BY <1>1
  <2> QED BY <2>1
<1>3. TypeOK
  <2>1. config \in Configs /\ held \subseteq Wallets
    BY DEF Init, Wallets
  <2>2. account_id \in [Wallets -> AccountIds \cup {None}]
    BY DEF Init
  <2>3. Len(posted) <= MaxCalls
    BY <1>1, BoundsAssumption
  <2>4. /\ told \in [DOMAIN posted -> {"nothing", "returned", "failed", "unknown"}]
        /\ result \in [DOMAIN posted -> {"pending", "refused", "rejected", "ok"}]
    BY <1>1
  <2>5. account \in AccountIds \cup {None} /\ slots \in [Slots -> Addresses \cup {None}]
    BY DEF Init
  <2> QED BY <1>1, <2>1, <2>2, <2>3, <2>4, <2>5 DEF TypeOK
<1>4. SlotInv
  BY AddressesAssumption DEF Init, SlotInv, Wallets
<1>5. AccountIdKept /\ Recovers
  BY <1>1 DEF Init, AccountIdKept, Recovers
<1> QED BY <1>1, <1>2, <1>3, <1>4, <1>5 DEF AInv, PostsInv, ToldInv, ApprovalInv, RegisteredInv

(* Posting adds one request, unanswered and unsettled.                       *)
LEMMA PostAdds ==
    ASSUME AInv, NEW w, NEW action, NEW key, Post(w, action, key)
    PROVE  LET n == Len(posted) + 1 IN
           /\ n \in Nat /\ n \notin DOMAIN posted /\ DOMAIN posted' = DOMAIN posted \cup {n}
           /\ \A i \in DOMAIN posted :
                posted'[i] = posted[i] /\ told'[i] = told[i] /\ result'[i] = result[i]
           /\ /\ posted'[n].wallet = w /\ posted'[n].key = key
              /\ posted'[n].action = Sent(action)
              /\ posted'[n].nonce = n
              /\ posted'[n].signature = Sign(w, action, n, config.signature_chain_id, ChainId)
              /\ posted'[n].signatureChainId = EnvelopeChain(action)
           /\ told'[n] = "nothing" /\ result'[n] = "pending"
           /\ n <= MaxCalls /\ PostsInv'
<1> DEFINE n == Len(posted) + 1
           e == [wallet |-> w, key |-> key, action |-> Sent(action), nonce |-> n,
                 signature |-> Sign(w, action, n, config.signature_chain_id, ChainId),
                 signatureChainId |-> EnvelopeChain(action)]
<1>1. /\ posted' = Append(posted, e) /\ told' = Append(told, "nothing")
      /\ result' = Append(result, "pending") /\ Len(posted) < MaxCalls
  BY DEF Post
<1>2. PICK S : posted \in Seq(S)
  BY DEF AInv, PostsInv
<1>3. told \in Seq(ToldValues) /\ Len(told) = Len(posted)
  BY <1>2 DEF AInv, PostsInv
<1>4. result \in Seq(ResultValues) /\ Len(result) = Len(posted)
  BY <1>2 DEF AInv, PostsInv
<1>5. posted \in Seq(S \cup {e}) /\ e \in S \cup {e}
  BY <1>2
<1>6. posted' \in Seq(S \cup {e})
  BY <1>1, <1>5
<1>7. Len(posted) \in Nat /\ DOMAIN posted = 1 .. Len(posted) /\ DOMAIN posted' = 1 .. n
  BY <1>1, <1>5
<1>8. \A i \in DOMAIN posted : posted'[i] = posted[i] /\ told'[i] = told[i] /\ result'[i] = result[i]
  BY <1>1, <1>3, <1>4, <1>5
<1>9. posted'[n] = e /\ told'[n] = "nothing" /\ result'[n] = "pending"
  BY <1>1, <1>3, <1>4, <1>5
<1>10. told' \in [DOMAIN posted' -> ToldValues] /\ result' \in [DOMAIN posted' -> ResultValues]
  <2>1. told' \in Seq(ToldValues) /\ Len(told') = n
    BY <1>1, <1>3 DEF ToldValues
  <2>2. result' \in Seq(ResultValues) /\ Len(result') = n
    BY <1>1, <1>4 DEF ResultValues
  <2> QED BY <1>7, <2>1, <2>2
<1>11. PostsInv'
  BY <1>6, <1>10 DEF PostsInv
<1>12. n \in Nat /\ n \notin DOMAIN posted /\ DOMAIN posted' = DOMAIN posted \cup {n} /\ n <= MaxCalls
  BY <1>1, <1>7, BoundsAssumption
<1> QED BY <1>8, <1>9, <1>11, <1>12

(* Every action that a call posts has a type, and names in an approval its   *)
(* own key or no generated one.                                              *)
Sound(action, key) ==
    /\ "type" \in DOMAIN action
    /\ key \in AgentKeys \cup {None}
    /\ action.type = "approveAgent" /\ "agentAddress" \in DOMAIN action =>
          /\ action.agentAddress \in Addresses
          /\ \A k \in AgentKeys : action.agentAddress = AddressOf[k] => key = k

(* Posting a request whose signature recovers keeps the invariant.           *)
LEMMA PostStep ==
    ASSUME AInv, NEW w, NEW action, NEW key, Sound(action, key), Post(w, action, key)
    PROVE  AInv'
<1> DEFINE n == Len(posted) + 1
<1>1. /\ n \notin DOMAIN posted /\ DOMAIN posted' = DOMAIN posted \cup {n}
      /\ \A i \in DOMAIN posted :
            posted'[i] = posted[i] /\ told'[i] = told[i] /\ result'[i] = result[i]
      /\ posted'[n].wallet = w /\ posted'[n].key = key /\ posted'[n].action = Sent(action)
      /\ posted'[n].nonce = n
      /\ posted'[n].signature = Sign(w, action, n, config.signature_chain_id, ChainId)
      /\ posted'[n].signatureChainId = EnvelopeChain(action)
      /\ told'[n] = "nothing" /\ result'[n] = "pending"
      /\ n <= MaxCalls /\ n \in Nat
  BY PostAdds
<1>2. PostsInv'
  BY PostAdds
<1>3. /\ UNCHANGED <<config, account_id, held, account, slots>>
      /\ w \in held /\ Encodable(WithDefaults(action))
  BY DEF Post, client
<1> HIDE DEF n
<1>4. TypeOK'
  <2>1. Len(posted') = n
    <3>1. PICK S : posted' \in Seq(S)
      BY <1>2 DEF PostsInv
    <3>2. PICK R : posted \in Seq(R)
      BY DEF AInv, PostsInv
    <3> QED BY <1>1, <3>1, <3>2 DEF n
  <2>2. told' \in [DOMAIN posted' -> ToldValues] /\ result' \in [DOMAIN posted' -> ResultValues]
    BY <1>2 DEF PostsInv
  <2>3. \A i \in DOMAIN posted' : posted'[i].wallet \in held' /\ posted'[i].key \in AgentKeys \cup {None}
    BY <1>1, <1>3 DEF AInv, TypeOK, Sound
  <2> QED BY <1>1, <1>3, <2>1, <2>2, <2>3 DEF AInv, TypeOK, ToldValues, ResultValues
<1>5. ToldInv'
  BY <1>1, <1>3 DEF AInv, ToldInv
<1>6. ApprovalInv'
  <2>1. Sent(action) = WithDefaults(action) /\ Sent(action).type = action.type
    BY DefaultsKeepType DEF Sent, Sound
  <2>2. ASSUME action.type = "approveAgent"
        PROVE  "agentAddress" \in DOMAIN action /\ Sent(action).agentAddress = action.agentAddress
    <3>1. "agentAddress" \in DOMAIN WithDefaults(action)
      BY <1>3, <2>1, <2>2 DEF Encodable, StructFields, Typed
    <3>2. DOMAIN Defaults = {"agentName", "validUntil"}
      BY DEF Defaults
    <3>3. "agentAddress" \in DOMAIN action
      BY <2>2, <3>1, <3>2 DEF WithDefaults
    <3> QED BY <2>1, <2>2, <3>3 DEF WithDefaults
  <2>3. Sent(action).type = "approveAgent" =>
          /\ Sent(action).agentAddress \in Addresses
          /\ \A k \in AgentKeys : Sent(action).agentAddress = AddressOf[k] => key = k
    BY <2>1, <2>2 DEF Sound
  <2> QED BY <1>1, <1>3, <2>3 DEF AInv, ApprovalInv, Sound
<1>7. RegisteredInv'
  BY <1>1, <1>3 DEF AInv, RegisteredInv
<1>8. SlotInv'
  BY <1>1, <1>3 DEF AInv, SlotInv
<1>9. AccountIdKept'
  <2>1. \A i \in DOMAIN posted : ReplyId(i)' = ReplyId(i)
    BY <1>1, <1>3 DEF ReplyId
  <2>2. told'[n] # "returned"
    BY <1>1
  <2> QED BY <1>1, <1>3, <2>1, <2>2 DEF AInv, AccountIdKept
<1>10. Recovers'
  <2>1. \A i \in DOMAIN posted : Recovered(i)' = Recovered(i)
    BY <1>1, <1>3 DEF Recovered
  <2>2. WellConfigured' <=> WellConfigured
    <3>1. config' = config
      BY <1>3
    <3> QED BY <3>1 DEF WellConfigured, ChainId, ChainIdFor
  <2>3. WellConfigured => RecoversTo(posted'[n], config'.environment, posted'[n].wallet)
    <3> SUFFICES ASSUME WellConfigured PROVE RecoversTo(posted'[n], config'.environment, posted'[n].wallet)
      OBVIOUS
    <3> DEFINE p == posted'[n]
    <3>2. p.action = WithDefaults(action)
      BY <1>1 DEF Sent
    <3>3. p.signature = Sign(w, action, p.nonce, config.signature_chain_id, ChainId)
      BY <1>1
    <3>4. p.signatureChainId = IF IsTypedAction(action.type) THEN config.signature_chain_id ELSE NoChain
      BY <1>1 DEF EnvelopeChain
    <3>5. "type" \in DOMAIN action
      BY DEF Sound
    <3> HIDE DEF p
    <3>6. RecoversTo(p, ChainId, w)
      BY <1>3, <3>2, <3>3, <3>4, <3>5, EnvelopeRecovers
    <3>1. RecoversTo(posted'[n], ChainId, w)
      BY <3>6 DEF p
    <3> QED BY <1>1, <1>3, <3>1 DEF WellConfigured
  <2>4. ASSUME WellConfigured, NEW i \in DOMAIN posted'
        PROVE  RecoversTo(posted'[i], config'.environment, posted'[i].wallet)
    <3>1. CASE i \in DOMAIN posted
      BY <1>1, <2>1, <2>4, <3>1 DEF AInv, Recovers, Recovered
    <3>2. CASE i = n
      BY <2>3, <2>4, <3>2
    <3> QED BY <1>1, <2>4, <3>1, <3>2
  <2> QED BY <2>2, <2>4 DEF Recovers, Recovered
<1> QED BY <1>2, <1>4, <1>5, <1>6, <1>7, <1>8, <1>9, <1>10 DEF AInv

(* The three kinds of call post a sound action.                              *)
LEMMA CallSound ==
    ASSUME NEW w, NEW r \in Requests
    PROVE  Sound(Built(w, r), None)
<1> DEFINE b == Built(w, r)
<1>1. "type" \in DOMAIN r /\ "type" \notin ConvertedFields(r) /\ "agentAddress" \notin ConvertedFields(r)
  BY ActionsAssumption DEF ConvertedFields, IdFields
<1>2. "type" \in DOMAIN b /\ DOMAIN b \subseteq DOMAIN r \cup {"address"}
  BY <1>1 DEF Built
<1>3. ASSUME "agentAddress" \in DOMAIN b
      PROVE  b.agentAddress \in Addresses /\ \A k \in AgentKeys : b.agentAddress # AddressOf[k]
  <2>1. "agentAddress" \in DOMAIN r
    BY <1>2, <1>3
  <2>2. b.agentAddress = LowerCase[r.agentAddress]
    BY <1>1, <2>1 DEF Built
  <2>3. r.agentAddress \in DOMAIN LowerCase
    BY <2>1, ActionsAssumption
  <2> QED BY <2>1, <2>2, <2>3, FreshAssumption DEF Addresses
<1> QED BY <1>2, <1>3 DEF Sound

(* The action that approve_agent builds itself is a sound one to post.       *)
LEMMA ApproveSound ==
    ASSUME NEW k \in AgentKeys, NEW name, NEW until
    PROVE  Sound([type |-> "approveAgent", agentAddress |-> AddressOf[k],
                  agentName |-> name, validUntil |-> until], k)
BY AddressesAssumption DEF Sound, Wallets

(* So is an action that the application signs by hand.                       *)
LEMMA HandMadeSound ==
    ASSUME NEW a \in HandMade
    PROVE  Sound(a, None)
<1>1. "type" \in DOMAIN a
  BY ActionsAssumption
<1>2. ASSUME "agentAddress" \in DOMAIN a
      PROVE  a.agentAddress \in Addresses /\ \A k \in AgentKeys : a.agentAddress # AddressOf[k]
  <2>1. PICK s \in DOMAIN LowerCase : a.agentAddress = LowerCase[s]
    BY <1>2, ActionsAssumption DEF Addresses
  <2>2. LowerCase[a.agentAddress] = a.agentAddress
    BY <2>1, AddressesAssumption
  <2>3. \A k \in AgentKeys : LowerCase[a.agentAddress] # AddressOf[k]
    BY <1>2, FreshAssumption
  <2> QED BY <2>1, <2>2, <2>3 DEF Addresses
<1> QED BY <1>1, <1>2 DEF Sound

-----------------------------------------------------------------------------
(* A caller is told: only what it was told, the keys it holds and its        *)
(* client's account id change.                                               *)
LEMMA TellStep ==
    ASSUME AInv, NEW n \in DOMAIN posted, Return(n) \/ Fail(n) \/ OutcomeUnknown(n)
    PROVE  AInv'
<1>1. /\ told' \in [DOMAIN posted -> ToldValues] /\ told'[n] # "nothing" /\ told[n] = "nothing"
      /\ \A i \in DOMAIN posted \ {n} : told'[i] = told[i]
      /\ UNCHANGED <<config, posted, result, account, slots>>
  BY DEF AInv, PostsInv, ToldValues, Return, Fail, OutcomeUnknown, client, server
<1>2. posted[n].wallet \in held /\ posted[n].key \in AgentKeys \cup {None} /\ held \subseteq Wallets
  BY DEF AInv, TypeOK, ApprovalInv
<1>3. held \subseteq held' /\ held' \subseteq Wallets
  BY <1>2 DEF Return, Fail, OutcomeUnknown, client, KeyReturned, Wallets
<1>4. \A i \in DOMAIN posted : ReplyId(i)' = ReplyId(i) /\ ReplyId(i) \in {None, account}
  BY <1>1 DEF ReplyId
<1>5. /\ account_id' \in [Wallets -> AccountIds \cup {None}]
      /\ \A w \in Wallets : account_id'[w] \in {None, account}
      /\ \A w \in Wallets : account_id[w] = account => account_id'[w] = account
  <2>1. CASE Return(n)
    BY <1>2, <1>4, <2>1 DEF Return, AccountIdAfter, AInv, TypeOK, AccountIdKept
  <2>2. CASE Fail(n) \/ OutcomeUnknown(n)
    BY <2>2 DEF Fail, OutcomeUnknown, client, AInv, TypeOK, AccountIdKept
  <2> QED BY <2>1, <2>2
<1>6. told'[n] = "returned" => Return(n)
  BY <1>1 DEF Return, Fail, OutcomeUnknown, AInv, PostsInv
<1>7. TypeOK' /\ PostsInv'
  BY <1>1, <1>2, <1>3, <1>5 DEF AInv, TypeOK, PostsInv, ToldValues
<1>8. ToldInv'
  <2>1. told'[n] = "returned" =>
          result[n] \in {"ok", "rejected"} /\ (posted[n].key # None => posted[n].key \in held')
    BY <1>6 DEF Return, KeyReturned
  <2>2. told'[n] = "failed" => result[n] = "refused"
    BY <1>1 DEF Return, Fail, OutcomeUnknown, AInv, PostsInv
  <2> QED BY <1>1, <1>3, <2>1, <2>2 DEF AInv, ToldInv
<1>9. ApprovalInv' /\ RegisteredInv' /\ SlotInv'
  BY <1>1, <1>3 DEF AInv, ApprovalInv, RegisteredInv, SlotInv
<1>10. AccountIdKept'
  <2>1. told'[n] = "returned" /\ ReplyId(n) # None => account_id'[posted[n].wallet] = account
    BY <1>2, <1>4, <1>6 DEF Return, AccountIdAfter, AInv, TypeOK
  <2>2. \A i \in DOMAIN posted \ {n} :
          told'[i] = "returned" /\ ReplyId(i) # None => account_id'[posted[i].wallet] = account
    BY <1>1, <1>2, <1>5 DEF AInv, TypeOK, AccountIdKept
  <2> QED BY <1>1, <1>4, <1>5, <2>1, <2>2 DEF AccountIdKept
<1>11. Recovers'
  BY <1>1 DEF AInv, Recovers, WellConfigured, ChainId, ChainIdFor, Recovered
<1> QED BY <1>7, <1>8, <1>9, <1>10, <1>11 DEF AInv

(* The server settles a pending request.                                     *)
LEMMA SettleStep ==
    ASSUME AInv, NEW n \in DOMAIN posted, NEW r \in {"refused", "rejected", "ok"},
           Pending(n), Settle(n, r), UNCHANGED <<client, posted, told>>
    PROVE  /\ told[n] # "returned" /\ result' \in [DOMAIN posted -> ResultValues]
           /\ result'[n] = r /\ \A i \in DOMAIN posted \ {n} : result'[i] = result[i]
           /\ PostsInv' /\ ToldInv' /\ ApprovalInv' /\ Recovers'
           /\ \A s \in Slots, k \in AgentKeys :
                slots[s] = AddressOf[k] => \E i \in DOMAIN posted : posted[i].key = k /\ result'[i] = "ok"
           /\ account \in AccountIds \cup {None} /\ slots \in [Slots -> Addresses \cup {None}]
           /\ account' \in AccountIds \cup {None} /\ slots' \in [Slots -> Addresses \cup {None}] => TypeOK'
<1>1. UNCHANGED <<config, account_id, held, posted, told>> /\ result[n] = "pending"
  BY DEF client, Pending
<1>2. /\ result' \in [DOMAIN posted -> ResultValues]
      /\ result'[n] = r /\ \A i \in DOMAIN posted \ {n} : result'[i] = result[i]
  BY DEF Settle, AInv, PostsInv, ResultValues
<1>3. told[n] \notin {"returned", "failed"}
  BY <1>1 DEF AInv, ToldInv
<1>4. PostsInv' /\ ToldInv' /\ ApprovalInv'
  BY <1>1, <1>2, <1>3 DEF AInv, PostsInv, ToldInv, ApprovalInv
<1>5. Recovers'
  BY <1>1 DEF AInv, Recovers, WellConfigured, ChainId, ChainIdFor, Recovered
<1>6. \A s \in Slots, k \in AgentKeys :
        slots[s] = AddressOf[k] => \E i \in DOMAIN posted : posted[i].key = k /\ result'[i] = "ok"
  BY <1>1, <1>2 DEF AInv, SlotInv
<1>7. account' \in AccountIds \cup {None} /\ slots' \in [Slots -> Addresses \cup {None}] => TypeOK'
  BY <1>1, <1>2 DEF AInv, TypeOK, ResultValues
<1>8. account \in AccountIds \cup {None} /\ slots \in [Slots -> Addresses \cup {None}]
  BY DEF AInv, TypeOK
<1> QED BY <1>2, <1>3, <1>4, <1>5, <1>6, <1>7, <1>8

(* Whatever else it does, it keeps the account once there is one.            *)
LEMMA KeepsAccount ==
    ASSUME AInv, NEW n \in DOMAIN posted, NEW r \in {"refused", "rejected", "ok"},
           Pending(n), Settle(n, r), UNCHANGED <<client, posted, told, account>>,
           r = "ok" => posted[n].action.type # "registerAccount"
    PROVE  RegisteredInv' /\ AccountIdKept'
<1>1. /\ told[n] # "returned" /\ result'[n] = r
      /\ \A i \in DOMAIN posted \ {n} : result'[i] = result[i]
  BY SettleStep
<1>2. UNCHANGED <<posted, told, account, account_id>>
  BY DEF client
<1>3. \A i \in DOMAIN posted \ {n} : ReplyId(i)' = ReplyId(i)
  BY <1>1, <1>2 DEF ReplyId
<1> QED BY <1>1, <1>2, <1>3 DEF AInv, RegisteredInv, AccountIdKept

(* No step of the server breaks the invariant.                               *)
LEMMA ServerStepKeeps ==
    ASSUME AInv, NEW n \in DOMAIN posted,
           Refuse(n) \/ Reject(n) \/ Register(n) \/ Approve(n) \/ Revoke(n) \/ Execute(n)
    PROVE  AInv'
<1>1. CASE Refuse(n) \/ Reject(n) \/ Execute(n)
  <2>1. PICK r \in {"refused", "rejected", "ok"} :
          /\ Pending(n) /\ Settle(n, r) /\ UNCHANGED <<client, posted, told, account, slots>>
          /\ r = "ok" => posted[n].action.type # "registerAccount"
    BY <1>1 DEF Refuse, Reject, Execute
  <2>2. TypeOK' /\ PostsInv' /\ ToldInv' /\ ApprovalInv' /\ Recovers'
    BY <2>1, SettleStep
  <2>3. RegisteredInv' /\ AccountIdKept'
    BY <2>1, KeepsAccount
  <2>4. SlotInv'
    <3>1. \A s \in Slots, k \in AgentKeys :
            slots[s] = AddressOf[k] => \E i \in DOMAIN posted : posted[i].key = k /\ result'[i] = "ok"
      BY <2>1, SettleStep
    <3> QED BY <2>1, <3>1 DEF SlotInv
  <2> QED BY <2>2, <2>3, <2>4 DEF AInv
<1>2. CASE Register(n)
  <2>1. /\ Pending(n) /\ Settle(n, "ok") /\ UNCHANGED <<client, posted, told, slots>>
        /\ account = None /\ account' \in AccountIds /\ posted[n].action.type = "registerAccount"
    BY <1>2 DEF Register, IsRequest
  <2>2. /\ TypeOK' /\ PostsInv' /\ ToldInv' /\ ApprovalInv' /\ Recovers'
        /\ told[n] # "returned" /\ result'[n] = "ok"
        /\ \A i \in DOMAIN posted \ {n} : result'[i] = result[i]
    BY <2>1, SettleStep
  <2>3. SlotInv'
    <3>1. \A s \in Slots, k \in AgentKeys :
            slots[s] = AddressOf[k] => \E i \in DOMAIN posted : posted[i].key = k /\ result'[i] = "ok"
      BY <2>1, SettleStep
    <3> QED BY <2>1, <3>1 DEF SlotInv
  <2>4. RegisteredInv'
    BY <2>1, BoundsAssumption DEF RegisteredInv
  <2>5. AccountIdKept'
    <3>1. UNCHANGED <<posted, told, account_id>>
      BY <2>1 DEF client
    <3>2. \A w \in Wallets : account_id[w] = None
      BY <2>1 DEF AInv, AccountIdKept
    <3>3. \A i \in DOMAIN posted \ {n} : ReplyId(i)' = None
      BY <2>1, <2>2, <3>1 DEF ReplyId, AInv, RegisteredInv
    <3> QED BY <2>2, <3>1, <3>2, <3>3 DEF AccountIdKept
  <2> QED BY <2>2, <2>3, <2>4, <2>5 DEF AInv
<1>3. CASE Approve(n) \/ Revoke(n)
  <2> DEFINE a == posted[n].action
  <2>1. /\ Pending(n) /\ Settle(n, "ok") /\ UNCHANGED <<client, posted, told, account>>
        /\ a.type # "registerAccount"
    BY <1>3 DEF Approve, Revoke, IsRequest
  <2>2. /\ PostsInv' /\ ToldInv' /\ ApprovalInv' /\ Recovers' /\ result'[n] = "ok"
        /\ slots \in [Slots -> Addresses \cup {None}]
        /\ account \in AccountIds \cup {None}
        /\ account' \in AccountIds \cup {None} /\ slots' \in [Slots -> Addresses \cup {None}] => TypeOK'
    BY <2>1, SettleStep
  <2>3. RegisteredInv' /\ AccountIdKept'
    BY <2>1, KeepsAccount
  <2>4. \A s \in Slots, k \in AgentKeys :
          slots[s] = AddressOf[k] => \E i \in DOMAIN posted : posted[i].key = k /\ result'[i] = "ok"
    BY <2>1, SettleStep
  <2>5. a.type = "approveAgent" =>
          /\ a.agentAddress \in Addresses
          /\ \A k \in AgentKeys : a.agentAddress = AddressOf[k] => posted[n].key = k
    BY DEF AInv, ApprovalInv
  <2>6. /\ slots' \in [Slots -> Addresses \cup {None}]
        /\ \A s \in Slots : \/ slots'[s] \in {slots[s], None}
                            \/ a.type = "approveAgent" /\ slots'[s] = a.agentAddress
    <3>1. CASE Approve(n)
      <4>1. a.type = "approveAgent" /\ slots' = [slots EXCEPT ![SlotOf[a.agentName]] = a.agentAddress]
        BY <3>1 DEF Approve, IsRequest
      <4> QED BY <2>2, <2>5, <4>1
    <3>2. CASE Revoke(n)
      BY <2>2, <3>2 DEF Revoke
    <3> QED BY <1>3, <3>1, <3>2
  <2>7. TypeOK'
    BY <2>1, <2>2, <2>6
  <2>8. SlotInv'
    <3> SUFFICES ASSUME NEW s \in Slots, NEW k \in AgentKeys, slots'[s] = AddressOf[k]
                 PROVE  \E i \in DOMAIN posted : posted[i].key = k /\ result'[i] = "ok"
      BY <2>1 DEF SlotInv
    <3>1. AddressOf[k] # None
      BY AddressesAssumption DEF Wallets
    <3>2. CASE slots'[s] = slots[s]
      BY <2>4, <3>2
    <3>3. CASE a.type = "approveAgent" /\ slots'[s] = a.agentAddress
      BY <2>2, <2>5, <3>3
    <3> QED BY <2>6, <3>1, <3>2, <3>3
  <2> QED BY <2>2, <2>3, <2>7, <2>8 DEF AInv
<1> QED BY <1>1, <1>2, <1>3

(* A client made for a generated key gets the id of the same account.        *)
LEMMA NewAgentClientKeeps ==
    ASSUME AInv, NEW k \in AgentKeys, NewAgentClient(k)
    PROVE  AInv'
<1>1. /\ UNCHANGED <<config, held, posted, told, result, account, slots>>
      /\ account_id[k] = None /\ account_id[Master] # None
      /\ account_id' = [account_id EXCEPT ![k] = account_id[Master]]
  BY DEF NewAgentClient, server
<1>2. /\ account_id[Master] = account /\ account \in AccountIds
      /\ account_id \in [Wallets -> AccountIds \cup {None}] /\ k \in Wallets
  BY <1>1 DEF AInv, AccountIdKept, TypeOK, Wallets
<1>3. TypeOK'
  BY <1>1, <1>2 DEF AInv, TypeOK
<1>4. PostsInv' /\ ToldInv' /\ ApprovalInv' /\ RegisteredInv' /\ SlotInv'
  BY <1>1 DEF AInv, PostsInv, ToldInv, ApprovalInv, RegisteredInv, SlotInv
<1>5. AccountIdKept'
  <2>1. \A i \in DOMAIN posted : ReplyId(i)' = ReplyId(i) /\ posted[i].wallet \in Wallets
    BY <1>1 DEF ReplyId, AInv, TypeOK
  <2> QED BY <1>1, <1>2, <2>1 DEF AInv, AccountIdKept
<1>6. Recovers'
  BY <1>1 DEF AInv, Recovers, WellConfigured, ChainId, ChainIdFor, Recovered
<1> QED BY <1>3, <1>4, <1>5, <1>6 DEF AInv

-----------------------------------------------------------------------------
(* AInv is inductive: the signatures, the keys and the account ids of the    *)
(* properties below hold for every configuration and set of requests.        *)
THEOREM AccountInvariance == Spec => []AInv
<1>1. Init => AInv
  BY AccountInit
<1>2. AInv /\ [Next]_vars => AInv'
  <2> SUFFICES ASSUME AInv, [Next]_vars PROVE AInv'
    OBVIOUS
  <2>1. ASSUME NEW w \in Wallets, NEW r \in Requests, Call(w, r) PROVE AInv'
    BY <2>1, CallSound, PostStep DEF Call
  <2>2. ASSUME NEW w \in Wallets, NEW k \in AgentKeys, NEW name \in DOMAIN SlotOf,
               ApproveAgent(w, k, name, Number(0))
        PROVE  AInv'
    BY <2>2, ApproveSound, PostStep DEF ApproveAgent
  <2>3. ASSUME NEW w \in Wallets, NEW a \in HandMade, SignByHand(w, a) PROVE AInv'
    BY <2>3, HandMadeSound, PostStep DEF SignByHand
  <2>4. ASSUME NEW n \in DOMAIN posted, Return(n) \/ Fail(n) \/ OutcomeUnknown(n) PROVE AInv'
    BY <2>4, TellStep
  <2>5. ASSUME NEW k \in AgentKeys, NewAgentClient(k) PROVE AInv'
    BY <2>5, NewAgentClientKeeps
  <2>6. ASSUME NEW n \in DOMAIN posted,
               Refuse(n) \/ Reject(n) \/ Register(n) \/ Approve(n) \/ Revoke(n) \/ Execute(n)
        PROVE  AInv'
    BY <2>6, ServerStepKeeps
  <2>7. CASE UNCHANGED vars
    <3>1. UNCHANGED <<config, account_id, held, posted, told, result, account, slots>>
      BY <2>7 DEF vars, client, server
    <3>2. \A i \in DOMAIN posted : ReplyId(i)' = ReplyId(i) /\ (Recovered(i)' <=> Recovered(i))
      BY <3>1 DEF ReplyId, Recovered
    <3>3. TypeOK' /\ PostsInv' /\ ToldInv' /\ ApprovalInv' /\ RegisteredInv' /\ SlotInv'
      BY <3>1 DEF AInv, TypeOK, PostsInv, ToldInv, ApprovalInv, RegisteredInv, SlotInv
    <3>4. AccountIdKept' /\ Recovers'
      BY <3>1, <3>2 DEF AInv, AccountIdKept, Recovers, WellConfigured, ChainId, ChainIdFor
    <3> QED BY <3>3, <3>4 DEF AInv
  <2>8. CASE Next
    BY <2>1, <2>2, <2>3, <2>4, <2>5, <2>6, <2>8 DEF Next, ClientStep, ServerStep
  <2> QED BY <2>7, <2>8
<1> QED BY <1>1, <1>2, PTL DEF Spec

(* TypeOK: only keys the application holds sign, and the agent slots hold    *)
(* addresses in the form the server keeps.                                   *)
THEOREM AccountTypes == Spec => []TypeOK
<1>1. AInv => TypeOK
  BY DEF AInv
<1> QED BY <1>1, AccountInvariance, PTL

(* Every request of a well configured client recovers to its wallet.         *)
THEOREM RequestsRecover == Spec => []Recovers
<1>1. AInv => Recovers
  BY DEF AInv
<1> QED BY <1>1, AccountInvariance, PTL

(* A client that was given its account id keeps it, and has no other one.    *)
THEOREM AccountIdsKept == Spec => []AccountIdKept
<1>1. AInv => AccountIdKept
  BY DEF AInv
<1> QED BY <1>1, AccountInvariance, PTL

(* The key of an agent that may trade is lost only with its answer.          *)
THEOREM AgentKeysKnown == Spec => []AgentKeyKnown
<1>1. AInv => AgentKeyKnown
  <2> SUFFICES ASSUME AInv, NEW s \in Slots, NEW k \in AgentKeys, slots[s] = AddressOf[k]
               PROVE  \/ k \in held
                      \/ \E n \in DOMAIN posted : posted[n].key = k /\ told[n] \in {"nothing", "unknown"}
    BY DEF AgentKeyKnown
  <2>1. PICK n \in DOMAIN posted : posted[n].key = k /\ result[n] = "ok"
    BY DEF AInv, SlotInv
  <2>2. k # None
    BY WalletsAssumption DEF Wallets
  <2>3. told[n] \in ToldValues
    BY DEF AInv, PostsInv
  <2> QED BY <2>1, <2>2, <2>3 DEF AInv, ToldInv, ToldValues
<1> QED BY <1>1, AccountInvariance, PTL
-----------------------------------------------------------------------------
(* What is on its way was signed as it is.                                   *)
EnvelopeFields == {"wallet", "key", "action", "nonce", "signature", "signatureChainId"}
SignedInv ==
    \A n \in DOMAIN posted :
        /\ DOMAIN posted[n] = EnvelopeFields
        /\ posted[n].signature.over =
              Digest(posted[n].action, posted[n].nonce, config.signature_chain_id, ChainId)

(* Posting signs the request that it sends.                                  *)
LEMMA PostSigns ==
    ASSUME AInv, SignedInv, NEW w, NEW action, NEW key, Post(w, action, key)
    PROVE  SignedInv'
<1> DEFINE n == Len(posted) + 1
           over(i) == Digest(posted[i].action, posted[i].nonce, config.signature_chain_id, ChainId)
<1>1. /\ DOMAIN posted' = DOMAIN posted \cup {n}
      /\ \A i \in DOMAIN posted : posted'[i] = posted[i]
      /\ posted'[n].action = Sent(action) /\ posted'[n].nonce = n
      /\ posted'[n].signature = Sign(w, action, n, config.signature_chain_id, ChainId)
  BY PostAdds
<1>2. config' = config /\ ChainId' = ChainId
  BY DEF Post, client, ChainId, ChainIdFor
<1>3. DOMAIN posted'[n] = EnvelopeFields
  <2>1. PICK S : posted \in Seq(S)
    BY DEF AInv, PostsInv
  <2>2. PICK e : posted' = Append(posted, e) /\ DOMAIN e = EnvelopeFields
    BY DEF Post, EnvelopeFields
  <2>3. posted'[n] = e
    BY <2>1, <2>2
  <2> QED BY <2>2, <2>3
<1>4. posted'[n].signature.over = Digest(posted'[n].action, posted'[n].nonce, config.signature_chain_id, ChainId)
  BY <1>1 DEF Sign, Sent
<1> HIDE DEF n
<1>5. \A i \in DOMAIN posted' :
        posted'[i].signature.over = Digest(posted'[i].action, posted'[i].nonce, config'.signature_chain_id, ChainId')
  BY <1>1, <1>2, <1>4 DEF SignedInv
<1> QED BY <1>1, <1>3, <1>5 DEF SignedInv

(* Nothing else changes a request or the configuration.                      *)
LEMMA SignedStep ==
    ASSUME AInv, SignedInv, [Next]_vars
    PROVE  SignedInv'
<1>1. ASSUME NEW w, NEW action, NEW key, Post(w, action, key) PROVE SignedInv'
  BY <1>1, PostSigns
<1>2. ASSUME UNCHANGED <<config, posted>> PROVE SignedInv'
  BY <1>2 DEF SignedInv, ChainId, ChainIdFor
<1>3. CASE ClientStep
  <2>1. ASSUME NEW w \in Wallets, NEW r \in Requests, Call(w, r) PROVE SignedInv'
    BY <1>1, <2>1 DEF Call
  <2>2. ASSUME NEW w \in Wallets, NEW k \in AgentKeys, NEW name \in DOMAIN SlotOf,
               ApproveAgent(w, k, name, Number(0))
        PROVE  SignedInv'
    BY <1>1, <2>2 DEF ApproveAgent
  <2>3. ASSUME NEW w \in Wallets, NEW a \in HandMade, SignByHand(w, a) PROVE SignedInv'
    BY <1>1, <2>3 DEF SignByHand
  <2>4. ASSUME NEW n \in DOMAIN posted, Return(n) \/ Fail(n) \/ OutcomeUnknown(n) PROVE SignedInv'
    BY <1>2, <2>4 DEF Return, Fail, OutcomeUnknown, client
  <2>5. ASSUME NEW k \in AgentKeys, NewAgentClient(k) PROVE SignedInv'
    BY <1>2, <2>5 DEF NewAgentClient
  <2> QED BY <1>3, <2>1, <2>2, <2>3, <2>4, <2>5 DEF ClientStep
<1>4. CASE ServerStep
  BY <1>2, <1>4 DEF ServerStep, Refuse, Reject, Register, Approve, Revoke, Execute, client
<1>5. CASE UNCHANGED vars
  BY <1>2, <1>5 DEF vars, client
<1> QED BY <1>3, <1>4, <1>5 DEF Next

(* SignatureBinds: a signature recovers for the request it was made for and  *)
(* for no other, whatever the configuration, the actions and the chain id in *)
(* the envelope.                                                             *)
THEOREM SignaturesBind == Spec => []SignatureBinds
<1>1. Init => SignedInv
  BY DEF Init, SignedInv
<1>2. AInv /\ SignedInv /\ [Next]_vars => SignedInv'
  BY SignedStep
<1>3. SignedInv => SignatureBinds
  <2> SUFFICES ASSUME SignedInv, NEW i \in DOMAIN posted, NEW j \in DOMAIN posted,
                      NEW nonce \in DOMAIN posted, NEW chain \in Chains \cup {NoChain, config.signature_chain_id},
                      RecoversTo(Swapped(i, j, nonce, chain), config.environment, posted[j].wallet)
               PROVE  nonce = posted[j].nonce /\ SameRequest(posted[i].action, posted[j].action)
    BY DEF SignatureBinds
  <2> DEFINE e == Swapped(i, j, nonce, chain)
  <2>1. e.action = posted[i].action /\ e.signature = posted[j].signature /\ e.nonce = nonce
    BY DEF Swapped, SignedInv, EnvelopeFields
  <2>2. e.signature.over = Digest(posted[j].action, posted[j].nonce, config.signature_chain_id, ChainId)
    BY <2>1 DEF SignedInv
  <2> HIDE DEF e
  <2>3. RecoversTo(e, config.environment, posted[j].wallet)
    BY DEF e
  <2> QED BY <2>1, <2>2, <2>3, DigestBinds
<1> QED BY <1>1, <1>2, <1>3, AccountInvariance, PTL DEF Spec
=============================================================================
