--------------------------- MODULE AccountActions ---------------------------
(* The account, agent, margin and collateral actions of upside/exchange.py:  *)
(* what a client builds from its configuration and the arguments, how        *)
(* _post_action signs and wraps it, and what the client keeps of the answer. *)
(*                                                                           *)
(* The application holds a master key, calls from several threads, and makes *)
(* an Exchange of its own for every agent key it is handed.  A posted        *)
(* request may be handled late or never and its answer may get lost; it is   *)
(* executed at most once, see WritePath.                                     *)
(*                                                                           *)
(* External, modelled from how the code uses it: the server, which recovers  *)
(* the signer, keeps one account for the master and its agents in slots by   *)
(* name.                                                                     *)
EXTENDS Signing, Sequences, FiniteSets

CONSTANTS
    None,        \* no account id, no key, no agent
    Master,      \* the master key
    AgentKeys,   \* keys that approve_agent can generate
    AddressOf,   \* the address of each key
    SlotOf,      \* the slot of each agent name
    ChainIds,    \* CHAIN_IDS: the chain id of each known host
    Mainnet,     \* CHAIN_ID
    Configs,     \* how the application configures its clients
    AccountIds,  \* account ids the server hands out
    MaxSlippage, \* MAX_MARKET_SLIPPAGE_BPS
    Requests,    \* arguments of the other calls, in the form of an action
    HandMade,    \* actions signed with sign_action itself
    MaxCalls     \* bound on the requests posted

Wallets == {Master} \cup AgentKeys
Chains == {Mainnet} \cup {ChainIds[h] : h \in DOMAIN ChainIds}

Addresses == {LowerCase[a] : a \in DOMAIN LowerCase}

ASSUME WalletsAssumption == Master \notin AgentKeys /\ None \notin Wallets
ASSUME AddressesAssumption ==
    /\ AddressOf \in [Wallets -> Addresses] /\ None \notin Addresses
    /\ \A k, l \in Wallets : AddressOf[k] = AddressOf[l] => k = l
    /\ \A a \in DOMAIN LowerCase : LowerCase[a] \in DOMAIN LowerCase
    /\ \A a \in DOMAIN LowerCase : LowerCase[LowerCase[a]] = LowerCase[a]
(* An application that signs an action of its own writes addresses in lower  *)
(* case, as the server keeps them.                                           *)
ASSUME ActionsAssumption ==
    /\ \A r \in Requests \cup HandMade : "type" \in DOMAIN r
    /\ \A r \in Requests : "agentAddress" \in DOMAIN r => r.agentAddress \in DOMAIN LowerCase
    /\ \A a \in HandMade : "agentAddress" \in DOMAIN a => a.agentAddress \in Addresses
(* Only approve_agent itself knows the address of a key it generates.        *)
ASSUME FreshAssumption ==
    \A r \in Requests \cup HandMade : "agentAddress" \in DOMAIN r =>
        \A k \in AgentKeys : LowerCase[r.agentAddress] # AddressOf[k]
ASSUME BoundsAssumption == MaxCalls \in Nat /\ None \notin AccountIds /\ MaxSlippage \in Nat

VARIABLES
    config,      \* the configuration of every client
    account_id,  \* account_id of each client, by its wallet
    held,        \* keys the application holds
    posted,      \* requests sent to POST /exchange
    told,        \* what the caller of each one was told
    result,      \* what the server made of each one
    account,     \* the id of the master's account
    slots        \* the agent address in each slot

client == <<config, account_id, held>>
server == <<result, account, slots>>
vars == <<client, posted, told, server>>

Slots == {SlotOf[n] : n \in DOMAIN SlotOf}

Init ==
    /\ config \in Configs
    /\ account_id = [w \in Wallets |-> None]
    /\ held = {Master}
    /\ posted = <<>>
    /\ told = <<>>
    /\ result = <<>>
    /\ account \in {None} \cup AccountIds
    /\ slots = [s \in Slots |-> None]

-----------------------------------------------------------------------------
(* The client.                                                               *)

(* _chain_id_for: Mainnet for a host it does not know.                       *)
ChainIdFor(host) == IF host \in DOMAIN ChainIds THEN ChainIds[host] ELSE Mainnet

ChainId == IF config.chain_id # NoChain THEN config.chain_id ELSE ChainIdFor(config.host)

(* A chain id that was given, or known, for the environment that is reached. *)
WellConfigured == ChainId = config.environment

(* Numbers that a call converts: contract and order ids, and the deployer of *)
(* register_account.  All others go to the action as they are given.         *)
IdFields == {"a", "asset", "oid"}
ConvertedFields(r) ==
    DOMAIN r \cap (IF r.type = "registerAccount" THEN {"marketDeployerId"} ELSE IdFields)

(* What a call refuses before it signs: register_account an address that is  *)
(* not the wallet's own, a converted number that is a boolean or too small,  *)
(* update_slippage_setting a cap out of (0, MaxSlippage].                    *)
Smallest(f) == IF f \in IdFields THEN 1 ELSE 0

Accepted(w, r) ==
    /\ "address" \in DOMAIN r => LowerCase[r.address] = AddressOf[w]
    /\ \A f \in ConvertedFields(r) : r[f].is # "bool" /\ r[f].n >= Smallest(f)
    /\ r.type = "updateSlippageSetting" =>
            r.marketSlippageBps.is # "text" /\ r.marketSlippageBps.n \in 1 .. MaxSlippage

(* The action of a call: the wallet's own address, addresses in lower case,  *)
(* converted numbers; an optional argument left out is no field of it.       *)
BuiltCaseKept(w, r) ==
    [f \in DOMAIN r \cup (Typed(r.type) \cap {"address"}) |->
        CASE f = "address" -> AddressOf[w]
          [] f \in ConvertedFields(r) -> Number(r[f].n)
          [] OTHER -> r[f]]
Built(w, r) ==
    [f \in DOMAIN r \cup (Typed(r.type) \cap {"address"}) |->
        CASE f = "address" -> AddressOf[w]
          [] f = "agentAddress" -> LowerCase[r[f]]
          [] f \in ConvertedFields(r) -> Number(r[f].n)
          [] OTHER -> r[f]]

(* The action in the envelope is the one that eip712_digest has filled in.   *)
SentAsGiven(action) == action
Sent(action) == WithDefaults(action)

EnvelopeChainAlways(action) == config.signature_chain_id
EnvelopeChain(action) ==
    IF IsTypedAction(action.type) THEN config.signature_chain_id ELSE NoChain

(* _post_action: sign, wrap, send; encoding an ill-typed number raises.      *)
Post(w, action, key) ==
    LET nonce == Len(posted) + 1 IN
    /\ w \in held /\ Len(posted) < MaxCalls
    /\ Encodable(WithDefaults(action))
    /\ posted' = Append(posted,
           [wallet |-> w, key |-> key, action |-> Sent(action), nonce |-> nonce,
            signature |-> Sign(w, action, nonce, config.signature_chain_id, ChainId),
            signatureChainId |-> EnvelopeChain(action)])
    /\ told' = Append(told, "nothing")
    /\ result' = Append(result, "pending")
    /\ UNCHANGED <<client, account, slots>>

(* Any method with its arguments; only the master's account is registered.   *)
Call(w, r) ==
    /\ r.type = "registerAccount" => w = Master
    /\ Accepted(w, r)
    /\ Post(w, Built(w, r), None)

(* approve_agent without an address generates a key.                         *)
ApproveAgent(w, k, name, until) ==
    /\ k \notin {posted[n].key : n \in DOMAIN posted}
    /\ Post(w, [type |-> "approveAgent", agentAddress |-> AddressOf[k],
                agentName |-> name, validUntil |-> until], k)

(* A caller of sign_action with an action of its own, fields left out.       *)
SignByHand(w, action) == Post(w, action, None)

(* What the caller gets: the response and the generated key, even if the     *)
(* response says that the engine rejected the action.  register_account      *)
(* keeps the accountId of a response that has one.                           *)
KeyReturnedNever(n) == {}
KeyReturned(n) == {posted[n].key} \ {None}

ReplyId(n) ==
    IF posted[n].action.type = "registerAccount" /\ result[n] = "ok" THEN account ELSE None

AccountIdReplaced(n) ==
    IF posted[n].action.type = "registerAccount" THEN ReplyId(n) ELSE account_id[posted[n].wallet]
AccountIdAfter(n) ==
    IF ReplyId(n) # None THEN ReplyId(n) ELSE account_id[posted[n].wallet]

Return(n) ==
    /\ told[n] = "nothing" /\ result[n] \in {"ok", "rejected"}
    /\ told' = [told EXCEPT ![n] = "returned"]
    /\ held' = held \cup KeyReturned(n)
    /\ account_id' = [account_id EXCEPT ![posted[n].wallet] = AccountIdAfter(n)]
    /\ UNCHANGED <<config, posted, server>>

Fail(n) ==
    /\ told[n] = "nothing" /\ result[n] = "refused"
    /\ told' = [told EXCEPT ![n] = "failed"]
    /\ UNCHANGED <<client, posted, server>>

(* A lost or garbled answer, or a 5xx: an exception, whatever has become or  *)
(* will become of the request, and nothing else reaches the caller.          *)
OutcomeUnknown(n) ==
    /\ told[n] = "nothing"
    /\ told' = [told EXCEPT ![n] = "unknown"]
    /\ UNCHANGED <<client, posted, server>>

(* Exchange(agent_key, account_id = master.account_id).                      *)
NewAgentClient(k) ==
    /\ k \in held \cap AgentKeys
    /\ account_id[k] = None /\ account_id[Master] # None
    /\ account_id' = [account_id EXCEPT ![k] = account_id[Master]]
    /\ UNCHANGED <<config, held, posted, told, server>>

-----------------------------------------------------------------------------
(* The server.                                                               *)

Recovered(n) == RecoversTo(posted[n], config.environment, posted[n].wallet)

Settle(n, r) == result' = [result EXCEPT ![n] = r]

Pending(n) == result[n] = "pending"

Refuse(n) ==
    /\ Pending(n)
    /\ Settle(n, "refused")
    /\ UNCHANGED <<client, posted, told, account, slots>>

(* The engine rejects what it could execute for reasons of its own, too.     *)
Reject(n) ==
    /\ Pending(n) /\ Recovered(n)
    /\ Settle(n, "rejected")
    /\ UNCHANGED <<client, posted, told, account, slots>>

IsRequest(n, type) == posted[n].action.type = type

Register(n) ==
    /\ Pending(n) /\ Recovered(n) /\ IsRequest(n, "registerAccount") /\ account = None
    /\ account' \in AccountIds
    /\ Settle(n, "ok")
    /\ UNCHANGED <<client, posted, told, slots>>

(* Typed actions are for the master only.                                    *)
ByMaster(n) == account # None /\ posted[n].wallet = Master

Approve(n) ==
    /\ Pending(n) /\ Recovered(n) /\ IsRequest(n, "approveAgent") /\ ByMaster(n)
    /\ slots' = [slots EXCEPT ![SlotOf[posted[n].action.agentName]] = posted[n].action.agentAddress]
    /\ Settle(n, "ok")
    /\ UNCHANGED <<client, posted, told, account>>

Revoke(n) ==
    /\ Pending(n) /\ Recovered(n) /\ IsRequest(n, "revokeAgent") /\ ByMaster(n)
    /\ slots' = [s \in Slots |-> IF slots[s] = posted[n].action.agentAddress THEN None ELSE slots[s]]
    /\ Settle(n, "ok")
    /\ UNCHANGED <<client, posted, told, account>>

(* Everything else changes what this module does not keep.                   *)
Execute(n) ==
    /\ Pending(n) /\ Recovered(n)
    /\ posted[n].action.type \notin {"registerAccount", "approveAgent", "revokeAgent"}
    /\ \/ ByMaster(n)
       \/ /\ ~IsTypedAction(posted[n].action.type)
          /\ \E s \in Slots : slots[s] = AddressOf[posted[n].wallet]
    /\ Settle(n, "ok")
    /\ UNCHANGED <<client, posted, told, account, slots>>

-----------------------------------------------------------------------------
ClientStep ==
    \/ \E w \in Wallets :
         \/ \E r \in Requests : Call(w, r)
         \/ \E k \in AgentKeys, name \in DOMAIN SlotOf : ApproveAgent(w, k, name, Number(0))
         \/ \E a \in HandMade : SignByHand(w, a)
    \/ \E n \in DOMAIN posted : Return(n) \/ Fail(n) \/ OutcomeUnknown(n)
    \/ \E k \in AgentKeys : NewAgentClient(k)

ServerStep ==
    \E n \in DOMAIN posted :
        Refuse(n) \/ Reject(n) \/ Register(n) \/ Approve(n) \/ Revoke(n) \/ Execute(n)

Next == ClientStep \/ ServerStep

Spec == Init /\ [][Next]_vars

-----------------------------------------------------------------------------
(* Properties.                                                               *)

(* Values of every variable.                                                 *)
TypeOK ==
    /\ config \in Configs
    /\ account_id \in [Wallets -> AccountIds \cup {None}]
    /\ held \subseteq Wallets
    /\ Len(posted) <= MaxCalls
    /\ \A n \in DOMAIN posted :
        posted[n].wallet \in held /\ posted[n].key \in AgentKeys \cup {None}
    /\ told \in [DOMAIN posted -> {"nothing", "returned", "failed", "unknown"}]
    /\ result \in [DOMAIN posted -> {"pending", "refused", "rejected", "ok"}]
    /\ account \in AccountIds \cup {None}
    /\ slots \in [Slots -> Addresses \cup {None}]

(* The signature of every request a well configured client posts recovers to *)
(* its wallet: what is signed is what is sent, over the domain that the      *)
(* server rebuilds, on both paths and under any signature_chain_id.          *)
Recovers == WellConfigured => \A n \in DOMAIN posted : Recovered(n)

(* A signature is good for the one request it was made for: in an envelope   *)
(* with another action or nonce, whichever chain id that advertises, it      *)
(* recovers only if the server reads the same request in both.  (Lock and    *)
(* unlock sign the same fields, actions of the Agent path all one struct.)   *)
Swapped(i, j, nonce, chain) ==
    [posted[i] EXCEPT !.signature = posted[j].signature, !.nonce = nonce,
                      !.signatureChainId = chain]
SignatureBinds ==
    \A i, j, nonce \in DOMAIN posted, chain \in Chains \cup {NoChain, config.signature_chain_id} :
        RecoversTo(Swapped(i, j, nonce, chain), config.environment, posted[j].wallet)
            => nonce = posted[j].nonce /\ SameRequest(posted[i].action, posted[j].action)

(* A client whose registration came back has the id of its account, whatever *)
(* came back before or after, and no client has another one.                 *)
AccountIdKept ==
    /\ \A w \in Wallets : account_id[w] \in {None, account}
    /\ \A n \in DOMAIN posted :
        told[n] = "returned" /\ ReplyId(n) # None => account_id[posted[n].wallet] = account

(* Nobody but the application knows a generated key.  An agent that the      *)
(* server lets trade has a key the application holds, unless the caller of   *)
(* its approval is still waiting or has been told that the outcome is open.  *)
AgentKeyKnown ==
    \A s \in Slots, k \in AgentKeys :
        slots[s] = AddressOf[k] =>
            \/ k \in held
            \/ \E n \in DOMAIN posted : posted[n].key = k /\ told[n] \in {"nothing", "unknown"}
=============================================================================
