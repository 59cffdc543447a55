------------------------------- MODULE Signing -------------------------------
(* What a signature of upside/utils/signing.py is made over, and what the    *)
(* server finds when it recovers the signer of an envelope.                  *)
(*                                                                           *)
(* An action is a record with the fields of the dict.  keccak and the        *)
(* encodings under it are taken to be free of collisions, so a digest is the *)
(* record of what goes into it; the encodings that do forget something (the  *)
(* case of an address) are applied.                                          *)
EXTENDS Integers

CONSTANTS
    LowerCase,  \* every spelling of an address, and its lower-case form
    NoChain     \* no signature_chain_id, no signatureChainId in the envelope

(* A number of the wire JSON: an integer, or a decimal text, or a boolean.   *)
Number(n) == [is |-> "int", n |-> n]
Numbers == [is : {"int", "text", "bool"}, n : Int]

AddressFields == {"address", "agentAddress"}
UintFields == {"validUntil", "marketDeployerId", "fromMarketDeployerId", "toMarketDeployerId", "coinId"}

(* The fields of the six structs, _TYPED; the nonce is in every one.         *)
Typed(type) ==
    CASE type = "registerAccount" -> {"address"}
      [] type = "approveAgent" -> {"agentAddress", "agentName", "validUntil"}
      [] type = "revokeAgent" -> {"agentAddress"}
      [] type \in {"lockCollateral", "unlockCollateral"} ->
            {"marketDeployerId", "coinId", "amount"}
      [] type = "transferBetweenDeployers" ->
            {"fromMarketDeployerId", "toMarketDeployerId", "coinId", "amount"}
      [] OTHER -> {}

IsTypedAction(type) == Typed(type) # {}

(* registerAccount with a marketDeployerId has a struct of its own.          *)
TypedWithField(type) == IF type = "registerAccount" THEN {"marketDeployerId"} ELSE {}

StructFieldsIfTrue(action) ==
    Typed(action.type) \cup
        {f \in TypedWithField(action.type) \cap DOMAIN action : action[f].n # 0}
StructFields(action) ==
    Typed(action.type) \cup (TypedWithField(action.type) \cap DOMAIN action)

(* What eip712_digest puts into the action it is given, _TYPED_DEFAULTS.     *)
Defaults == [agentName |-> "", validUntil |-> Number(0)]
WithDefaults(action) ==
    IF action.type = "approveAgent"
    THEN [f \in DOMAIN action \cup DOMAIN Defaults |->
            IF f \in DOMAIN action THEN action[f] ELSE Defaults[f]]
    ELSE action

(* A struct field that is missing, or a number that is no non-negative       *)
(* integer, raises before anything is signed.                                *)
EncodableAny(action) == TRUE
Encodable(action) ==
    /\ StructFields(action) \subseteq DOMAIN action
    /\ \A f \in StructFields(action) \cap UintFields : action[f].is = "int" /\ action[f].n >= 0

EncodeField(f, v) == IF f \in AddressFields THEN LowerCase[v] ELSE v

StructHash(fields, action, nonce) ==
    [struct |-> [f \in fields |-> EncodeField(f, action[f])], type |-> action.type, nonce |-> nonce]
ActionHash(action, nonce) == [struct |-> action, type |-> "Agent", nonce |-> nonce]

(* The domain: a signature chain id replaces the chain id on typed actions.  *)
DomainAlwaysOwn(action, signatureChain, chain) == IF signatureChain = NoChain THEN chain ELSE signatureChain
Domain(action, signatureChain, chain) ==
    IF IsTypedAction(action.type) /\ signatureChain # NoChain THEN signatureChain ELSE chain

DigestCopied(action, nonce, signatureChain, chain) ==
    [domain |-> Domain(action, signatureChain, chain),
     hash |-> IF IsTypedAction(action.type)
              THEN [StructHash(StructFields(action), action, nonce) EXCEPT
                        !.type = IF @ = "unlockCollateral" THEN "lockCollateral" ELSE @]
              ELSE ActionHash(action, nonce)]
Digest(action, nonce, signatureChain, chain) ==
    [domain |-> Domain(action, signatureChain, chain),
     hash |-> IF IsTypedAction(action.type)
              THEN StructHash(StructFields(action), action, nonce)
              ELSE ActionHash(action, nonce)]

(* sign_action, over the action with its defaults filled in.                 *)
Sign(wallet, action, nonce, signatureChain, chain) ==
    [by |-> wallet, over |-> Digest(WithDefaults(action), nonce, signatureChain, chain)]

-----------------------------------------------------------------------------
(* The server, as the comments of signing.py and _post_action describe it:   *)
(* it reads the fields of a struct by name, a number only when it is a JSON  *)
(* integer, and takes a signatureChainId it is sent for the domain.          *)

ServerFields(action) ==
    CASE action.type = "registerAccount" /\ "marketDeployerId" \in DOMAIN action ->
            {"address", "marketDeployerId"}
      [] OTHER -> Typed(action.type)

Readable(action) ==
    /\ ServerFields(action) \subseteq DOMAIN action
    /\ \A f \in ServerFields(action) \cap UintFields : action[f].is = "int" /\ action[f].n >= 0

ServerDigest(e, environment) ==
    [domain |-> IF e.signatureChainId = NoChain THEN environment ELSE e.signatureChainId,
     hash |-> IF IsTypedAction(e.action.type)
              THEN StructHash(ServerFields(e.action), e.action, e.nonce)
              ELSE ActionHash(e.action, e.nonce)]

(* The signature recovers to its signer only if both digests are the same.   *)
RecoversTo(e, environment, wallet) ==
    /\ Readable(e.action)
    /\ e.signature.by = wallet
    /\ e.signature.over = ServerDigest(e, environment)

(* What the server takes from an action: of a struct, its fields.            *)
Meaning(action) ==
    IF IsTypedAction(action.type)
    THEN [f \in ServerFields(action) |-> EncodeField(f, action[f])]
    ELSE action
SameRequest(a, b) == a.type = b.type /\ Meaning(a) = Meaning(b)
=============================================================================
