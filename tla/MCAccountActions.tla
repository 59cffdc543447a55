-------------------------- MODULE MCAccountActions --------------------------
(* Small instances of AccountActions for TLC.                                *)
EXTENDS AccountActions, TLC

CONSTANTS k1, k2

Spellings ==
    ("0xAA" :> "0xaa") @@ ("0xaa" :> "0xaa") @@ (k1 :> k1) @@ (k2 :> k2)
        @@ ("0xBOT" :> "0xbot") @@ ("0xbot" :> "0xbot")
(* A generated key stands for its own address, so keys are interchangeable.  *)
AddressesOfKeys == (Master :> "0xaa") @@ (k1 :> k1) @@ (k2 :> k2)

(* Two names that share their first 16 bytes, and no name.                   *)
SlotsByName == ("" :> "") @@ ("sixteen bytes: a" :> "sixteen bytes:") @@
               ("sixteen bytes: b" :> "sixteen bytes:")

Devnet == 9767
KnownHosts == ("dev.upsidemax.xyz" :> Devnet) @@ ("upsidemax.xyz" :> Mainnet)

(* Devnet under its own address, under another one with and without a chain  *)
(* id, and a wallet that signs over a chain of its own.                      *)
ConfigsTried ==
    {[host |-> "dev.upsidemax.xyz", chain_id |-> NoChain, signature_chain_id |-> NoChain, environment |-> Devnet],
     [host |-> "localhost", chain_id |-> Devnet, signature_chain_id |-> 1, environment |-> Devnet],
     [host |-> "localhost", chain_id |-> NoChain, signature_chain_id |-> NoChain, environment |-> Devnet]}

Text(n) == [is |-> "text", n |-> n]
Bool(n) == [is |-> "bool", n |-> n]

RequestsTried ==
    {[type |-> "registerAccount"],
     [type |-> "registerAccount", address |-> "0xAA", marketDeployerId |-> Number(0)],
     [type |-> "registerAccount", address |-> "0xbot", marketDeployerId |-> Text(1)],
     [type |-> "approveAgent", agentAddress |-> "0xBOT", agentName |-> "", validUntil |-> Number(5)],
     [type |-> "revokeAgent", agentAddress |-> "0xBOT"],
     [type |-> "lockCollateral", marketDeployerId |-> Text(1), coinId |-> Number(1), amount |-> "5"],
     [type |-> "lockCollateral", marketDeployerId |-> Number(1), coinId |-> Number(1), amount |-> "5"],
     [type |-> "unlockCollateral", marketDeployerId |-> Number(1), coinId |-> Number(1), amount |-> "5"],
     [type |-> "transferBetweenDeployers", fromMarketDeployerId |-> Number(1),
      toMarketDeployerId |-> Number(2), coinId |-> Number(1), amount |-> "5"],
     [type |-> "updateLeverage", a |-> Text(1), leverage |-> Number(5)],
     [type |-> "updateSlippageSetting", marketDeployerId |-> Number(1), marketSlippageBps |-> Number(10000)],
     [type |-> "updateSlippageSetting", marketDeployerId |-> Number(1), marketSlippageBps |-> Number(10001)]}

HandMadeTried ==
    {[type |-> "approveAgent", agentAddress |-> "0xbot"], [type |-> "revokeAgent"]}

KeySymmetry == Permutations(AgentKeys)
=============================================================================
