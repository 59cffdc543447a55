SPECIFICATION Spec
CONSTANTS
    k1 = k1
    k2 = k2
    None = none
    NoChain = nochain
    Master = master
    AgentKeys = {k1, k2}
    AddressOf <- AddressesOfKeys
    LowerCase <- Spellings
    SlotOf <- SlotsByName
    ChainIds <- KnownHosts
    Mainnet = 9788
    Configs <- ConfigsTried
    AccountIds = {7}
    MaxSlippage = 10000
    Requests <- RequestsTried
    HandMade <- HandMadeTried
    MaxCalls = 2
SYMMETRY KeySymmetry
CHECK_DEADLOCK FALSE
INVARIANTS
    TypeOK
    Recovers
    SignatureBinds
    AccountIdKept
    AgentKeyKnown
