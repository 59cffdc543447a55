CONSTANTS
    MaxBatch = 2
    TriggerTypes = {"mark", "oracle"}
    OrderArgs <- OrdersTried
    TriggerArgs <- TriggersTried
    Batches <- BatchesTried
    TpSlArgs <- TpSlTried
    ModifyArgs <- ModifiesTried
    CancelLists <- CancelsTried

SPECIFICATION Spec

INVARIANTS
    TypeOK
    NothingMalformedSigned
    ProtectionKept
    SoundOrdersSigned
