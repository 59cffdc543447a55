SPECIFICATION Spec
CONSTANTS
    Threads = {t1, t2}
    None = none
    Contracts = {"1", "2"}
    Later = {"2"}
    LowerCase <- Spellings
    Deployers = {1, 2}
    Intervals = {1}
    Groups = {0, 10, 100}
    TickSize <- TickSizes
    Mergeable <- DigitMerge
    Asked <- SubscriptionsTried
    MaxIds = 1
INVARIANTS
    UnsubscribedAnyContract
