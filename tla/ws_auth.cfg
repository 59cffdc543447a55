SPECIFICATION Spec
CONSTANTS
    Users = {u1, u2}
    Reader = reader
    None = none
    Channels = {c1, c2}
    Groups = {c2}
    Families = {{c1, c2}}
    Accounts = {a1, a2}
    SilentReconnect = FALSE
    CloseReconnects = TRUE
    MaxIds = 2
    MaxConnects = 2
    MaxInbox = 1
SYMMETRY UserAccountSymmetry
INVARIANTS
    NoLostSubscription
    AccountTold
    NoDuplicateSubscribe
    ServedWhenQuiet
