SPECIFICATION FairSpec
CONSTANTS
    Users = {u1, u2}
    Reader = reader
    None = none
    Channels = {c1, c2}
    Groups = {c2}
    Families = {}
    Accounts = {}
    SilentReconnect = TRUE
    CloseReconnects = TRUE
    MaxIds = 2
    MaxConnects = 3
    MaxInbox = 1
INVARIANTS
    TypeOK
    NoLostSubscription
    NoLeakedStream
    LiveConnectionReady
    NoSelfDeadlock
    ServedWhenQuiet
PROPERTIES
    KeepsService
    SubscriptionServed
