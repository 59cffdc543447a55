SPECIFICATION Spec
CONSTANTS
    Users = {u1}
    Reader = reader
    None = none
    Channels = {c1}
    Groups = {}
    Families = {}
    Accounts = {a1}
    SilentReconnect = FALSE
    CloseReconnects = FALSE
    MaxIds = 1
    MaxConnects = 3
    MaxInbox = 1
INVARIANTS
    LiveConnectionReady
