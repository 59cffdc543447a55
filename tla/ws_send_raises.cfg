SPECIFICATION Spec
CONSTANTS
    Users = {u1}
    Reader = reader
    None = none
    Channels = {c1}
    Groups = {}
    Families = {}
    Accounts = {}
    SilentReconnect = FALSE
    CloseReconnects = FALSE
    MaxIds = 2
    MaxConnects = 3
    MaxInbox = 1
INVARIANTS
    NoOrphanedCallback
