SPECIFICATION FairSpec
CONSTANTS
    p1 = p1
    m1 = m1
    m2 = m2
    Writes = {p1}
    Reads = {p2}
    Managers = {m1, m2}
    ManagerOf <- OneManager
    MaxRetries = 1
    MaxClock = 0
    Redirects = TRUE
CHECK_DEADLOCK FALSE
INVARIANTS
    ExecutedOnce
PROPERTIES
    CallsDwindle
    CallsEnd
