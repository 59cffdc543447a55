SPECIFICATION Spec
CONSTANTS
    p1 = p1
    m1 = m1
    m2 = m2
    Writes = {p1}
    Reads = {}
    Managers = {m1, m2}
    ManagerOf <- OneManager
    MaxRetries = 1
    MaxClock = 1
    Redirects = TRUE
CHECK_DEADLOCK FALSE
INVARIANTS
    WritesSentOnce
