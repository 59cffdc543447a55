SPECIFICATION Spec
CONSTANTS
    p1 = p1
    m1 = m1
    m2 = m2
    Writes = {p1, p2, p3}
    Reads = {}
    Managers = {m1, m2}
    ManagerOf <- TwoManagers
    MaxRetries = 1
    MaxClock = 2
    Redirects = FALSE
CHECK_DEADLOCK FALSE
SYMMETRY WriteSymmetry
INVARIANTS
    TypeOK
    WritesSentOnce
    NoDuplicateNonce
    NoncesNearClock
    FailureMeansUnsent
PROPERTIES
    KeepsPromise
