SPECIFICATION ServicesSpec
CONSTANTS
    Threads = {t1, t2, t3, t4}
    max_connections = 2
    Client = {c1, c2}
    Workspace = {"home"}
    Key = {k1, k2}
    Request <- Requests
    Deployed <- Rolling
    MaxCalls = 2
    MaxCrashes = 1
    a = a
    b = b
    c1 = c1
    c2 = c2
    d1 = d1
    d2 = d2
    e1 = e1
    e2 = e2
    k1 = k1
    k2 = k2
    p1 = p1
    p2 = p2
    t1 = t1
    t2 = t2
    t3 = t3
    t4 = t4
    None = None
INVARIANTS
    SessionsWithinLimit
    OneRunPerKey
    ReadyIntact
    ReservationSettled
PROPERTIES
    AdmittedWithinLimit
    DownloadWhole
    AskedDelayRespected
SYMMETRY Exchange
CHECK_DEADLOCK FALSE
