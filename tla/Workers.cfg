SPECIFICATION WorkersSpec
CONSTANTS
    Incarnations = 2
    Pids = {11, 12}
    max_connections = 2
    heartbeat_max_age = 2
    History = 1
    LastTime = 3
    Job = {j0}
    Publisher = {p1, p2}
    Worker = {w1}
    Limit = 2
    Retried = {j0}
    MaxRevision = 5
    MaxCrashes = 1
    MaxMessages = 2
    MaxFailures = 1
    j0 = j0
    j1 = j1
    j2 = j2
    p1 = p1
    p2 = p2
    r0 = r0
    r1 = r1
    r2 = r2
    w1 = w1
    None = None
INVARIANTS
    ProbeHonest
    TerminalIsQuiet
    LiveRowKept
    TwoSessionsSuffice
    TurnsRespected
    NothingMissed
    BytesConserved
    CurrentHintKept
PROPERTIES
    QuotaRespected
SYMMETRY Exchange
CHECK_DEADLOCK FALSE
