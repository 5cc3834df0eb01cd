SPECIFICATION ProgressSpec
CONSTANTS
    Resource = {r1}
    Writer = {w1, w2}
    Silent = {w2}
    Publisher = {p1, p2}
    BatchLimit = 2
    MaxRevision = 3
    MaxLosses = 2
    MaxFailures = 1
    MaxDiscards = 1
    None = None
    j1 = j1
    j2 = j2
    p1 = p1
    p2 = p2
    r1 = r1
    t1 = t1
    t2 = t2
    t3 = t3
    w1 = w1
    w2 = w2
    x1 = x1
    x2 = x2
INVARIANTS
    RevisionsInOrder
PROPERTIES
    EventsDelivered
    WaitEnds
    HintPublished
    CollectionEnds
    EveryJobSettles
CHECK_DEADLOCK FALSE
