SPECIFICATION CollectionSpec
CONSTANTS
    Games = 3
    Ongoing = {}
    Job = {x1, x2}
    Request <- Requested
    Last = 2
    PageSize = 1
    MaxPageSize = 4
    BatchSize = 1
    MaxFaults = 1
    v1 = v1
    v2 = v2
    x1 = x1
    x2 = x2
    x3 = x3
INVARIANTS
    CrawlWithinBounds
    FrontierClosed
    CoverageProven
    DoneMeansCollected
    ClosedMonthsCollected
SYMMETRY Exchange
CHECK_DEADLOCK FALSE
