SPECIFICATION WindowsSpec
CONSTANTS
    Jobs = {j1, j2}
    RawIds = {1, 2, 3, 4, 5}
    Stored = {1, 3, 4}
    Bad = {}
    Parsers = {1, 2}
    batch_size = 2
    Restarts = 2
    Writer = {w1, w2}
    Source = {s1, s2, s3}
    BodyOf <- Bodies
    Place = {second}
    Target = second
    FirstBackend = "inline"
    BatchSize = 1
    MaxRows = 3
    MaxDamage = 1
    w1 = w1
    w2 = w2
    w3 = w3
    g1 = g1
    g2 = g2
    j1 = j1
    j2 = j2
    second = second
    first = first
    q1 = q1
    q2 = q2
    s1 = s1
    s2 = s2
    s3 = s3
    v1 = v1
    v2 = v2
    x1 = x1
    x2 = x2
INVARIANT
    SettledIsCurrent
CHECK_DEADLOCK FALSE
