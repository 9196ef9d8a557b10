SPECIFICATION PoolSpec
CONSTANTS
    s1 = s1
    s2 = s2
    s3 = s3
    s4 = s4
    k1 = k1
    k2 = k2
    None = None
    SessionId = {s1, s2, s3, s4}
    ConnectionKey = {k1, k2}
    Name = {n1}
    Task = {t1, t2}
    ClockValues = {0, 30, 90}
    Snapshots <- MCSnapshots
    PoolEnabled = TRUE
    PreferReuse = TRUE
    MaxSessionsPerConnection = 2
    MaxTotalSessions = 2
    MinIdleTime = 0
    MaxIdleTime = 60
SYMMETRY TaskSymmetry
INVARIANTS
    PoolIndexExact
    TotalOvershootBounded
