SPECIFICATION ManagerSpec
CONSTANTS
    None = None
    SessionId = {s1}
    ConnectionKey = {k1}
    Name = {n1}
    Task = {c1, c2, k}
    Client = {c1, c2}
    Cleaner = {k}
    ClockValues = {0, 2}
    Snapshots <- StaleCopies
    PoolEnabled = TRUE
    PreferReuse = TRUE
    MaxSessionsPerConnection = 1
    MaxTotalSessions = 1
    MinIdleTime = 0
    MaxIdleTime = 1
    MaxSessionLifetime = 3
    EnableAutoReconnect = TRUE
    MaxSessions = 1
    Statuses = {"Idle", "Failed"}
    MaxUses = 3
    MaxCalls = 3
INVARIANTS
    SessionsAccountedFor
    GaugesMatch
    PooledIsIdle
PROPERTIES
    FailedExpires
