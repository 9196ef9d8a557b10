SPECIFICATION HandlerSpec
CONSTANTS
    None = None
    SessionId = {s1, s2}
    ConnectionKey = {k1}
    Name = {n1}
    Task = {c1, k}
    Client = {c1}
    Cleaner = {k}
    ClockValues = {0, 2}
    Snapshots = {}
    PoolEnabled = TRUE
    PreferReuse = TRUE
    MaxSessionsPerConnection = 2
    MaxTotalSessions = 2
    MinIdleTime = 0
    MaxIdleTime = 1
    MaxSessionLifetime = 1
    EnableAutoReconnect = TRUE
    MaxSessions = 2
    Statuses = {}
    MaxUses = 3
    MaxCalls = 3
PROPERTIES
    CreatedHasClient
