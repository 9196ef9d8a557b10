SPECIFICATION RegistrySpec
CONSTANTS
    None = None
    SessionId = {s1, s2, s3}
    ConnectionKey = {k1}
    Name = {n1, n2}
    Task = {t1, t2}
    ClockValues = {0, 1}
    Snapshots <- MCSnapshots
    MaxSessions = 1
    Statuses = {"Connecting"}
    MaxUses = 1
    AllowDuplicateNames = TRUE
    EnableNameIndex = TRUE
SYMMETRY MCSymmetry
INVARIANTS
    LookupComplete
    SessionOvershootBounded
PROPERTIES
    GoneForever
