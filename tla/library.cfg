SPECIFICATION Spec
CONSTANTS
    None = None
    Nil = Nil
    Unset = Unset
    Nothing = Nothing
    MaxTasks = 4
    Caller = {c1, c2, c3}
    FailureThreshold = 2
    MaxFailures = 5
    MaxAttempts = 4
    InitialDelay = 10
    MaxDelay = 50
    BackoffMultiplier = 2
    Jitter = TRUE
    MetricName = {m1}
    Value = {1, 2}
    Kinds = {"Counter", "Histogram"}
    SampleLimits = {0, 1}
    MaxRecords = 3
    MaxInits = 1
    Session = {s1, s2}
    Worker = {w1, w2}
    Changes = {"Connecting", "Active", "Idle", "Closing"}
    MaxSamples = 0
    MaxChanges = 2
    MaxUse = 0
    MaxResets = 1
    Connection = {k1, k2}
    MaxChunks = 3
    MaxOutput = 2
    MaxMessage = 2
    MaxRead = 1
    Host <- SomeHosts
    Port = {0, 22, 80}
    Account <- SomeAccounts
    Path <- SomePaths
    Distribution <- SomeDistributions
    Lossy = {"ff", "fe"}
    MaxBuilt = 2
    Invocation = {v1, v2}
    MaxPath = 2
    Written <- SomeWritten
    Environments <- SomeEnvironments
    MaxEdits = 1
    Absent = Absent
    Broken = Broken
SYMMETRY Symmetry
CONSTRAINT Uploads
CHECK_DEADLOCK FALSE
INVARIANTS
    RunningHasLoop
    CountMatchesState
    ReturnsLastOutcome
    CounterIsSum
    SerialUploadRuns
    StreamIsRemotes
    GaugeWithinReal
    SharedReachesTarget
    FirstSteadyWins
