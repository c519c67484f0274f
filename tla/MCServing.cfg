CONSTANTS
    Off = Off
    x1 = x1
    x2 = x2
    x3 = x3
    q1 = q1
    q2 = q2
    a = a
    b = b
    w1 = w1
    w2 = w2
    none = none
    \* OutboxWorker: a worker that polls beside one that drains
    Entries = {1, 2}
    Records = {1, 2}
    Workers = {w1, w2}
    Pollers = {w1}
    Drainers = {w2}
    OpOf <- TwoFacts
    RecordOf <- Own
    Poison = {}
    VectorOn = TRUE
    GraphOn = TRUE
    NoEntry = none
    NoWorker = none
    BatchSize = 2
    ChunkSize = 2
    MaxRetries = 2
    MaxFaults = 2
    MaxDisruptions = 0
    \* HermesPrefetch
    Queries = {q1, q2}
    Sessions = {a, b}
    MaxLoads = 3
    MaxSwitches = 2
    \* RuntimeLifecycle
    Resources <- BuildOrder
    CloseOrder <- ClosedIn
    Ops = {"op"}
    Tasks = {"task"}
    Natives = {"n1", "n2"}
    MaxNative = 1
    MaxWork = 3
    Fallible <- AnyStep
    MaxStepFaults = 2
    MaxStarts = 2
    \* RuntimeManager
    Descriptors = {"a", "a2", "b"}
    ProfileOf <- Profile
    PathsOf <- Paths
    Reservations = {x1, x2, x3}
    Callers = {"c1"}
    MaxFailures = 2
    \* HermesLifecycle
    MaxBridges = 3
    MaxCloses = 6
SPECIFICATION ServingSpec
SYMMETRY Symmetry
CHECK_DEADLOCK FALSE
INVARIANTS
    BatchesAreOwned
    ProvidersHoldTheirRuntimes
    PrefetchIsCurrent
    ExclusiveClaims
PROPERTIES
    RuntimeClosesInOrder
    RuntimesOwnApart
