\* A database whose unique index of decisions is missing.
CONSTANTS
    Off = Off
    a = a
    b = b
    c = c
    gateway = gateway
    script = script
    native = native
    reindex = reindex
    NoThread = NoThread
    Nodes = {a, b, c}
    Instances = {gateway, script}
    Threads = {native, reindex}
    Home <- Homes
    Callings <- Called
    MaxCalls = 2
    MaxCrashes = 1
    Contexts = {"plain", "padded"}
    Chosen = {1, 2}
    Confidences = {1, 2}
    NewId = 2
    Other = 9
    FactKeys = {1, 2}
    BatchRows = 2
    Stocks <- Stocked
    Plans <- PlannedAfterLoss
    c1 = c1
    c2 = c2
SPECIFICATION LostSpec
CHECK_DEADLOCK FALSE
INVARIANTS
    OnlyDuplicatesDeleted
