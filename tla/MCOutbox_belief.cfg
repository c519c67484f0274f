\* A belief is created, indexed, reinforced; its first entry is processed again.
CONSTANTS
    Entries = {1, 2}
    Records = {1}
    Workers = {w1}
    Pollers = {w1}
    Drainers = {}
    OpOf <- BeliefOf
    RecordOf <- SameRecordOf
    Poison = {}
    VectorOn = TRUE
    GraphOn = TRUE
    NoEntry = NoEntry
    NoWorker = NoWorker
    BatchSize = 2
    ChunkSize = 1
    MaxRetries = 2
    MaxFaults = 1
    MaxDisruptions = 1
SPECIFICATION Spec
PROPERTIES
    ReprocessingIsHarmless
