\* One worker that polls and is asked to drain, a toxic fact next to a healthy one
\* and a belief; batches and chunks of two, one fault, one disruption (a crash, a
\* cancellation, a stop).
CONSTANTS
    Entries = {1, 2, 3}
    Records = {1, 2, 3}
    Workers = {w1}
    Pollers = {w1}
    Drainers = {w1}
    OpOf <- MCOpOf
    RecordOf <- MCRecordOf
    Poison = {1}
    VectorOn = TRUE
    GraphOn = TRUE
    NoEntry = NoEntry
    NoWorker = NoWorker
    BatchSize = 2
    ChunkSize = 2
    MaxRetries = 2
    MaxFaults = 1
    MaxDisruptions = 1
SPECIFICATION FairSpec
INVARIANTS
    CompletedIsIndexed
    FailuresAreOwn
    ClaimsAreAccounted
PROPERTIES
    ImplementsDelivery
    EveryEntrySettles
