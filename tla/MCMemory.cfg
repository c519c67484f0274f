CONSTANTS
    o1 = o1
    o2 = o2
    o3 = o3
    c1 = c1
    c2 = c2
    c3 = c3
    p1 = p1
    p2 = p2
    i1 = i1
    i2 = i2
    \* BeliefLifecycle
    Stored = {o1, o2, o3}
    InitialRow <- RowOf
    Derived <- Dependents
    Propositions = {"m", "p", "q", "r", "s"}
    Calls = {c1, c2, c3}
    Commands <- Mixed
    None = None
    MaxActive = 4
    \* DecayLifecycle
    Items = {i1, i2}
    Ttl <- TtlOf
    StaleTenths = 7
    ArchiveTenths = 10
    ForgetTenths = 20
    Given = {"active", "archived", "superseded", "trusted"}
    Unset = Unset
    LastInstant = 4
    MaxChanges = 3
    MaxTicks = 3
    MaxFailures = 1
    \* MemoryPruning
    Keys = {i1}
    Tags = {"ephemeral", "durable", "important"}
    Pruners = {p1, p2}
    Changers = {"changer"}
    NoRow = NoRow
    MaxFacts = 2
    MaxTime = 2
    MaxVersion = 4
    MaxPrunes = 2
    \* ConsistencyAudit
    Memories = {i1, i2}
    Kinds = {"fact", "skill"}
    Auditors = {p1, p2}
    Nothing = Nothing
    MaxAudits = 2
SPECIFICATION MemorySpec
SYMMETRY Symmetry
CHECK_DEADLOCK FALSE
INVARIANTS
    
    AuditsReportTheStore
PROPERTIES
    
    PrunedStayRetired
