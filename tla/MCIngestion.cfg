\* Three sessions with calls of up to two items.
SPECIFICATION Spec
CONSTANTS
    s1 = s1
    s2 = s2
    s3 = s3
    k1 = k1
    k2 = k2
    None = None
    Sessions = {s1, s2, s3}
    Keys = {k1, k2}
    Calls <- MixedCalls
    MaxItems = 2
SYMMETRY Symmetry
CHECK_DEADLOCK FALSE
INVARIANTS
    EntriesHaveRecords
    NoDuplicates
    SuccessIsComplete
    OneOrphanPerCall
    HistoryIsComplete
