\* A call that fails after its savepoint was released leaves a fact behind.
SPECIFICATION Spec
CONSTANTS
    s1 = s1
    s2 = s2
    s3 = s3
    k1 = k1
    k2 = k2
    None = None
    Sessions = {s1, s2}
    Keys = {k1, k2}
    Calls <- OneFact
    MaxItems = 1
CHECK_DEADLOCK FALSE
INVARIANT AllOrNothing
