\* Two turns and one caller beside the loop: batches, closes and what must end.
CONSTANTS
    Turns = {t1, t2}
    Callers = {c1}
    Background = Background
    Closer = Closer
    NoActor = NoActor
    MaxBatch = 1
    MaxAttempts = 2
    MaxCancels = 1
    MaxCloses = 2
SPECIFICATION FairSpec
INVARIANTS
    Custody
    OneOwner
    CallsMatchAttempts
    CleanCloseMeansDrained
PROPERTIES
    NoBatchAfterPause
    EverythingEnds
