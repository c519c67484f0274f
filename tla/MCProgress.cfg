CONSTANTS
    Off = Off
    a = a
    b = b
    c = c
    gateway = gateway
    script = script
    native = native
    reindex = reindex
    NoThread = NoThread
    e1 = e1
    e2 = e2
SPECIFICATION FairSpec
CHECK_DEADLOCK FALSE
PROPERTIES
    CallsEnd
    ClosesEnd
    RunsEnd
