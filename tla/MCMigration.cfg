CONSTANTS
    Off = Off
    cmd1 = cmd1
    cmd2 = cmd2
    \* StorageLock: somebody removes the idle entry of the data root
    Runtimes = {"r1"}
    Holders = {"h1"}
    Maintainers = {"m1", "m2"}
    GraphWriters = {"g1", "g2"}
    Inspectors = {"i1"}
    Legacy = {"l1", "l2"}
    Foreign = {"l2"}
    Roots <- LexicalRoots
    Data = "data"
    Given <- ListedRoots
    Removable = {"data"}
    Casts = {{}, {"r1", "h1", "i1"}, {"m1", "g1", "g2"}, {"m1", "m2"}, {"r1", "m1", "l1", "l2"}}
    MaxInodes = 4
    MaxFaults = 1
SPECIFICATION MigrationSpec
CHECK_DEADLOCK FALSE

    
PROPERTIES
    ProfileIsRestorable
    BackupsAreWhole
    ManifestIsDurable
    SnapshotsAreTheSource
