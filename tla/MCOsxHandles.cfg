SPECIFICATION Spec
CONSTANTS
    t1 = t1
    t2 = t2
    t3 = t3
    disk0 = disk0
    disk1 = disk1
    disk0s1 = disk0s1
    Regions <- AllRegions
    Submaps <- SomeSubmaps
    Threads <- AllThreads
    Disks <- AllDisks
    Physical <- WholeDisks
    Functions <- AllFunctions
INVARIANTS TypeOK KeptIsListedOnce LeftBehind
PROPERTIES Ends
\* The call is over.
CHECK_DEADLOCK FALSE
