SPECIFICATION Spec
CONSTANTS
    MaxRuns = 4
    MaxVersions = 3
    MaxThreads = 9
    MaxFaults = 3
INVARIANTS
    TrailsByOne
    RefusedOnlyCut
PROPERTIES
    IsRunStore
CHECK_DEADLOCK FALSE
