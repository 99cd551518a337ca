SPECIFICATION Spec
CONSTANTS
    MaxIndex = 2
    MaxCrashes = 0
    MaxBuilds = 1
    MaxInstalls = 1
    MaxLosses = 0
    Overlap = TRUE
CHECK_DEADLOCK FALSE
INVARIANTS SnapshotCoversPurge
