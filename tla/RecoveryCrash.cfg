SPECIFICATION FairSpec
CONSTANTS
    MaxIndex = 3
    MaxCrashes = 2
    MaxBuilds = 2
    MaxInstalls = 1
    MaxLosses = 1
    Overlap = FALSE
CHECK_DEADLOCK FALSE
INVARIANTS AckedSurvives SnapshotCoversPurge AppliedRebuildable
PROPERTIES ComesBack
