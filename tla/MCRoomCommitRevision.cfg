CONSTANTS
    Lease = {l1, l2}
    Generation <- MCGeneration
    NoGeneration = NoGeneration
    Record <- MCRecord
    NoRecord = NoRecord
    Grant = 1
    MaxLease = 2
    MaxBackup = 1
    MaxVersion = 5
    Horizon = 0
    Hold = 1
    Beat = 2
    Safety = 0
    Drift = 0
    WallSkew = 0
    Edit = {e1}
    MaxRevision = 3
    Attempts = 2
SYMMETRY Symmetry
SPECIFICATION CommitSpec
INVARIANT RevisionIsMerged
CHECK_DEADLOCK FALSE
