CONSTANTS
    Lease = {l1, l2}
    Generation <- MCGeneration
    NoGeneration = NoGeneration
    Record <- MCRecord
    NoRecord = NoRecord
    Grant = 1
    MaxLease = 2
    MaxBackup = 1
    MaxVersion = 3
    Horizon = 1
    Hold = 1
    Beat = 2
    Safety = 0
    Drift = 0
    WallSkew = 0
    Edit = {e1}
    MaxRevision = 2
    Attempts = 2
SYMMETRY Symmetry
SPECIFICATION CommitSpec
INVARIANTS
    ActiveRoomIsStored
    NothingToldIsLost ShownIsAccepted
PROPERTIES
    ImplementsHistory
    NoAcceptanceAfterLoss GenerationChangeIsFenced ReplacedRecordIsKept VersionNamesContent
CHECK_DEADLOCK FALSE
