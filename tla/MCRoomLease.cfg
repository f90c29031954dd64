CONSTANTS
    Lease = {l1, l2}
    Generation = {g1, g2}
    NoGeneration = NoGeneration
    Record = {r1}
    NoRecord = NoRecord
    Grant = 4
    MaxLease = 2
    MaxBackup = 1
    MaxVersion = 2
    Horizon = 5
    Hold = 3
    Beat = 1
    Safety = 1
    Drift = 1
    WallSkew = 1
SYMMETRY Symmetry
SPECIFICATION Spec
INVARIANTS
    ActiveIsBacked
PROPERTIES
    RecoveryFindsNoEditor
    NoRevival
CHECK_DEADLOCK FALSE
