CONSTANTS
    Room = {a}
    Caller = {c1, c2}
    Capacity = 1
    MaxEntry = 3
    Owner = {o1}
SPECIFICATION FairServerSpec
INVARIANTS
    OneRoomInMemory
    HeldRoomIsKept
    RecoveryIsIdle
    LoaderIsAdmissible
    SocketIsGuarded
PROPERTIES
    StopDrains
    UnusedRoomLeaves
    UpgradesDrain
    BlockedRecoveryIsFreed
CHECK_DEADLOCK FALSE
