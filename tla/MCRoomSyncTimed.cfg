CONSTANTS
    Server = {s1, s2}
    MaxVersion = 1
SPECIFICATION TimedSpec
INVARIANTS
    NoFalseFence
    NoticeCoversCommit
PROPERTIES
    CommitReachesRooms
    QueueMovesOn
