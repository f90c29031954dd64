SPECIFICATION FileSpec
CONSTANTS
    c1 = c1
    c2 = c2
    Client <- MCClient
    Edit = {e1}
    MaxRevision = 2
    QueueLimit = 16
    Troubles = 1
INVARIANTS ToldIsDurable BaselineIsMerged
SYMMETRY Symmetry
CHECK_DEADLOCK FALSE
