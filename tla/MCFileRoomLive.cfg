SPECIFICATION FairFileSpec
CONSTANTS
    c1 = c1
    c2 = c2
    Client = {c1}
    Edit = {e1, e2}
    MaxRevision = 1
    QueueLimit = 16
    Troubles = 2
INVARIANT QueueIsBounded
PROPERTIES EditIsStored RevokedIsClosed
CHECK_DEADLOCK FALSE
