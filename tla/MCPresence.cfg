CONSTANTS
    Client = {c1, c2}
    Batch = 1
    Waiting = 1
    Life = 1
    MaxSequence = 3
SPECIFICATION FairPresenceSpec
INVARIANTS
    AnnouncedIsRemembered
    CloseTellsEverybody
    NoResurrection
PROPERTIES
    GhostsGo
CHECK_DEADLOCK FALSE
