CONSTANTS
    a = a
    b = b
    x = x
    v1 = v1
    v2 = v2
    NodeId = {a, b}
    EdgeId = {x}
    Value = {v1, v2}
    Undefined = Undefined
    Clash = Clash
    Canvas <- MCCanvas
    MaxRevision = 2
SPECIFICATION Spec
INVARIANTS RoomIsAGraph
PROPERTIES EditsAreMerged ConflictIsReal
