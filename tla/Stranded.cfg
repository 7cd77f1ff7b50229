SPECIFICATION Spec
CONSTANTS
    c1 = c1
    c2 = c2
    c3 = c3
    Client = {c1, c2}
    Name = {n1, n2}
    Room = {r1}
    Nobody = Nobody
    NoName = NoName
    NoRoom = NoRoom
    Input = Input
    Missing = Missing
    TooShort = TooShort
    Edge <- NoEdge
    Losing <- OneLosing
    GAME_NODE_NUM = 4
    MaxReqDenied = 0
    MaxBatch = 1
    MaxPlayerCount = 2
SYMMETRY Symmetry
INVARIANT NobodyStranded
CHECK_DEADLOCK FALSE
