SPECIFICATION Spec
CONSTANTS
    c1 = c1
    c2 = c2
    c3 = c3
    Client = {c1, c2, c3}
    Name = {n1, n2, n3}
    Room = {r1, r2}
    Nobody = Nobody
    NoName = NoName
    NoRoom = NoRoom
    Input = Input
    Missing = Missing
    TooShort = TooShort
    Edge <- NoEdge
    Losing <- OneLosing
    GAME_NODE_NUM = 4
    MaxReqDenied = 1
    MaxBatch = 2
    MaxPlayerCount = 3
SYMMETRY Symmetry
CONSTRAINT OneDenied
INVARIANTS TypeOK SingleCustody RoomAgreement NeverTerminated WaitingListSound HandOverSound
PROPERTIES OwnerOnly RoomsFollowLifecycle NamesGivenOnce ClientsFollowLifecycle
CHECK_DEADLOCK FALSE
