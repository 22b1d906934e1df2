CONSTANTS
    a = a
    b = b
    c = c
    NoUser = NoUser
    NoAttr = NoAttr
    Users <- TwoUsers
    NSlots = 3
    IdCycle = 2
    ContextIds = {1}
    RoomRequests <- PairRequests
    BlockLists <- NoBlocks
    DataRequests <- NoData
    AttrValues = {}
    U16Size = 65536
    MaxRooms = 1
    MaxBusy = 2
SPECIFICATION Spec
INVARIANTS DisconnectLeavesRooms
