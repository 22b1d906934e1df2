CONSTANTS
    a = a
    b = b
    c = c
    NoUser = NoUser
    NoAttr = NoAttr
    Users <- MCUsers
    NSlots = 3
    IdCycle = 1
    ContextIds = {1}
    RoomRequests <- MixedRequests
    BlockLists <- MixedBlocks
    DataRequests <- NoData
    AttrValues = {}
    U16Size = 4
    MaxRooms = 1
    MaxBusy = 2
SPECIFICATION Spec
INVARIANT BlocksHonoured
PROPERTIES ServiceSpec
