CONSTANTS
    a = a
    b = b
    c = c
    NoUser = NoUser
    NoAttr = NoAttr
    Users <- MCUsers
    NSlots = 3
    IdCycle = 4
    ContextIds = {1}
    RoomRequests <- OneRoom
    BlockLists <- NoBlocks
    DataRequests <- OneValue
    AttrValues = {1}
    U16Size = 65536
    MaxRooms = 1
    MaxBusy = 2
    MaxJoins = 3
    MaxQueue = 1
SPECIFICATION ClientSpec
INVARIANTS CacheKnowsRoom CacheComplete StaleMembersExplained
SYMMETRY Symmetry
