CONSTANTS
    a = a
    b = b
    c = c
    NoUser = NoUser
    NoAttr = NoAttr
    Users <- TwoUsers
    NSlots = 3
    IdCycle = 1
    ContextIds = {0, 1}
    RoomRequests <- WorldRequests
    BlockLists <- NoBlocks
    DataRequests <- SlotData
    AttrValues = {1}
    U16Size = 4
    MaxRooms = 2
    MaxBusy = 2
SPECIFICATION OneRoomSpec
INVARIANTS TypeOK SlotAccounting IndexExact NoGhostMembers
PROPERTIES DisconnectCompletes
