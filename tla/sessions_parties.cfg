CONSTANTS
    Users = {u1, u2}
    NoUser = NoUser
    NoSession = NoSession
    SessionIds = {s1, s2}
    InvitationIds = {}
    Indices = {0, 1}
    Settings <- TwoSettings
SPECIFICATION Spec
SYMMETRY MCSymmetry
PROPERTY PartiesSpec
CHECK_DEADLOCK FALSE
