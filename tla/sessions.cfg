CONSTANTS
    Users = {u1, u2, u3}
    NoUser = NoUser
    NoSession = NoSession
    SessionIds = {s1, s2}
    InvitationIds = {n1}
    Indices = {0}
    Settings <- ThreeSettings
SPECIFICATION Spec
SYMMETRY MCSymmetry
INVARIANTS TypeOK OwnerIsSenior MembersAreOnline
PROPERTIES SeniorityKept DisclosureIsGranted
CHECK_DEADLOCK FALSE
