CONSTANTS
    Logins <- ThreeLogins
    Asks <- ThreeAsk
    a = a
    b = b
    s1 = s1
    s2 = s2
    s3 = s3
    NoUser = NoUser
    Closed = Closed
    Users <- MCUsers
    Admins <- MCAdmins
    Sessions <- ThreeSessions
    MaxBusy = 2
SPECIFICATION Spec
INVARIANTS TypeOK BlockEndsFriendship EntryIsConnected UsageIsExact CachesAgree ScreensAgree
PROPERTY BlockLasts
CHECK_DEADLOCK FALSE
