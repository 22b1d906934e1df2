CONSTANTS
    Logins <- TwoLogins
    Asks <- TwoAsk
    a = a
    b = b
    s1 = s1
    s2 = s2
    s3 = s3
    NoUser = NoUser
    Closed = Closed
    Users <- MCUsers
    Admins <- MCAdmins
    Sessions <- TwoSessions
    MaxBusy = 2
SPECIFICATION Spec
INVARIANT OneSessionPerAccount
CHECK_DEADLOCK FALSE
