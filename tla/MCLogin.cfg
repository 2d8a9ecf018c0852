CONSTANTS
    Clients = {c1, c2}
    Users = {u1, u2}
    Passwords = {p1, p2}
    u1 = u1
    u2 = u2
    p1 = p1
    p2 = p2
    Typed <- OnePassword
    InitialAccounts <- OneEnabled
    NoUser = NoUser
    MaxRequests = 2
    MaxChanges = 1
SPECIFICATION FairSpec
INVARIANTS
    LoggedInAsSelf
    AuditTrail
PROPERTY
    LoginEnds
