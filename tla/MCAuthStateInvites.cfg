SPECIFICATION Spec
CONSTANTS
    Uuids = {u1, u2}
    Tokens = {}
    LegacyTokens = {}
    Admins = {a1, a2}
    Items = {i1, i2}
    Data = {d1, d2}
    BatchLimit = 2
    Attempts = 2
    LegacyPeriod = 1
    SessionTtl = 2
    AdminOps <- InviteOps
    MaxTime = 0
    MaxKeys = 3
    MaxRevision = 3
    NoInvite = NoInvite
    NoSession = NoSession
    NoDeadline = NoDeadline
    NoItem = NoItem
    NoLogin = NoLogin
INVARIANTS
    TypeOK
PROPERTIES
    InvitesGoForward
CHECK_DEADLOCK FALSE
