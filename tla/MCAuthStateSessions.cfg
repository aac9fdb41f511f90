SPECIFICATION Spec
CONSTANTS
    Uuids = {u1}
    Tokens = {t1, t2}
    LegacyTokens = {t1}
    Admins = {a1}
    Items = {i1}
    Data = {d1, d2}
    BatchLimit = 2
    Attempts = 2
    LegacyPeriod = 1
    SessionTtl = 2
    AdminOps <- SessionOps
    MaxTime = 2
    MaxKeys = 3
    MaxRevision = 4
    NoInvite = NoInvite
    NoSession = NoSession
    NoDeadline = NoDeadline
    NoItem = NoItem
    NoLogin = NoLogin
INVARIANTS
    StoredSessionsSupported
    HonouredIsCurrent
PROPERTIES
    SessionEndsForOwnCause
CHECK_DEADLOCK FALSE
