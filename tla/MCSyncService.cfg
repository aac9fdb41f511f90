SPECIFICATION Spec
CONSTANTS
    Requests = {change, login}
    Logins = {login}
    Threads = {t1, t2}
    SIGNATURE_MAX_SKEW_SECONDS = 1
    Ahead = 0
    Pause = 1
    LastSecond = 3
    MaxTrouble = 1
    None = None
INVARIANTS ActsOnce AnswerIsTrue SlotsAreHeld
PROPERTY PermitsReturn
CHECK_DEADLOCK FALSE
