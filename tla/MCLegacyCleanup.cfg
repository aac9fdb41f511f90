SPECIFICATION Spec
CONSTANTS
    Keys = {k1, k2}
    Runs = {r1, r2}
    Rechecks = 2
    LeaseTime = 1
    RecheckDelay = 2
    RetryDelay = 1
    MaxTrouble = 1
    MaxRestarts = 1
    NoAlarm = NoAlarm
INVARIANTS
    VerifyingHasDriver
PROPERTIES
    CompletionIsEarned
    VerificationEnds
CHECK_DEADLOCK FALSE
