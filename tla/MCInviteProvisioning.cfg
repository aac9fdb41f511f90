SPECIFICATION Spec
CONSTANTS
    Actors = {r1, r2}
    Keys = {k1}
    MaxStarts = 3
    MaxTrouble = 1
    MaxOutside = 1
    MaxOthers = 1
    NoInvite = NoInvite
    NoUser = NoUser
    NoItem = NoItem
    Free = Free
INVARIANTS
    QuietIsAgreed
PROPERTIES
    PurgeSparesLive
CHECK_DEADLOCK FALSE
