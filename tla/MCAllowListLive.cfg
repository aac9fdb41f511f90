SPECIFICATION Spec
CONSTANTS
    Invites = {u1}
    Networks = {n1}
    Requests = {r1}
    Crons = {c1}
    Kinds = {"add", "delete"}
    MaxGroups = 2
    LedgerLimit = 2
    MaxTrouble = 2
    All = All
    Earlier = Earlier
    Foreign = Foreign
    Nobody = Nobody
PROPERTIES
    TroubleIsCleanedUp
CHECK_DEADLOCK FALSE
