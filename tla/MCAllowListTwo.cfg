SPECIFICATION Spec
CONSTANTS
    Invites = {u1, u2}
    Networks = {n1, n2}
    Requests = {r1, r2}
    Crons = {c1}
    Kinds = {"add", "extend", "delete", "restore", "purge"}
    MaxGroups = 1
    LedgerLimit = 1
    MaxTrouble = 0
    All = All
    Earlier = Earlier
    Foreign = Foreign
    Nobody = Nobody
SYMMETRY Symmetry
PROPERTIES
    RemovalSparesOthers
CHECK_DEADLOCK FALSE
