SPECIFICATION Spec
CONSTANTS
    Invites = {u1, u2}
    Networks = {n1}
    Requests = {r1, r2}
    Crons = {c1}
    Kinds = {"add", "extend", "delete", "restore", "purge"}
    MaxGroups = 2
    LedgerLimit = 2
    MaxTrouble = 1
    All = All
    Earlier = Earlier
    Foreign = Foreign
    Nobody = Nobody
SYMMETRY Symmetry
CONSTRAINT FollowedApart
INVARIANTS
    LeasesExclude
    WritersCopyIsCurrent
PROPERTIES
    NothingForgotten
CHECK_DEADLOCK FALSE
