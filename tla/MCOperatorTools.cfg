SPECIFICATION Spec
CONSTANTS
    MaxTrouble = 3
    MaxRuns = 2
    MaxBuilds = 2
    MaxCommits = 2
    MaxUploads = 2
    MaxMade = 1
    Replies = {"ok", "lost", "rejected"}
    None = None
INVARIANTS
    TypeOK
    HardeningReportsAreTrue
    AopRecordIsTrue
    RequiredIsPassable
    ProgressIsTrue
    CanaryReportIsTrue
    RebootServes
    NoRecordNoTrace
PROPERTIES
    NginxIsWhole
    NothingOverwritten
    OnlyRecordedRemoved
    AppStartsOnProvedData
    PromotedWasProved
    GoesBack
    MovesSafely
    RecoveryEnds
    ServiceReturns
CHECK_DEADLOCK FALSE
