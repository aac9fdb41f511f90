SPECIFICATION FairSpec
CONSTANTS
    Requests = {r1, r2}
    Limit = 2
    Window = 2
    NoBucket = NoBucket
    NoAlarm = NoAlarm
    MaxTime = 6
INVARIANTS
    SlidingWindowBound
    BucketHasAlarm
PROPERTIES
    OnlyExpiryOrSuccessForgets
    ExpiredBucketCollected
