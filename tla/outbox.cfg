CONSTANTS
    Events = {1, 2}
    Drains = {d1, d2}
    BatchSize = 2
    MaximumAttempts = 2
    Visibility = 1
    CrashLimit = 2
SPECIFICATION FairSpec
INVARIANTS
    OutboxTypeOK
    ExclusiveClaims
PROPERTIES
    PublishedForGood
    EveryEventSettles
CHECK_DEADLOCK FALSE
