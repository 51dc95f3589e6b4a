CONSTANTS
    Events = {1, 2}
    Drains = {d1, d2}
    BatchSize = 2
    MaximumAttempts = 2
    Visibility = 1
    CrashLimit = 3
SPECIFICATION Spec
INVARIANT NoClaimBeyondMaximum
CHECK_DEADLOCK FALSE
