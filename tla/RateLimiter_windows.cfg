\* Two ticks are a second, three a minute, nine an hour.
SPECIFICATION Spec
CONSTANTS
    PerMinute = 2
    PerHour = 3
    Second = 2
    Minute = 3
    Hour = 9
    CleanupInterval = 5
    MaxNow = 16
CHECK_DEADLOCK FALSE
INVARIANTS
    TypeOK
    WindowLimits
    KeptBounded
    RetryAfterSuffices
