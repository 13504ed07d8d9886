SPECIFICATION Spec
CONSTANTS
    DefaultTimeout = 7
    Requested = {3}
    ServerDelay = 3
    Oldest = 18
    MaxFaults = 2
INVARIANTS
    TypeOK
    HeardInTime
    SilenceNoticed
PROPERTIES
    RunsSessions
    ResponsiveKept
    FailuresSpaced
    ComesBack
CHECK_DEADLOCK TRUE
