CONSTANTS
    PulseTime = 2
    TimeSpan = 4
SPECIFICATION Spec
INVARIANTS
    TypeOK
    PulseBookkeeping
    CoilsExclusive
    ContactFollowsReport
PROPERTIES
    ActsAtOnce
    NoShortPulse
    CoilReleased
