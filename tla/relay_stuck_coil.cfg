CONSTANTS
    PulseTime = 2
    TimeSpan = 4
SPECIFICATION Spec
INVARIANT
    ImpulsesEnd
