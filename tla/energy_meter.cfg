CONSTANTS
    Wrap = 4
    PulseEnergy = 2
    Divisor = 3
    Counters = {0, 5}
    MaxDrawn = 6
    MaxSaved = 9
SPECIFICATION Spec
INVARIANTS
    TypeOK
    OverchargeBounded
PROPERTIES
    PulsesCounted
    CounterNeverBack
