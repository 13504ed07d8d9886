CONSTANTS
    TimeSpan = 29
    MaxLate = 2
    DebounceDelay = 2
    NoiseFilterDelay = 1
    MaxPresses = 4
    Modes <- MCModes
SPECIFICATION Spec
INVARIANTS
    TypeOK
    PressNotLost
    PauseSettles
    HoldNotLost
PROPERTIES
    NoiseRejected
    ClicksCounted
    HeldOnce
