CONSTANTS
    HalfSpan = 3
    Period = 2
    DelayMax = 1
    DelayMin = 1
    Class = "VirtualRelay"
    Durations = {0, 2}
    StaircaseTimes = {2}
    DefaultTime = 1
    MaxLag = 1
    Preempted = FALSE
SPECIFICATION Spec
INVARIANTS
    TypeOK
    SaveWithinDelay
PROPERTIES
    NeverEarly
    CountdownServed
    CountdownResumed
    BurstSavedOnce
