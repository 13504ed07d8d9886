CONSTANTS
    HalfSpan = 6
    Period = 4
    DelayMax = 3
    DelayMin = 1
    Class = "VirtualRelay"
    Durations = {0, 2}
    StaircaseTimes = {2}
    DefaultTime = 1
    MaxLag = 1
    Preempted = FALSE
SPECIFICATION Spec
PROPERTY
    CountdownSurvivesRestart
