CONSTANTS
    N = 2
    Switched = {2}
    Measured = {1}
    MaxVersion = 3
    MaxInFlight = 1
    MaxFaults = 2
SPECIFICATION Spec
INVARIANTS
    TypeOK
    NothingForgotten
PROPERTIES
    RunsSessions
    FollowsTheDevice
    EveryElementServed
