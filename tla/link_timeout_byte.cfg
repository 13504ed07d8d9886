SPECIFICATION Spec
CONSTANTS
    DefaultTimeout = 260
    Requested = {260}
    ServerDelay = 3
    Oldest = 18
    MaxFaults = 0
PROPERTIES
    GivesUpWhenAsked
