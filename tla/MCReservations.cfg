SPECIFICATION Spec
CONSTANTS
    asha = asha
    ben = ben
    Users <- MCUsers
    Windows <- MCWindows
    MinLength = 1
    MaxLength = 2
    StartGrace = 0
    MaxAdvance = 2
    NoShowGrace = 1
    MaxUpcoming = 1
    ForceStop = TRUE
    MaxNow = 2
    MaxRows = 2
    MaxSessions = 2
    MaxFaults = 1
SYMMETRY Symmetry
CHECK_DEADLOCK FALSE
INVARIANTS
    BookingsConsistent
    ReadyMeansFree
PROPERTIES
    SettlesOnce
