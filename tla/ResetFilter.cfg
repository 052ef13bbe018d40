\* Second events come in time, at the end of the window, or after it.
SPECIFICATION Spec
CONSTANTS
    Window = 2
    MaxGap = 3
    Resets = 4
    MaxClock = 12
INVARIANTS
    TypeOK
    NoResetIsLost
    PublishedOnceIfTimely
CHECK_DEADLOCK FALSE
