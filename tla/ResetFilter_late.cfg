\* One late event, and the filter is out of step.
SPECIFICATION Spec
CONSTANTS
    Window = 2
    MaxGap = 3
    Resets = 2
    MaxClock = 8
INVARIANT TimelySecondIsIgnored
CHECK_DEADLOCK FALSE
