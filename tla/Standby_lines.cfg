SPECIFICATION Spec
CONSTANTS
    Horizon = 9
    Hours = 6
    Moment = 2
    Fields = 4
INVARIANTS SleepReported
CHECK_DEADLOCK FALSE
