SPECIFICATION Spec
CONSTANTS
    MaxInactivity = 3
    ClockRange = 32
    StartOffset = 10
    Steps <- ByOneOrTwo
    MaxTime = 12
INVARIANT OnlySilentExpire
CHECK_DEADLOCK FALSE
