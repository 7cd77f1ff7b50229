SPECIFICATION Spec
CONSTANTS
    MaxInactivity = 3
    ClockRange = 32
    StartOffset = 10
    Steps <- ByOneOrTwo
    MaxTime = 12
INVARIANTS TypeOK SilentPlayersGo
PROPERTY ActivePlayersStay
CHECK_DEADLOCK FALSE
