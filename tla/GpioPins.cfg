SPECIFICATION Spec
CONSTANTS
    Pin = {p1, p2, p3}
    GPIO_MAX_PINS = 2
    MaxStarts = 2
INVARIANTS
    TypeOK
    ListAccurate
    CleanupReleases
CHECK_DEADLOCK FALSE
