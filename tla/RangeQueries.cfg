SPECIFICATION Spec
CONSTANTS
    Bound <- Turns
    Logged <- Logs
    Zone <- Hour
INVARIANTS
    AgreesWithinOneFrame
    NeverMoreThanTheRange
    ScansDifferByTheOffset
    Get1MissesOnlyLateLogs
PROPERTIES
    EnumerationEnds
CHECK_DEADLOCK FALSE
