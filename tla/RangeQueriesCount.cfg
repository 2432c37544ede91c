SPECIFICATION Spec
CONSTANTS
    Bound <- Turns
    Logged <- Logs
    Zone <- Hour
INVARIANTS
    AggregatesCountEveryLog
CHECK_DEADLOCK FALSE
