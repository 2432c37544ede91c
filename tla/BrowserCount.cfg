SPECIFICATION Spec
CONSTANTS
    NumSensors = 1
    Blocks <- Two
    SensorStart = 0
    Reading <- Readings
    TimeStart = 10
    MaxLedger = 4
    MaxLogs = 4
    MaxRuns = 1
    MaxLosses = 0
INVARIANTS
    CountsEveryLog
CHECK_DEADLOCK FALSE
