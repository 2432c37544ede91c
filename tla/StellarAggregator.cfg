SPECIFICATION Spec
CONSTANTS
    NumSensors = 2
    Blocks <- OneAndTwo
    SensorStart = 0
    Reading <- Readings
    TimeStart = 10
    MaxLedger = 4
    MaxLogs = 4
    MaxRuns = 1
    MaxLosses = 0
INVARIANTS
    MarksAdjoin
    YoungAccountsAreNotRefused
    CoversBeforeTheLastLedger
CHECK_DEADLOCK FALSE
