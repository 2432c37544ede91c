SPECIFICATION Spec
CONSTANTS
    NumSensors = 2
    Blocks <- Two
    SensorStart = 0
    Reading <- Readings
    TimeStart = 10
    MaxLedger = 4
    MaxLogs = 4
    MaxRuns = 2
    MaxLosses = 1
INVARIANTS
    AverageComesFirst
    AnswersDoNotOverlap
    AggregatesMatchTheirMarks
    RecentAveragesAgree
CHECK_DEADLOCK FALSE
