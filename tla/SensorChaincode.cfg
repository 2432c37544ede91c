SPECIFICATION Spec
CONSTANTS
    Sensor = {s1}
    Instant <- MonthEnd
    Value <- Readings
    NoLog = NoLog
    MaxProposals = 3
    MaxFaults = 1
INVARIANTS
    TypeOK
    CountsCommittedLogs
    ExtremesOfCommittedLogs
    SumsCommittedLogs
    HistoryAgreesWithAggregates
    FreshTransactionsAreRepeatable
PROPERTIES
    LatestNeverStepsBack
    ImplementsStore
CHECK_DEADLOCK FALSE
