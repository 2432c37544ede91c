SPECIFICATION FairSpec
CONSTANTS
    Sensor = {d1}
    Device = {d1}
    Instant <- MonthTurn
    Clock <- MonthTurns
    Value = {1}
    NoLog = NoLog
    LogsNumber = 2
    MaxRuns = 3
    MaxVisits = 0
    MaxProposals = 6
INVARIANTS
    CompletedMeansLogged
PROPERTIES
    LatestNeverGoesBackInTime
    EveryRunEnds
CHECK_DEADLOCK FALSE
