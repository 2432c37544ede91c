SPECIFICATION FairSpec
CONSTANTS
    Sensor = {d1, d2, asdf}
    Device = {d1, d2}
    Instant <- MonthTurn
    Clock <- TwoMonths
    Value = {1}
    NoLog = NoLog
    LogsNumber = 2
    MaxRuns = 1
    MaxVisits = 1
    MaxProposals = 5
INVARIANTS
    FirstRunNeverConflicts
PROPERTIES
    CompletesUnlessDisturbed
CHECK_DEADLOCK FALSE
