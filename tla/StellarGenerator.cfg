SPECIFICATION FairSpec
CONSTANTS
    Device = {d1, d2}
    LogsNumber = 2
    SendTxTo = {"stellar-core", "horizon"}
    MaxDisturbances = 1
    MaxStaleLoads = 1
    MaxLosses = 0
    MaxRestarts = 0
INVARIANTS
    SuccessMeansAllSent
PROPERTIES
    RetriesEnd
CHECK_DEADLOCK FALSE
