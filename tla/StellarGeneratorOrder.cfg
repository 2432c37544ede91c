SPECIFICATION Spec
CONSTANTS
    Device = {d1}
    LogsNumber = 2
    SendTxTo = {"stellar-core", "horizon"}
    MaxDisturbances = 2
    MaxStaleLoads = 1
    MaxLosses = 1
    MaxRestarts = 1
INVARIANTS
    LogsInOrder
    ReportedMeansAccepted
    LossesLeaveNoGap
    HorizonKeepsPace
CHECK_DEADLOCK FALSE
