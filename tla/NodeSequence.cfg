SPECIFICATION NodeSpec
CONSTANTS
    NumThreads = 2
    Total = 6
    MaxCrashes = 2
    NumDevices = 2
INVARIANTS
    WorkersKnowTheirTasks
    ClosedWhenAllSettled
    UntroubledDevicesLoseNothing
PROPERTIES
    ImplementsTaskPool
    PoolCloses
CHECK_DEADLOCK FALSE
