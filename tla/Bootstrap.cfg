SPECIFICATION Spec
CONSTANTS
    Fleets = {2, 4}
    NumTimeAccounts = 2
    MaxOperations = 3
    MaxSigners = 2
    MaxRuns = 2
    MaxDisturbances = 2
INVARIANTS
    CalmRunsFundSmallFleets
PROPERTIES
    SteadyRunsSetUp
    CalmRunsGetReady
    IssuerNeverFollows
CHECK_DEADLOCK FALSE
