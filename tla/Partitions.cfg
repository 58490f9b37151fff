SPECIFICATION FairSpec
CONSTANTS
    TicksPerDay = 2
    DaysPerWeek = 2
    Retention = 2
    TableInterval = 4
    MaintenanceDelay = 1
    MaintenanceInterval = 2
    Attempts = 2
    MaxTime = 17
    MaxRuns = 2
    MaxFailures = 2
INVARIANTS
    Inv
    OldOnesGo
PROPERTIES
    KeptForRetention
    ShutdownEnds
CHECK_DEADLOCK FALSE
