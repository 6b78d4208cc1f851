SPECIFICATION FairSpec
CONSTANTS
    None = None
    Unit = {0}
    Client = {"a", "b"}
    Cyl = {0, 1}
    FDD_RETRY = 3
    Tmo = 2
    Slow = {"specify", "result", "lost"}
    MaxFaults = 3
    MaxCalls = 2
INVARIANTS InterruptUnderstood DriveRuns
PROPERTIES ImplementsDevice CallsReturn MotorStops
CHECK_DEADLOCK FALSE
