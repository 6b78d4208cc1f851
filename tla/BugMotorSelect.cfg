SPECIFICATION Spec
CONSTANTS
    None = None
    Unit = {0, 1}
    Client = {"a", "b"}
    Cyl = {0, 1}
    FDD_RETRY = 2
    Tmo = 2
    Slow = {}
    MaxFaults = 0
    MaxCalls = 2
INVARIANT DriveRuns
CHECK_DEADLOCK FALSE
