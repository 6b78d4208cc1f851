SPECIFICATION Spec
CONSTANTS
    main = main
    idle = idle
    a = a
    b = b
    c = c
    s1 = s1
    s2 = s2
    w1 = w1
    w2 = w2
    sleeping = sleeping
    NULL = NULL
    Task <- FiveTasks
    TableRest <- RestABC
    Queue <- MCQueue
    Main = main
    Idle = idle
    Pri = {17, 19}
    PRI_NORM = 17
    PRI_IDLE = 19
    StartPri = {17}
    Sema = {}
    WaitQ = {w1}
    Sleeping = sleeping
    Irq = {}
    IrqSema = {}
    EchoTask = {}
    SleepTicks = {}
    TickMod = 1
    MaxTick = 1
INVARIANTS ExitedTaskIsFree
