SPECIFICATION LiveSpec
CONSTANTS
    main = main
    idle = idle
    a = a
    b = b
    c = c
    s1 = s1
    s2 = s2
    w1 = w1
    w2 = w2
    sleeping = sleeping
    NULL = NULL
    Task <- FourTasks
    TableRest <- RestAB
    Queue <- MCQueue
    Main = main
    Idle = idle
    Pri = {6, 17, 19}
    PRI_NORM = 17
    PRI_IDLE = 19
    StartPri = {17}
    Sema = {s1}
    WaitQ = {}
    Sleeping = sleeping
    Irq = {6}
    IrqSema = {s1}
    EchoTask = {}
    SleepTicks = {1}
    TickMod = 1
    MaxTick = 1
PROPERTIES ReadyRuns WaiterEnters
