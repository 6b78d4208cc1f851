SPECIFICATION MCSpec
CONSTANTS
    main = main
    idle = idle
    a = a
    b = b
    c = c
    s1 = s1
    s2 = s2
    w1 = w1
    w2 = w2
    sleeping = sleeping
    NULL = NULL
    Task <- FiveTasks
    TableRest <- RestABC
    Queue <- MCQueue
    Main = main
    Idle = idle
    Pri = {4, 6, 17, 19}
    PRI_NORM = 17
    PRI_IDLE = 19
    StartPri = {17}
    Sema = {s1}
    WaitQ = {w1}
    Sleeping = sleeping
    Irq = {4, 6}
    IrqSema = {s1}
    EchoTask = {a}
    SleepTicks = {2}
    TickMod = 100
    MaxTick = 3
INVARIANTS TypeOK RunQueueExact CurtaskHeadsBucket IdleOnlyWhenIdle
    SemaphoresSound NoSchedulerPanic QueuesAreRings IrqTaskIsFree
    NoOverdueSleeper
PROPERTY InterruptRunsAtOnce
