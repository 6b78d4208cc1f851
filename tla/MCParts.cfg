SPECIFICATION Spec
CONSTANTS
    t1 = t1
    t2 = t2
    t3 = t3
    t4 = t4
    q1 = q1
    q2 = q2
    NULL = NULL
    Task = {t1, t2, t3, t4}
    Queue = {q1, q2}
    Nil = Nil
    FarBase = 20
    FarEnd = 29
    DmaBase = 5
    DmaEnd = 8
    Size = {0, 1, 32, 33, 1048561}
    NoProc = NoProc
    MAX_PROCESS = 3
    KSTACKS = 2
    Thread = {t1, t2, t3, t4}
    Kernel = t1
    Shells = {0}
    DupFails = FALSE
    MaxPid = 4
    Proc = {"a", "b"}
    PROC_FILES = 2
    MAX_OPEN_FILE = 3
    File = {"doc", "tty1"}
    Minor <- MCMinor
    Exclusive = {"tty1"}
    MaxCalls = 4
    c1 = c1
    c2 = c2
    c3 = c3
    b1 = b1
    b2 = b2
    b3 = b3
    NoBlock = NoBlock
    NBuf = 2
    Block = {b1, b2, b3}
    Client = {c1, c2, c3}
    MayFail = {}
    MaxVer = 1
    Caller = {"s", "t"}
    Creators = 2
    SecSize = 2
    SecPerClus = 2
    EntPerSec = 2
    RootSecs = 2
    FileClus = {2, 3, 4}
    DirClus = {5, 6}
    RootLists <- MCRootLists
    DirLists <- MCDirLists
    OldName = {"d", "f", "g", "h", "i", "j"}
    NewName = {"x", "y"}
    MaxSize = 4
    MaxPinned = 1
    NoEnt = NoEnt
    Ino512 = Ino512
    NClus = 5
    ClusSize = 2
    RootEntries = 2
    DirEntries = 3
    Path <- MCPath
    DirName = {"d"}
    Fd = {1}
    MaxWrite = 3
    MaxLen = 4
    CopiesOver = FALSE
    None = None
    HeapBase = 2
    HeapBytes = 32
    Request = {0, 3, 6, 12}
    MAXFILE = 3
    StdFiles = 2
    DEF_BUFSIZE = 2
    MaxBytes = 3
    MaxRead = 2
INVARIANTS
    HeapsAreTiled RunningHasSlot NoLostWakeup StacksConserved
    DescriptorKeepsFile ReferencesCounted NoChangeLost
    ReadsRight  ChainsWhole UserHeapTiled StreamsInOrder
PROPERTIES
    ImplementsFifo ImplementsAllocator ImplementsStore
CHECK_DEADLOCK FALSE
