SPECIFICATION FatSpec
CONSTANTS
    NClus = 5
    ClusSize = 2
    RootEntries = 2
    DirEntries = 3
    Path <- MCPath
    DirName = {"d"}
    Fd = {1}
    MaxWrite = 3
    MaxLen = 4
    CopiesOver = TRUE
    None = None
INVARIANT ChainsWhole
CHECK_DEADLOCK FALSE
