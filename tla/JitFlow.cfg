SPECIFICATION FairSpec
CONSTANTS
    Types = {"UINT8", "INT32"}
    W8 = 4
    W16 = 5
    W32 = 6
    W64 = 7
    Regs <- MCRegs
    Programs <- MCPrograms
    RegisterFiles <- MCFiles
    Junk = 42
INVARIANTS LockStep SameResult
PROPERTIES StoresOnlyResult RunsForward NativeEnds
CHECK_DEADLOCK FALSE
