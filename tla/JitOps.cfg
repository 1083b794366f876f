SPECIFICATION Spec
CONSTANTS
    W8 = 4
    W16 = 5
    W32 = 6
    W64 = 7
    Shapes <- AllShapes
    Regs <- MCRegs
    Programs <- MCPrograms
    RegisterFiles <- MCFiles
    Junk = 42
INVARIANTS TypeOK LockStep SameResult
CHECK_DEADLOCK FALSE
