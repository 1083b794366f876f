SPECIFICATION Spec
CONSTANTS
    W8 = 4
    W16 = 5
    W32 = 6
    W64 = 7
    Shapes <- AllShapes
    Regs <- MCRegs
    Programs <- SllPrograms
    RegisterFiles <- MCFiles
    Junk = 42
INVARIANT SllAsCommented
CHECK_DEADLOCK FALSE
