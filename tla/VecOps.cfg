SPECIFICATION Spec
CONSTANTS
    W8 = 2
    W16 = 4
    W32 = 8
    W64 = 16
    WCL = 5
    Cpus <- MCCpus
    Masks <- MCMasks
    Asked <- MCAsked
    Regs <- MCRegs
    VRegs <- MCVRegs
    Instructions <- MCInstructions
    Files <- MCFiles
    Junk = 43690
INVARIANTS TypeOK SameVectors ScalarsKept PoolSuffices FormsEnabled LanesAsScalars CompareExact
CHECK_DEADLOCK FALSE
