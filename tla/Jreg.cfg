SPECIFICATION MCSpec
CONSTANTS
    NumVirtual = 5
    NumNative = 5
    Pinned <- MCPinned
    Reserved <- MCReserved
    WordSize = 7
    MaxTmps = 1
    MaxTick = 9
    MaxCalls = 3
INVARIANTS JTypeOK OperandsResident
PROPERTY ImplementsVRegMachine
CHECK_DEADLOCK FALSE
