SPECIFICATION MCSpec
CONSTANTS
    NumVirtual = 5
    NumNative = 6
    Pinned <- MCPinned
    Reserved <- MCReserved
    WordSize = 6
    MaxTmps = 1
    MaxTick = 7
INVARIANTS TypeOK MapsInverse FixedExactly FixedOwners TicksOrdered NativeFound
PROPERTY ValuesKept
CHECK_DEADLOCK FALSE
