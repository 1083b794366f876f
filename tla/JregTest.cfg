SPECIFICATION TestSpec
CONSTANTS
    NumVirtual = 16
    NumNative = 16
    Pinned <- x86Pinned
    Reserved <- x86Reserved
    WordSize = 65536
    MaxTmps = 2
    MaxTick = 100
    Start <- MCStart
    Garbage <- MCGarbage
INVARIANTS SumsAsCommented CallsPossible
PROPERTY ProgramEnds
CHECK_DEADLOCK FALSE
