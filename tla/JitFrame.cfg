SPECIFICATION Spec
CONSTANT Calls <- MCCalls
INVARIANTS TypeOK CallerKept PointerKept VirtualsKept
CHECK_DEADLOCK FALSE
