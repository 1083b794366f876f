SPECIFICATION Spec
CONSTANTS
    Lines <- MCLines
    MaxLines = 3
    MAX_OPERANDS = 4
INVARIANTS TypeOK Assembled NoneLost Accepted
CHECK_DEADLOCK FALSE
