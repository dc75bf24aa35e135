CONSTANTS
    MaxA = 6
    NumRegs = 4
    MaxCode = 3
    MaxResults = 2
    WithOpen = FALSE
SPECIFICATION Spec
INVARIANTS SameValuesRead
CHECK_DEADLOCK FALSE
