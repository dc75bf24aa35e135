CONSTANTS
    MaxA = 6
    NumRegs = 5
    MaxCode = 3
    MaxResults = 2
    WithOpen = TRUE
SPECIFICATION Spec
INVARIANTS OneResultValuesRead LinkSlotFree RangesStayTogether FrameCovers
CHECK_DEADLOCK FALSE
