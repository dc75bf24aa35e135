CONSTANTS
    MaxA = 9
    NumLocals = 1
    MaxOperands = 2
    MaxSource = 8
SPECIFICATION FairSpec
PROPERTIES RepackEnds
CHECK_DEADLOCK FALSE
