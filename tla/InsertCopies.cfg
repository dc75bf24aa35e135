CONSTANTS
    NumIns = 4
    MaxCopies = 2
    JumpBias = 8
    MaxSize = 7
SPECIFICATION Spec
INVARIANTS IsnextFindsItern
CHECK_DEADLOCK FALSE
