CONSTANTS
    NumIns = 4
    MaxCopies = 2
    JumpBias = 8
    MaxSize = 7
    MaxCode = 4
    MaxBase = 4
    MaxFixed = 3
    MaxC = 4
    MaxA = 9
    NumLocals = 2
    MaxOperands = 3
    MaxSource = 8
SPECIFICATION MCSpec
INVARIANTS
    JumpsArrive
    NoCopyBypassed
    FirstResultPassed
    OpenResultsPaired
    RenamedOnce
    ValuesKept
PROPERTIES
    RepackEndsUncarried
CHECK_DEADLOCK FALSE
