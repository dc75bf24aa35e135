CONSTANTS
    Values = {v}
    MaxStack = 5
    MaxFrames = 2
SPECIFICATION Spec
INVARIANTS
    FramesIntact
PROPERTIES
    KeepsPromise
CHECK_DEADLOCK FALSE
