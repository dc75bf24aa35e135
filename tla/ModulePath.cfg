CONSTANTS
    Names = {a, b}
    MaxLen = 3
    MaxTables = 4
    MaxPreload = 2
SPECIFICATION Spec
INVARIANTS BufferIsPath LoadedByPath RequireAnswersType IndexFindsPreload
