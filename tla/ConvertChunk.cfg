CONSTANTS
    NumProtos = 2
    MaxInserts = 2
    Versions = {1, 2}
    BufferIds = {b1, b2, b3}
    None = None
SPECIFICATION FairSpec
INVARIANTS PreparedOnce BuffersAccounted FailureExplained OnlyLeftoversSkip
PROPERTIES Answers
