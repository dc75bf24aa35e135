CONSTANTS
    HalfModulus = 8
    Chars = {"0", "1", "2", "3", "f", "x", "-", "+", " "}
    MaxText = 5
    Operands = {0, 1, 2, 3, 31, 32, 63}
    OperandTexts <- ShortTexts
    IntBits = 16
    Smear <- SmearOfHalf
SPECIFICATION MCSpec
INVARIANTS
    ChainsExact
    ParsedAsMeant
    RoundTrips
    PowersFound
CHECK_DEADLOCK FALSE
