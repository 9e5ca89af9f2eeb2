SPECIFICATION Spec
CONSTANTS
    Blocks <- MCBlocks
    Null = Null
    MaxCorrupt = 1
    Corruptions <- MCCorruptions
    NonUtf8 = {255}
INVARIANTS RoundTrip CutDetected WellShaped
CHECK_DEADLOCK FALSE
