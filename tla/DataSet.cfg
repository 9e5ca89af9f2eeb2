SPECIFICATION Spec
CONSTANTS
    Streams <- MCStreams
    NoBlock = NoBlock
    BlockIds <- MCBlockIds
    MaxPages = 3
    MaxBlocks = 3
INVARIANT ClosedOnce
PROPERTIES ReadsTheAnswer NextRowReturns
