SPECIFICATION TabletSpec
CONSTANTS
    Types <- MCWithVector
    NotInsertable = {"VECTOR", "UNKNOWN"}
    Timestamps = {1, 2}
    CallerCells <- MCCells
    NoCell = NoCell
    NullValue = NullValue
    Placeholder = Placeholder
    Models = {"tree", "table"}
    MaxTabletRows = 1
    LongRows <- MCLongRows
    MaxLong = 0
    MaxBatch = 0
    MaxBatchRows = 1
    None = None
INVARIANT NeverPanics
