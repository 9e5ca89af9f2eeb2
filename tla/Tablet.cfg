SPECIFICATION TabletSpec
CONSTANTS
    Types <- MCTwoTypes
    NotInsertable = {"VECTOR", "UNKNOWN"}
    Timestamps = {1, 2}
    CallerCells <- MCCells
    NoCell = NoCell
    NullValue = NullValue
    Placeholder = Placeholder
    Models = {"tree", "table"}
    MaxTabletRows = 3
    LongRows <- MCLongRows
    MaxLong = 9
    MaxBatch = 2
    MaxBatchRows = 1
    None = None
INVARIANTS TypeOK ReceivedAsBuilt
PROPERTY SortKeepsMeaning
