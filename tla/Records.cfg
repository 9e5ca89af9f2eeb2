SPECIFICATION Spec
CONSTANTS
    Devices = {d1, d2}
    Times = {1, 2}
    Cells <- MCCells
    Null = Null
    MaxRows = 3
    Leader <- MCLeader
    NoNode = NoNode
    NoSubs = NoSubs
SYMMETRY Symmetry
INVARIANTS StoredAsGiven FailureHonest FailureRepairable ServerReadable HintsExact
CHECK_DEADLOCK FALSE
