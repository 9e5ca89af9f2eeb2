SPECIFICATION HSpec
CONSTANTS
    Devices = {v1, v2, v3}
    Nodes <- MCNodes
    NoNode = NoNode
    NoSubs = NoSubs
    EmptyIp = EmptyIp
    NoHint = NoHint
    MaxPort = 65535
    MaxEntries = 2
    Ttl = 1
    MaxBatch = 2
    MaxSeq = 4
    MaxTime = 2
SYMMETRY Symmetry
INVARIANTS Bounded EvictionDetermined HintsUsable HintIsLatest
PROPERTY ImplementsQueue
