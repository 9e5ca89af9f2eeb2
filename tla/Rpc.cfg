SPECIFICATION Spec
CONSTANTS
    Requests <- MCRequests
    LateRequests <- MCLateRequests
    ReadArgs <- MCReadArgs
    Bodies <- MCBodies
    Decode <- MCDecode
    ArgsOf <- MCArgsOf
    ResultOf <- MCResultOf
    OrderOf <- MCOrderOf
    Ascending <- MCAscending
    Extra <- MCExtra
    Orders <- MCOrders
    Universe <- MCUniverse
    MaxDepth <- MCDepth
    MinSeq <- MCMinSeq
    MaxSeq = 1
    MaxOwed = 2
    MaxAddrs = 2
    None = None
INVARIANTS TakesOwnReply FailureIsFinal ArgsDelivered ReplyIntact ReplyTolerated
PROPERTY CallEnds
