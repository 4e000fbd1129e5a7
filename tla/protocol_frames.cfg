\* One connection; a buffer smaller than a frame, a limit smaller than the buffer.
CONSTANTS
    Requests <- MCRequests
    Replies = {1, 3, 4, 9}
    MaxMsgSize = 3
    Width = 8
    Buffer = 5
    None = None
SPECIFICATION FairSpec
INVARIANTS
    TypeOK
    WholeRequest
PROPERTIES
    ImplementsExchange
    BothEnd
