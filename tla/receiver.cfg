CONSTANTS
    SeqSpace = 16
    TxBufferSize = 2
    RxBufferSize = 4
    Smss = 1
    Rmss = 2
    MaxRetries = 1
    MaxSackBlocks = 2
    DefaultSynQueueSize = 1
    MaxSynQueueSize = 2
    CongestControl = FALSE
    Byte = {0, 1, 2}
    NoByte = none
    Client = {c}
    OwnIss = {14}
    PeerIss = {0}
    FirstWindows = {2}
    Windows = {2}
    SegFlags <- DataFlags
    MaxSegLen = 2
    OwnStream <- Numbered
    PeerStream <- Numbered
    Stray = TRUE
    MaxAhead = 3
    TxFault <- NoFault
    SendFlags <- NoFlags
    ReceiveFlags <- WaitAll
    ShutdownFlags = {}
    Timeouts = FALSE
    Reopen = FALSE
    Reconnect = FALSE
    MaxSent = 0
    MaxReceived = 3
    MaxDupAck = 0
    MaxQueue = 3
SPECIFICATION Spec
INVARIANT ReceiveBufferHolds
INVARIANT SackBlocksSound
INVARIANT DeliveredInOrder
INVARIANT InOrderDataAdvances
PROPERTY WindowNeverShrinks
CHECK_DEADLOCK FALSE
