CONSTANTS
    SeqSpace = 16
    TxBufferSize = 2
    RxBufferSize = 2
    Smss = 1
    Rmss = 1
    MaxRetries = 1
    MaxSackBlocks = 1
    DefaultSynQueueSize = 1
    MaxSynQueueSize = 2
    CongestControl = FALSE
    Byte = {0, 1, 2}
    NoByte = none
    Client = {c}
    OwnIss = {14}
    PeerIss = {0}
    FirstWindows = {0, 2}
    Windows = {0, 2}
    SegFlags <- DataFlags
    MaxSegLen = 1
    OwnStream <- Numbered
    PeerStream <- Numbered
    Stray = TRUE
    MaxAhead = 1
    TxFault <- NoFault
    SendFlags <- NoFlags
    ReceiveFlags <- NoFlags
    ShutdownFlags <- ShutdownBoth
    Timeouts = FALSE
    Reopen = FALSE
    Reconnect = FALSE
    MaxSent = 1
    MaxReceived = 1
    MaxDupAck = 0
    MaxQueue = 3
SPECIFICATION Spec
INVARIANT ZeroWindowProbed
CHECK_DEADLOCK FALSE
