CONSTANTS
    SeqSpace = 16
    TxBufferSize = 1
    RxBufferSize = 1
    Smss = 1
    Rmss = 1
    MaxRetries = 1
    MaxSackBlocks = 1
    DefaultSynQueueSize = 1
    MaxSynQueueSize = 2
    CongestControl = FALSE
    Byte = {0, 1, 2}
    NoByte = none
    Client = {c}
    OwnIss = {14}
    PeerIss = {0}
    FirstWindows = {2}
    Windows = {0, 2}
    SegFlags <- CloseFlags
    MaxSegLen = 0
    OwnStream <- Numbered
    PeerStream <- Numbered
    Stray = TRUE
    MaxAhead = 0
    TxFault <- NoFault
    SendFlags <- NoFlags
    ReceiveFlags <- NoFlags
    ShutdownFlags <- ShutdownBoth
    Timeouts = FALSE
    Reopen = FALSE
    Reconnect = FALSE
    MaxSent = 0
    MaxReceived = 0
    MaxDupAck = 0
    MaxQueue = 3
SPECIFICATION Spec
INVARIANT UnownedLingers
CHECK_DEADLOCK FALSE
