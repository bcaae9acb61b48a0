CONSTANTS
    SeqSpace = 16
    TxBufferSize = 2
    RxBufferSize = 4
    Smss = 1
    Rmss = 2
    MaxRetries = 1
    MaxSackBlocks = 1
    DefaultSynQueueSize = 1
    MaxSynQueueSize = 2
    CongestControl = FALSE
    Byte = {0, 1, 2}
    NoByte = none
    Client = {c}
    OwnIss = {14}
    PeerIss = {12}
    FirstWindows = {2}
    Windows = {2}
    SegFlags <- DataFlags
    MaxSegLen = 2
    OwnStream <- Numbered
    PeerStream <- Numbered
    Stray = TRUE
    MaxAhead = 3
    TxFault <- NoFault
    SendFlags <- NoFlags
    ReceiveFlags <- NoFlags
    ShutdownFlags <- ShutdownBoth
    Timeouts = FALSE
    Reopen = FALSE
    Reconnect = FALSE
    MaxSent = 0
    MaxReceived = 4
    MaxDupAck = 0
    MaxQueue = 3
SPECIFICATION Spec
INVARIANT InOrderDataAdvances
CHECK_DEADLOCK FALSE
