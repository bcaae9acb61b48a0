CONSTANTS
    SeqSpace = 16
    TxBufferSize = 3
    RxBufferSize = 2
    Smss = 2
    Rmss = 1
    MaxRetries = 1
    MaxSackBlocks = 1
    DefaultSynQueueSize = 1
    MaxSynQueueSize = 2
    CongestControl = TRUE
    Byte = {0, 1, 2, 3}
    NoByte = none
    Client = {c}
    OwnIss = {14}
    PeerIss = {0}
    FirstWindows = {3}
    Windows = {0, 2}
    SegFlags = {{"ACK"}}
    MaxSegLen = 0
    OwnStream <- Numbered
    PeerStream <- Numbered
    Stray = FALSE
    MaxAhead = 0
    TxFault <- NoFault
    SendFlags <- NagleOrWait
    ReceiveFlags <- NoFlags
    ShutdownFlags <- ShutdownBoth
    Timeouts = FALSE
    Reopen = FALSE
    Reconnect = FALSE
    MaxSent = 4
    MaxReceived = 0
    MaxDupAck = 2
    MaxQueue = 3
SPECIFICATION FairSpec
INVARIANT InFlightCovered
INVARIANT RetransmitsWrittenData
INVARIANT ZeroWindowProbed
PROPERTY SendsWithinWindow
PROPERTY CallsReturn
CHECK_DEADLOCK FALSE
