CONSTANTS
    SeqSpace = 16
    TxBufferSize = 1
    RxBufferSize = 1
    Smss = 1
    Rmss = 1
    MaxRetries = 1
    MaxSackBlocks = 1
    DefaultSynQueueSize = 1
    MaxSynQueueSize = 2
    CongestControl = FALSE
    Byte = {0, 1, 2}
    NoByte = none
    Client = {c}
    OwnIss = {14}
    PeerIss = {0}
    FirstWindows = {2}
    Windows = {2}
    SegFlags <- OrderlyFlags
    MaxSegLen = 0
    OwnStream <- Numbered
    PeerStream <- Numbered
    Stray = FALSE
    MaxAhead = 0
    TxFault <- AnyFault
    SendFlags <- NoFlags
    ReceiveFlags <- NoFlags
    ShutdownFlags <- ShutdownBoth
    Timeouts = FALSE
    Reopen = TRUE
    Reconnect = TRUE
    MaxSent = 1
    MaxReceived = 0
    MaxDupAck = 0
    MaxQueue = 2
SPECIFICATION Spec
INVARIANT RetransmitTimerArmed
INVARIANT FreedBeforeReuse
CHECK_DEADLOCK FALSE
