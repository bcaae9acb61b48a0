CONSTANTS
    SeqSpace = 16
    TxBufferSize = 1
    RxBufferSize = 1
    Smss = 2
    Rmss = 1
    MaxRetries = 1
    MaxSackBlocks = 1
    DefaultSynQueueSize = 1
    MaxSynQueueSize = 2
    CongestControl = FALSE
    Byte = {0, 1, 2}
    NoByte = none
    Client = {c}
    OwnIss = {14}
    PeerIss = {0}
    FirstWindows = {2}
    Windows = {2}
    SegFlags <- AllFlags
    MaxSegLen = 1
    OwnStream <- Numbered
    PeerStream <- Numbered
    Stray = TRUE
    MaxAhead = 0
    TxFault <- NoFault
    SendFlags <- NagleOrWait
    ReceiveFlags <- NoFlags
    ShutdownFlags <- ShutdownAny
    Timeouts = TRUE
    Reopen = FALSE
    Reconnect = FALSE
    MaxSent = 1
    MaxReceived = 1
    MaxDupAck = 0
    MaxQueue = 3
SPECIFICATION FairSpec
INVARIANT TypeOK
INVARIANT NoLostWakeup
INVARIANT WaitEndsWhereContracted
INVARIANT UnownedLingers
INVARIANT ClosedOnce
INVARIANT EventFlagsFresh
PROPERTY ImplementsContract
PROPERTY SlotReturned
CHECK_DEADLOCK FALSE
