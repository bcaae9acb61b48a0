CONSTANTS
    SeqSpace = 16
    TxBufferSize = 2
    RxBufferSize = 2
    Smss = 1
    Rmss = 1
    MaxRetries = 1
    MaxSackBlocks = 1
    DefaultSynQueueSize = 1
    MaxSynQueueSize = 1
    CongestControl = FALSE
    Byte = {0, 1, 2}
    NoByte = none
    Client = {c}
    Openings <- OneOrBothActive
    Iss <- OwnIss
    Stream <- Numbered
    Volume <- ClientWrites
    SendFlags <- PlainOrWait
    ShutdownFlags <- ShutdownSendOnly
    MaxWire = 3
    Calls <- OneWay
    MaxMishaps = 1
SPECIFICATION Spec
INVARIANT RestInAgreement
PROPERTY ImplementsStream
PROPERTY SuccessMeansReceived
CHECK_DEADLOCK FALSE
