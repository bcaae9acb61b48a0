CONSTANTS
    SeqSpace = 16
    TxBufferSize = 1
    RxBufferSize = 1
    Smss = 1
    Rmss = 1
    MaxRetries = 1
    MaxSackBlocks = 1
    DefaultSynQueueSize = 1
    MaxSynQueueSize = 2
    CongestControl = FALSE
    Byte = {0}
    NoByte = none
    Client = {c1, c2}
    ResetIn = {"SYN_RECEIVED", "TIME_WAIT"}
    Others = {0, 1}
    SlotCount = 3
    Worker = {w1}
    NoClient = nobody
    Backlog = 2
    Timers = {"timeWait"}
    OpenTypes <- Datagram
    TxFault <- WorksOrFails
SPECIFICATION FairSpec
INVARIANT TypeOK
INVARIANT OneConnectionPerClient
INVARIANT TakenItemStays
INVARIANT AcceptorWoken
INVARIANT SlotAccountedFor
PROPERTY SynServed
CHECK_DEADLOCK FALSE
