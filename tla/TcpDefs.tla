------------------------------ MODULE TcpDefs ------------------------------
(***************************************************************************)
(* Types, configuration constants and sequence-number arithmetic shared by *)
(* the TCP modules (tcp.h, socket.h, tcp_type.ads, socket_types.ads).      *)
(***************************************************************************)
EXTENDS Integers, Sequences, FiniteSets

CONSTANTS
    SeqSpace,            \* number of sequence numbers (2^32 in the code)
    TxBufferSize,        \* socket->txBufferSize
    RxBufferSize,        \* socket->rxBufferSize
    Smss, Rmss,          \* negotiated sender and receiver segment sizes
    MaxRetries,          \* TCP_MAX_RETRIES
    MaxSackBlocks,       \* TCP_MAX_SACK_BLOCKS
    DefaultSynQueueSize, \* TCP_DEFAULT_SYN_QUEUE_SIZE
    MaxSynQueueSize,     \* TCP_MAX_SYN_QUEUE_SIZE
    CongestControl,      \* TCP_CONGEST_CONTROL_SUPPORT == ENABLED
    Byte,                \* values a byte of the stream can take
    NoByte,              \* what a read from a released buffer yields
    Client               \* remote end points that may send a SYN

\* The sizes the code accepts.  Sequence comparison is only meaningful when
\* both buffers are smaller than half of the sequence space; the number of
\* blocks is the default of tcp.h or less.
ASSUME SizeAssumption ==
    /\ SeqSpace \in Nat /\ SeqSpace % 2 = 0 /\ SeqSpace >= 8
    /\ TxBufferSize \in Nat \ {0} /\ 2 * TxBufferSize < SeqSpace
    /\ RxBufferSize \in Nat \ {0} /\ 2 * RxBufferSize < SeqSpace
    /\ Smss \in Nat \ {0} /\ Rmss \in Nat \ {0}
    /\ MaxRetries \in Nat \ {0}
    /\ MaxSackBlocks \in 1 .. 4
    /\ MaxSynQueueSize \in Nat \ {0}
    /\ DefaultSynQueueSize \in 1 .. MaxSynQueueSize
    /\ CongestControl \in BOOLEAN
    /\ Byte # {} /\ NoByte \notin Byte

TcpState == {"CLOSED", "LISTEN", "SYN_SENT", "SYN_RECEIVED", "ESTABLISHED",
             "CLOSE_WAIT", "LAST_ACK", "FIN_WAIT_1", "FIN_WAIT_2", "CLOSING",
             "TIME_WAIT"}

TcpCongestState == {"IDLE", "RECOVERY", "LOSS_RECOVERY"}

TcpFlag == {"FIN", "SYN", "RST", "ACK"}

\* The socket events a TCP operation waits for (LINK_UP and LINK_DOWN only
\* concern socketPoll).
SocketEvent == {"CONNECTED", "CLOSED", "TX_READY", "TX_DONE", "TX_ACKED",
                "TX_SHUTDOWN", "RX_READY", "RX_SHUTDOWN"}

TcpTimerName == {"retransmit", "persist", "override", "finWait2", "timeWait"}

\* 32-bit sequence arithmetic, on SeqSpace numbers instead of 2^32.
SeqNum == 0 .. SeqSpace - 1

SeqAdd(a, k) == (a + k) % SeqSpace

SeqSub(a, b) == (a - b) % SeqSpace

\* (int32_t) (a - b)
TCP_CMP_SEQ(a, b) ==
    LET d == SeqSub(a, b) IN IF 2 * d < SeqSpace THEN d ELSE d - SeqSpace

U16Max == 65535

U16(x) == x % (U16Max + 1)

MinOf(a, b) == IF a <= b THEN a ELSE b

MaxOf(a, b) == IF a >= b THEN a ELSE b

============================================================================
