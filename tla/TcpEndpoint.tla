---------------------------- MODULE TcpEndpoint ----------------------------
(***************************************************************************)
(* The life of one slot of the socket table: the user task that opens,     *)
(* connects, reads, writes, shuts down and closes it, the receive path     *)
(* that hands it any segment the network may carry, and the timer task.    *)
(* All three hold the network mutex (netMutex) while they run, so each     *)
(* action is one critical section; the user task gives the mutex up only   *)
(* inside Tcp_Wait_For_Events.                                             *)
(***************************************************************************)
EXTENDS TcpInterface

CONSTANTS
    OwnIss,         \* initial sequence numbers netGetRand may return
    PeerIss,        \* initial sequence numbers of the peer
    FirstWindows,   \* windows the peer may advertise in the handshake
    Windows,        \* windows it may advertise later
    SegFlags,       \* combinations of flags of incoming segments
    Stray,          \* old segments and acknowledgments of unsent data arrive
    MaxAhead,       \* how far out of order an incoming segment may be
    MaxSegLen,      \* longest incoming segment
    OwnStream,      \* the bytes the user writes on a connection, in order
    PeerStream,     \* the bytes the peer's user writes, in order
    TxFault,        \* [txRoom, fault] pairs: how the IP layer may behave
    SendFlags,      \* flag sets the user passes to send
    ReceiveFlags,   \* flag sets the user passes to receive
    ShutdownFlags,  \* flag sets the user passes to shutdown
    Timeouts,       \* the user has set a finite timeout
    Reopen,         \* the slot is used again after it has been given back
    Reconnect,      \* the user calls connect again after a failure
    MaxSent,        \* bound: bytes the user writes on one connection
    MaxReceived,    \* bound: bytes the peer sends on one connection
    MaxDupAck,      \* bound on dupAckCount
    MaxQueue        \* bound on the retransmission queue

ASSUME EndpointAssumption ==
    /\ OwnIss \subseteq SeqNum /\ PeerIss \subseteq SeqNum
    /\ FirstWindows \cup Windows \subseteq 0 .. U16Max
    /\ OwnStream \in [SeqNum -> Byte] /\ PeerStream \in [SeqNum -> Byte]
    /\ SegFlags \subseteq SUBSET TcpFlag
    /\ TxFault \subseteq [txRoom : Nat,
                          fault : {"noMemory", "notSent", "noBuffer"}]
    /\ SendFlags \cup ReceiveFlags \cup ShutdownFlags \subseteq SUBSET CallFlag
    /\ Timeouts \in BOOLEAN /\ Reopen \in BOOLEAN /\ Reconnect \in BOOLEAN
    /\ Stray \in BOOLEAN
    /\ {MaxAhead, MaxSegLen, MaxSent, MaxReceived, MaxDupAck, MaxQueue} \subseteq Nat
    /\ MaxSent + 4 < SeqSpace /\ MaxReceived + 4 < SeqSpace

VARIABLES
    sock,       \* the slot of socketTable
    task,       \* the user task
    delivered   \* history: the bytes the user has read on this connection

vars == <<sock, task, delivered>>

Init == sock = UnusedSocket /\ task = NoTask /\ delivered = <<>>

----------------------------------------------------------------------------
\* A critical section starts with what the IP layer will accept during it.
Start(f) == [sock EXCEPT !.txRoom = f.txRoom, !.fault = f.fault]

Within(s) ==
    /\ s.dupAckCount <= MaxDupAck
    /\ Len(s.retransmitQueue) <= MaxQueue
    /\ s.state \in {"CLOSED", "SYN_SENT"} \/
        /\ SeqSub(s.rcvNxt, s.irs) <= MaxReceived + 2
        /\ SeqSub(s.sndNxt, s.iss) + s.sndUser <= MaxSent + 2

Commit(o) ==
    /\ Within(o.sock)
    /\ sock' = Settle(o.sock)
    /\ task' = o.task
    /\ delivered' = delivered \o o.got

Open ==
    /\ task.pc = "free" /\ sock.type = "UNUSED"
    /\ Reopen \/ sock = UnusedSocket
    /\ sock' = Socket_Open(sock)
    /\ task' = Returned("NO_ERROR")
    /\ delivered' = <<>>

\* The socket Socket_Open returned, not connected yet
Fresh == sock.state = "CLOSED" /\ ~sock.ownedFlag

Connect(f) ==
    /\ task.pc = "ready" /\ (Fresh \/ Reconnect) /\ delivered = <<>>
    /\ \E iss \in OwnIss : Commit(Tcp_Connect(Start(f), iss))

\* The listening side (another socket) has taken a SYN from its queue.
Accept(f) ==
    /\ task.pc = "ready" /\ Fresh
    /\ \E iss \in OwnIss, isn \in PeerIss :
        LET c == AcceptChild(Start(f), isn, iss)
        IN  Commit(Outcome(c, IF c.type = "UNUSED" THEN NoTask
                              ELSE Returned("NO_ERROR")))

Send(f) ==
    /\ task.pc = "ready"
    /\ \E n \in 1 .. TxBufferSize + 1, flags \in SendFlags :
        /\ SeqSub(sock.sndNxt, sock.iss) + sock.sndUser + n <= MaxSent + 1
        /\ Commit(Tcp_Send(Start(f),
                           Slice(OwnStream, sock.iss, sock.sndNxt + sock.sndUser, n),
                           flags))

Receive(f) ==
    /\ task.pc = "ready"
    /\ \E n \in 1 .. RxBufferSize, flags \in ReceiveFlags :
        Commit(Tcp_Receive(Start(f), n, flags))

Shutdown(f) ==
    /\ task.pc = "ready"
    /\ \E flags \in ShutdownFlags : Commit(Tcp_Shutdown(Start(f), flags))

Close(f) ==
    /\ task.pc = "ready"
    /\ Commit(Outcome(Tcp_Abort(Start(f)), NoTask))

\* Os_Wait_For_Event returns: the event object is signaled, or the timeout
\* is over.
Wake(f) ==
    /\ task.pc \in Blocked
    /\ sock.event \/ Timeouts
    /\ Commit(Resume([Start(f) EXCEPT !.event = FALSE], task))

\* The sequence and acknowledgment numbers a segment may carry.  The first
\* one has any of the peer's initial sequence numbers; later ones are near
\* the expected ones.  A stray segment repeats an old sequence number, or
\* acknowledges what has long been acknowledged or was never sent.
SegNumbers(s) ==
    LET first == s.state = "SYN_SENT"
        next  == IF first THEN PeerIss ELSE {s.rcvNxt}
        ahead == IF first THEN {} ELSE {SeqAdd(s.rcvNxt, k) : k \in 1 .. MaxAhead}
        acks  == {SeqAdd(s.sndUna, k) : k \in 0 .. SeqSub(s.sndNxt, s.sndUna)}
        late  == IF first THEN {} ELSE {<<SeqSub(s.rcvNxt, 1), s.sndNxt>>}
        wrong == next \X {SeqSub(s.sndUna, 1), SeqAdd(s.sndNxt, 1)}
    IN  ((next \cup ahead) \X acks) \cup IF Stray THEN late \cup wrong ELSE {}

SegWindow(s) ==
    IF s.state \in {"SYN_SENT", "SYN_RECEIVED"} THEN FirstWindows ELSE Windows

\* A segment without ACK has no acknowledgment, and its window is not used;
\* its data is the part of the peer's stream its sequence number stands for.
SegmentsWith(s, flags) ==
    {[flags |-> flags, seqNum |-> num[1],
      ackNum |-> IF "ACK" \in flags THEN num[2] ELSE 0, window |-> window,
      data |-> Slice(PeerStream, s.irs, num[1], n), src |-> src] :
        num \in SegNumbers(s),
        window \in IF "ACK" \in flags THEN SegWindow(s) ELSE {0},
        n \in IF flags \cap {"SYN", "RST"} = {} THEN 0 .. MaxSegLen ELSE {0},
        src \in Client}

Segments(s) == UNION {SegmentsWith(s, flags) : flags \in SegFlags}

\* tcpProcessSegment finds the socket by its addresses and ports.
Segment(f) ==
    /\ sock.type = "STREAM"
    /\ \E seg \in Segments(sock) :
        Commit(Outcome(tcpProcessSegment(Start(f), seg), task))

\* The timers that may have elapsed when the timer task looks
Elapsed == SUBSET WatchedTimers(sock) \ {{}}

Tick(elapsed, f) ==
    /\ sock.type = "STREAM"
    /\ Commit(Outcome(tcpTick(Start(f), elapsed), task))

Next ==
    \/ Open
    \/ \E f \in TxFault :
        \/ Connect(f) \/ Accept(f) \/ Send(f) \/ Receive(f) \/ Shutdown(f)
        \/ Close(f) \/ Wake(f) \/ Segment(f)
        \/ \E elapsed \in Elapsed : Tick(elapsed, f)

Spec == Init /\ [][Next]_vars

----------------------------------------------------------------------------
(* Type invariant *)

Items ==
    [flags : SUBSET TcpFlag, seqNum : SeqNum, ackNum : SeqNum,
     window : 0 .. U16Max, length : 0 .. TxBufferSize]

SockType ==
    [f \in SockField |->
        CASE f = "type" -> {"UNUSED", "STREAM"}
          [] f = "state" -> TcpState
          [] f \in {"ownedFlag", "closedFlag", "resetFlag", "rttBusy",
                    "txAlloc", "rxAlloc", "retransmitTimer", "persistTimer",
                    "overrideTimer", "finWait2Timer", "timeWaitTimer",
                    "event", "err"} -> BOOLEAN
          [] f \in {"iss", "irs", "sndUna", "sndNxt", "sndWl1", "sndWl2",
                    "rcvNxt", "rttSeqNum", "recover"} -> SeqNum
          [] f \in {"sndUser", "sndWnd", "maxSndWnd", "rcvUser", "rcvWnd",
                    "cwnd", "ssthresh"} -> 0 .. U16Max
          [] f = "congestState" -> TcpCongestState
          [] f = "txBuffer" -> [0 .. TxBufferSize - 1 -> Byte \cup {NoByte}]
          [] f = "rxBuffer" -> [0 .. RxBufferSize - 1 -> Byte \cup {NoByte}]
          [] f = "retransmitQueue" -> Seq(Items)
          [] f = "synQueue" -> Seq([src : Client, isn : SeqNum])
          [] f = "sackBlock" -> Seq([left : SeqNum, right : SeqNum])
          [] f \in {"eventMask", "eventFlags"} -> SUBSET SocketEvent
          [] f = "fault" -> {"noMemory", "notSent", "noBuffer"}
          [] f = "out" -> {<<>>}
          [] OTHER -> Nat]

\* Every field of the socket and of the task keeps the range its C or Ada
\* type gives it (counters within the limits of tcp.h).
TypeOK ==
    /\ DOMAIN sock = SockField
    /\ \A f \in SockField : sock[f] \in SockType[f]
    /\ sock.retransmitCount <= MaxRetries /\ sock.wndProbeCount <= MaxRetries
    /\ Len(sock.sackBlock) <= MaxSackBlocks
    /\ task \in [pc : TaskPc, flags : SUBSET CallFlag, data : Seq(Byte \cup {NoByte}),
                 left : 0 .. RxBufferSize, error : CallError,
                 before : TcpState]
    /\ delivered \in Seq(Byte \cup {NoByte})

----------------------------------------------------------------------------
(* Safety *)

Synchronized ==
    sock.state \in {"SYN_RECEIVED", "ESTABLISHED", "CLOSE_WAIT", "LAST_ACK",
                    "FIN_WAIT_1", "FIN_WAIT_2", "CLOSING"}

\* As long as something waits for an acknowledgment the retransmission timer
\* runs: tcpSendSegment starts it, tcpUpdateRetransmitQueue stops it only with
\* the last item, and nothing else does while the connection lives.
RetransmitTimerArmed ==
    sock.state # "CLOSED" /\ sock.retransmitQueue # <<>> => sock.retransmitTimer

\* The sequence numbers an item of the retransmission queue stands for
Covers(item, seqNum) ==
    SeqSub(seqNum, item.seqNum) < SeqSub(ItemEnd(item), item.seqNum)

\* Every octet (SYN and FIN included) between SND.UNA and SND.NXT is in the
\* retransmission queue: whatever the peer has not acknowledged can be sent
\* again, whichever segments were lost and in whatever order ACKs arrive.
InFlightCovered ==
    Synchronized \/ sock.state = "SYN_SENT" =>
        \A k \in 0 .. SeqSub(sock.sndNxt, sock.sndUna) - 1 :
            \E i \in DOMAIN sock.retransmitQueue :
                Covers(sock.retransmitQueue[i], SeqAdd(sock.sndUna, k))

\* Every byte that may have to be sent again can still be read from the send
\* buffer as the user wrote it: tcpWriteTxBuffer overwrites a byte only once
\* it is acknowledged, even when its segment is still queued for the rest.
RetransmitsWrittenData ==
    Synchronized =>
        \A i \in DOMAIN sock.retransmitQueue :
            LET item == sock.retransmitQueue[i]
                read == tcpReadTxBuffer(sock, item.seqNum, item.length)
                written == Slice(OwnStream, sock.iss, item.seqNum, item.length)
            IN  \A k \in 1 .. item.length :
                    \/ TCP_CMP_SEQ(SeqAdd(item.seqNum, k - 1), sock.sndUna) < 0
                    \/ read[k] = written[k]

\* What is unread plus what the peer may still send fits in the receive
\* buffer: accepted data never overwrites unread data.
ReceiveBufferHolds ==
    Synchronized => sock.rcvUser + sock.rcvWnd <= RxBufferSize

\* The user reads the peer's stream: in order, without gaps or repetitions, in
\* whatever order segments arrive (a byte read from a released buffer is not
\* part of it, see DataOnHandDelivered).
DeliveredInOrder ==
    \A k \in DOMAIN delivered : delivered[k] \in {PeerStream[k - 1], NoByte}

\* Data that was acknowledged before the connection ended can still be read.
DataOnHandDelivered == \A k \in DOMAIN delivered : delivered[k] # NoByte

\* The segment with the next expected byte is never held up by what was
\* received out of order: RCV.NXT moves past it.
InOrderDataAdvances ==
    sock.state \in {"ESTABLISHED", "FIN_WAIT_1", "FIN_WAIT_2"} =>
        \A n \in 1 .. MinOf(MaxSegLen, sock.rcvWnd) :
            LET data == Slice(PeerStream, sock.irs, sock.rcvNxt, n)
                seg  == [seqNum |-> sock.rcvNxt, data |-> data]
            IN  SeqSub(tcpProcessSegmentData(sock, seg).rcvNxt, sock.rcvNxt) >= n

\* While the peer's window is closed and data waits, the persist timer runs.
ZeroWindowProbed ==
    (/\ sock.state \in {"ESTABLISHED", "CLOSE_WAIT"}
     /\ sock.sndWnd = 0 /\ sock.sndUser > 0) => sock.persistTimer

\* Out-of-order blocks lie strictly beyond RCV.NXT and inside the window, and
\* no two of them touch: tcpUpdateSackBlocks has merged all it could.
SackBlocksSound ==
    sock.state \in {"ESTABLISHED", "FIN_WAIT_1", "FIN_WAIT_2"} =>
        LET b == sock.sackBlock
            Pos(seqNum) == SeqSub(seqNum, sock.rcvNxt)
        IN  /\ \A i \in DOMAIN b :
                /\ 0 < Pos(b[i].left) /\ Pos(b[i].left) < Pos(b[i].right)
                /\ Pos(b[i].right) <= sock.rcvWnd
            /\ \A i, j \in DOMAIN b :
                i # j => \/ Pos(b[i].right) < Pos(b[j].left)
                         \/ Pos(b[j].right) < Pos(b[i].left)

\* A task blocked in Tcp_Wait_For_Events whose event has come is woken: every
\* change that can raise an event ends in tcpUpdateEvents, and the event
\* object is reset before the mutex is released.
NoLostWakeup ==
    task.pc \in Blocked /\ RaisedEvents(sock) # {} => sock.event

\* The flags the task will read when it wakes up are those of the state the
\* socket is in then, not of an earlier one.
EventFlagsFresh ==
    task.pc \in Blocked => sock.eventFlags = RaisedEvents(sock)

\* Tcp_Wait_For_Event_Post: from which state to which a wait for an event may
\* lead (a state that is not listed is not constrained)
WaitTarget(event, before) ==
    LET open == {"ESTABLISHED", "CLOSE_WAIT", "CLOSED"}
        opening == {"SYN_SENT", "SYN_RECEIVED", "ESTABLISHED"}
    IN  CASE event = "CONNECTED" /\ before = "SYN_SENT" -> open \ {"CLOSED"}
          [] event = "CLOSED" /\ before = "SYN_SENT" -> {"CLOSED"}
          [] event \in {"TX_READY", "RX_READY"} /\ before \in opening -> open
          [] event \in {"TX_ACKED", "TX_DONE"} /\ before = "ESTABLISHED" -> open
          [] /\ event \in {"TX_READY", "TX_ACKED", "TX_DONE"}
             /\ before = "CLOSE_WAIT" -> {"CLOSE_WAIT", "CLOSED"}
          [] event = "RX_READY" /\ before = "FIN_WAIT_1" ->
                {"FIN_WAIT_1", "FIN_WAIT_2", "CLOSING", "TIME_WAIT", "CLOSED"}
          [] event = "RX_READY" /\ before = "FIN_WAIT_2" ->
                {"FIN_WAIT_2", "TIME_WAIT", "CLOSED"}
          [] event = "TX_SHUTDOWN" /\ before = "FIN_WAIT_1" ->
                {"FIN_WAIT_2", "TIME_WAIT", "CLOSED"}
          [] event = "TX_SHUTDOWN" /\ before = "CLOSING" ->
                {"TIME_WAIT", "CLOSED"}
          [] event = "TX_SHUTDOWN" /\ before = "LAST_ACK" -> {"CLOSED"}
          [] event = "RX_SHUTDOWN" /\ before \in opening -> open
          [] event = "RX_SHUTDOWN" /\ before = "FIN_WAIT_1" ->
                {"CLOSING", "TIME_WAIT", "CLOSED"}
          [] event = "RX_SHUTDOWN" /\ before = "FIN_WAIT_2" ->
                {"TIME_WAIT", "CLOSED"}
          [] OTHER -> TcpState

\* Whatever segments and timeouts come while a task is blocked, the state it
\* finds when its event is raised is one the postcondition of
\* Tcp_Wait_For_Events allows (the assertions of Tcp_Connect, Tcp_Send,
\* Tcp_Receive and Tcp_Shutdown after their waits follow from it).
WaitEndsWhereContracted ==
    task.pc \in Blocked =>
        \A e \in sock.eventFlags : sock.state \in WaitTarget(e, task.before)

\* The same postcondition says that a wait of Tcp_Shutdown that ends with the
\* connection closed has seen a reset, unless it began in LAST-ACK.
ShutdownWaitSeesReset ==
    (/\ task.pc \in {"txShutdown", "rxShutdown"}
     /\ sock.eventFlags # {} /\ sock.state = "CLOSED"
     /\ task.before # "LAST_ACK") => sock.resetFlag

\* A slot given back to the socket table owns no memory: Socket_Open forgets
\* the queues and buffers ("Memory should already be free").
FreedBeforeReuse ==
    sock.type = "UNUSED" =>
        /\ sock.state = "CLOSED"
        /\ sock.retransmitQueue = <<>> /\ sock.synQueue = <<>>
        /\ ~sock.txAlloc /\ ~sock.rxAlloc

\* A slot the user has closed lives on only in TIME-WAIT, with the 2MSL timer
\* running, until the timer gives it back.
UnownedLingers ==
    task.pc = "free" /\ sock.type = "STREAM" =>
        sock.state = "TIME_WAIT" /\ ~sock.ownedFlag /\ sock.timeWaitTimer

\* A connection is reported either as closed in order or as reset, and only
\* once it is closed.
ClosedOnce ==
    sock.type = "STREAM" =>
        /\ ~(sock.closedFlag /\ sock.resetFlag)
        /\ sock.closedFlag \/ sock.resetFlag => sock.state = "CLOSED"

----------------------------------------------------------------------------
(* What a step may never do *)

\* New data is sent only inside the window the peer has advertised (and the
\* congestion window): SND.NXT moves past neither.
SendsWithinWindow ==
    [][ sock.sndNxt # sock.sndNxt' /\ sock.state' \in {"ESTABLISHED", "CLOSE_WAIT"}
          => LET flight == SeqSub(sock.sndNxt', sock.sndUna')
             IN  /\ flight <= sock.sndWnd'
                 /\ CongestControl => flight <= sock.cwnd' ]_vars

\* The right edge of the receive window never moves left: what has been
\* advertised stays acceptable.
WindowNeverShrinks ==
    [][ Synchronized /\ Synchronized'
          => TCP_CMP_SEQ(SeqAdd(sock.rcvNxt', sock.rcvWnd'),
                         SeqAdd(sock.rcvNxt, sock.rcvWnd)) >= 0 ]_vars

----------------------------------------------------------------------------
(* Refinement *)

Contract == INSTANCE TcpContract WITH
    type <- sock.type, state <- sock.state,
    resetFlag <- sock.resetFlag, ownedFlag <- sock.ownedFlag

\* Every step of the C and Ada code, in every interleaving of user calls,
\* segments, timers and send failures, changes the socket's type, state, reset
\* flag and owner only as the SPARK contracts allow.
ImplementsContract == Contract!Spec

----------------------------------------------------------------------------
(* Liveness.  The timer task runs for ever and its timers elapse; a task    *)
(* whose event is signaled gets the processor.  Nothing is assumed of the   *)
(* network or of the user.                                                  *)

\* The next tick after t has elapsed has something to do.
Due(t) ==
    /\ t \in WatchedTimers(sock)
    /\ \E f \in TxFault : Settle(tcpTick(Start(f), {t})) # sock

TimerElapses(t) ==
    \E f \in TxFault, elapsed \in Elapsed : t \in elapsed /\ Tick(elapsed, f)

Signaled == task.pc \in Blocked /\ sock.event

SignaledTaskRuns == sock.event /\ \E f \in TxFault : Wake(f)

\* Weak fairness of TimerElapses and SignaledTaskRuns, with the condition
\* under which they are enabled spelled out.
Fairness ==
    /\ \A t \in TcpTimerName : <>[]Due(t) => []<><<TimerElapses(t)>>_vars
    /\ <>[]Signaled => []<><<SignaledTaskRuns>>_vars

FairSpec == Spec /\ Fairness

Writing == {"send", "txAcked", "flush", "txDone", "txShutdown"}

\* A task blocked in Tcp_Connect, in Tcp_Send or in the send half of
\* Tcp_Shutdown gets back whatever the peer does or does not answer: SYN, data
\* and FIN are retransmitted, and a closed window probed, a bounded number of
\* times.
CallsReturn ==
    /\ task.pc = "connect" ~> task.pc # "connect"
    /\ task.pc \in Writing ~> task.pc \notin Writing

\* A slot the user has closed is given back, unless the persist timer is
\* probing a closed window and gets there first (see UnownedLingers).
SlotReturned ==
    (/\ task.pc = "free" /\ sock.state = "TIME_WAIT"
     /\ "persist" \notin WatchedTimers(sock)) ~> sock.type = "UNUSED"

============================================================================
