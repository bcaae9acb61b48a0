---------------------------- MODULE TcpInterface ----------------------------
(***************************************************************************)
(* The socket operations of tcp_interface.adb and socket_interface.adb.    *)
(*                                                                         *)
(* A call runs with the network mutex held, except while it is blocked in  *)
(* Tcp_Wait_For_Events.  Each operator below is one stretch of a call      *)
(* between two such points.  It returns an outcome: the socket, the task   *)
(* (where it is blocked, or that it has returned) and the bytes handed to  *)
(* the user.                                                               *)
(***************************************************************************)
EXTENDS TcpTimer

\* Where the user task is: it has no handle on the socket, no call is in
\* progress, or it is blocked in a call (connect, the loop of send, the wait
\* for acknowledgments of send, receive, and the four waits of shutdown).
Blocked == {"connect", "send", "txAcked", "receive", "flush", "txDone",
            "txShutdown", "rxShutdown"}

TaskPc == {"free", "ready"} \cup Blocked

CallFlag == {"NO_DELAY", "DELAY", "WAIT_ACK", "WAIT_ALL", "SD_SEND",
             "SD_RECEIVE"}

CallError == {"NO_ERROR", "TIMEOUT", "CONNECTION_FAILED", "NOT_CONNECTED",
              "CONNECTION_CLOSING", "CONNECTION_RESET", "END_OF_STREAM",
              "FAILURE"}

\* The task in a call: the bytes a send has still to write, or that a receive
\* has read so far, and the bytes a receive may still read; before is the
\* state in which the socket was when the task blocked
Call(pc, flags, data, left) ==
    [pc |-> pc, flags |-> flags, data |-> data, left |-> left,
     error |-> "NO_ERROR", before |-> "CLOSED"]

Returned(error) == [Call("ready", {}, <<>>, 0) EXCEPT !.error = error]

NoTask == [Returned("NO_ERROR") EXCEPT !.pc = "free"]

Outcome(s, t) == [sock |-> s, task |-> t, got |-> <<>>]

Return(s, error) == Outcome(s, Returned(error))

\* The task is blocked inside Tcp_Wait_For_Events.
Blocks(s, t, pc) == Outcome(s, [t EXCEPT !.pc = pc, !.before = s.state])

\* Tcp_Wait_For_Events with an event that is not raised yet
Block(s, t, event, pc) == Blocks(tcpWaitForEvents(s, {event}), t, pc)

----------------------------------------------------------------------------
\* A slot that has never been used: memset to zero by socketInit
UnusedSocket ==
    [f \in SockField |->
        CASE f = "type" -> "UNUSED"
          [] f = "state" -> "CLOSED"
          [] f \in {"ownedFlag", "closedFlag", "resetFlag", "rttBusy",
                    "txAlloc", "rxAlloc", "retransmitTimer", "persistTimer",
                    "overrideTimer", "finWait2Timer", "timeWaitTimer",
                    "event", "err"} -> FALSE
          [] f = "congestState" -> "IDLE"
          [] f = "txBuffer" -> [i \in 0 .. TxBufferSize - 1 |-> NoByte]
          [] f = "rxBuffer" -> [i \in 0 .. RxBufferSize - 1 |-> NoByte]
          [] f \in {"retransmitQueue", "synQueue", "sackBlock", "out"} -> <<>>
          [] f \in {"eventMask", "eventFlags"} -> {}
          [] f = "fault" -> "noMemory"
          [] OTHER -> 0]

\* length bytes of a stream from the one with sequence number seqNum on
Slice(stream, isn, seqNum, length) ==
    [i \in 1 .. length |-> stream[SeqSub(seqNum + i - 1, isn + 1)]]

\* When a critical section ends, what it has sent is on the wire.
Settle(s) ==
    [s EXCEPT !.out = <<>>, !.txRoom = 0, !.fault = "noMemory", !.err = FALSE]

(* Socket_Open resets the fields one by one; the timers keep their state.  *)
Socket_Open(s) ==
    [s EXCEPT
        !.type = "STREAM", !.state = "CLOSED",
        !.ownedFlag = FALSE, !.closedFlag = FALSE, !.resetFlag = FALSE,
        !.iss = 0, !.irs = 0, !.sndUna = 0, !.sndNxt = 0, !.sndUser = 0,
        !.sndWnd = 0, !.maxSndWnd = 0, !.sndWl1 = 0, !.sndWl2 = 0,
        !.rcvNxt = 0, !.rcvUser = 0, !.rcvWnd = 0,
        !.rttBusy = FALSE, !.rttSeqNum = 0,
        !.congestState = "IDLE", !.cwnd = 0, !.ssthresh = 0,
        !.dupAckCount = 0, !.n = 0, !.recover = 0,
        !.txAlloc = FALSE, !.rxAlloc = FALSE,
        !.retransmitQueue = <<>>, !.retransmitCount = 0,
        !.synQueue = <<>>, !.synQueueSize = DefaultSynQueueSize,
        !.wndProbeCount = 0, !.wndProbeInterval = 0, !.sackBlock = <<>>,
        !.eventMask = {}, !.eventFlags = {}]

\* The part of the control block that Tcp_Connect and Tcp_Accept initialize
\* alike (Tcp_Accept resets the listening socket's congestion state instead
\* of the new socket's, which is IDLE anyway: see AcceptChild).
InitControlBlock(s, iss) ==
    [s EXCEPT
        !.ownedFlag = TRUE, !.txAlloc = TRUE, !.rxAlloc = TRUE,
        !.iss = iss, !.sndUna = iss, !.sndNxt = SeqAdd(iss, 1),
        !.rcvUser = 0, !.rcvWnd = RxBufferSize,
        !.cwnd = MinOf(3 * Smss, TxBufferSize), !.ssthresh = U16Max,
        !.recover = iss]

\* After the wait of Tcp_Connect
ConnectDone(s) ==
    Return(s, CASE s.eventFlags = {"CONNECTED"} -> "NO_ERROR"
                [] s.eventFlags = {"CLOSED"} -> "CONNECTION_FAILED"
                [] OTHER -> "TIMEOUT")

ConnectWait(s) ==
    LET u == tcpWaitForEvents(s, {"CONNECTED", "CLOSED"})
    IN  IF u.eventFlags # {} THEN ConnectDone(u)
        ELSE Blocks(u, Call("connect", {}, <<>>, 0), "connect")

Tcp_Connect(s, iss) ==
    LET i == [InitControlBlock(s, iss) EXCEPT !.congestState = "IDLE"]
        c == tcpSendSegment(i, {"SYN"}, iss, 0, 0, TRUE)
    IN  IF s.state # "CLOSED" THEN ConnectWait(s)
        ELSE IF s.fault = "noBuffer"
        THEN Return(tcpDeleteControlBlock([s EXCEPT !.ownedFlag = TRUE]),
                    "FAILURE")
        ELSE IF c.err THEN Return(c, "FAILURE")
        ELSE ConnectWait(tcpChangeState(c, "SYN_SENT"))

\* backlog 0 asks for the default
Tcp_Listen(s, backlog) ==
    tcpChangeState(
        [s EXCEPT !.synQueueSize =
            IF backlog > 0 THEN MinOf(backlog, MaxSynQueueSize)
            ELSE DefaultSynQueueSize], "LISTEN")

Tcp_Abort(s) ==
    LET r == tcpSendSegment(s, {"RST"}, s.sndNxt, 0, 0, FALSE)
    IN  CASE s.state \in {"SYN_RECEIVED", "ESTABLISHED", "FIN_WAIT_1",
                          "FIN_WAIT_2", "CLOSE_WAIT"} ->
                Dispose(tcpChangeState(r, "CLOSED"))
          [] s.state = "TIME_WAIT" -> [s EXCEPT !.ownedFlag = FALSE]
          [] OTHER -> Dispose(tcpChangeState(s, "CLOSED"))

\* What Tcp_Accept does to the socket it has opened for a queued SYN
AcceptChild(s, isn, iss) ==
    LET i == [InitControlBlock(s, iss) EXCEPT
                !.irs = isn, !.rcvNxt = SeqAdd(isn, 1)]
        c == tcpSendSegment(i, {"SYN", "ACK"}, iss, i.rcvNxt, 0, TRUE)
    IN  IF s.fault = "noBuffer" THEN Tcp_Abort([s EXCEPT !.ownedFlag = TRUE])
        ELSE IF c.err THEN Tcp_Abort(c)
        ELSE tcpChangeState(c, "SYN_RECEIVED")

----------------------------------------------------------------------------
(* Tcp_Send, and Tcp_Shutdown which starts with a flush by Tcp_Send.       *)

\* Tcp_Shutdown, disabling reception
ShutdownReceive(s, t) ==
    CASE "SD_RECEIVE" \notin t.flags -> Return(s, "NO_ERROR")
      [] "SD_RECEIVE" \in t.flags /\ s.state = "LISTEN" ->
            Return(s, "NOT_CONNECTED")
      [] /\ "SD_RECEIVE" \in t.flags
         /\ s.state \in {"SYN_SENT", "SYN_RECEIVED", "ESTABLISHED",
                         "FIN_WAIT_1", "FIN_WAIT_2"} ->
            Block(s, t, "RX_SHUTDOWN", "rxShutdown")
      [] OTHER -> Return(s, "NO_ERROR")

\* Tcp_Shutdown, disabling transmission once the send buffer is flushed
ShutdownSend(s, t) ==
    LET f == tcpSendSegment(s, {"FIN", "ACK"}, s.sndNxt, s.rcvNxt, 0, TRUE)
        g == tcpChangeState([f EXCEPT !.sndNxt = SeqAdd(@, 1)],
                            IF s.state = "ESTABLISHED"
                            THEN "FIN_WAIT_1" ELSE "LAST_ACK")
    IN  CASE s.state \in {"CLOSED", "LISTEN"} -> Return(s, "NOT_CONNECTED")
          [] s.state \in {"ESTABLISHED", "CLOSE_WAIT"} ->
                IF f.err THEN Return(f, "FAILURE")
                ELSE Block(g, t, "TX_SHUTDOWN", "txShutdown")
          [] s.state \in {"FIN_WAIT_1", "CLOSING", "LAST_ACK"} ->
                Block(s, t, "TX_SHUTDOWN", "txShutdown")
          [] OTHER -> ShutdownReceive(s, t)

\* After Tcp_Send has written everything: Tcp_Shutdown waits until it has been
\* sent, SOCKET_FLAG_WAIT_ACK until it is acknowledged
SendDone(s, t) ==
    LET d == tcpWaitForEvents(s, {"TX_DONE"})
        a == tcpWaitForEvents(s, {"TX_ACKED"})
    IN  CASE "SD_SEND" \in t.flags ->
                IF d.eventFlags = {} THEN Blocks(d, t, "txDone")
                ELSE ShutdownSend(d, t)
          [] "WAIT_ACK" \in t.flags ->
                IF a.eventFlags = {}
                THEN Blocks(a, t, "txAcked")
                ELSE Return(a, "NO_ERROR")
          [] OTHER -> Return(s, "NO_ERROR")

NagleFlags(t) ==
    CASE t.flags \cap {"NO_DELAY", "SD_SEND"} # {} -> "NO_DELAY"
      [] "DELAY" \in t.flags -> "DELAY"
      [] OTHER -> "NONE"

\* The loop body of Tcp_Send: copy what fits and let Nagle send it
SendData(s, t) ==
    LET room == TxBufferSize - Buffered(s)
        n == IF Len(t.data) \in 0 .. room THEN Len(t.data) ELSE room
        w == [tcpWriteTxBuffer(s, SeqAdd(s.sndNxt, s.sndUser),
                               SubSeq(t.data, 1, n)) EXCEPT
                !.sndUser = U16(@ + n)]
        u == [tcpUpdateEvents(w) EXCEPT !.overrideTimer = @ \/ s.sndUser = 0]
        g == tcpNagleAlgo(IF n > 0 THEN u ELSE s, NagleFlags(t))
        r == [t EXCEPT !.data = SubSeq(@, n + 1, Len(@))]
    IN  IF r.data = <<>> THEN SendDone(g, r) ELSE Block(g, r, "TX_READY", t.pc)

\* Tcp_Send after its wait for TX_READY
SendReady(s, t) ==
    CASE s.eventFlags = {} -> Return(s, "TIMEOUT")
      [] /\ s.eventFlags # {}
         /\ s.state \in {"LAST_ACK", "FIN_WAIT_1", "FIN_WAIT_2", "CLOSING",
                         "TIME_WAIT"} -> Return(s, "CONNECTION_CLOSING")
      [] s.eventFlags # {} /\ s.state \in {"ESTABLISHED", "CLOSE_WAIT"} ->
            IF Buffered(s) >= TxBufferSize THEN Return(s, "FAILURE")
            ELSE SendData(s, t)
      [] OTHER -> Return(s, IF s.resetFlag THEN "CONNECTION_RESET"
                            ELSE "NOT_CONNECTED")

SendWait(s, t) ==
    LET u == tcpWaitForEvents(s, {"TX_READY"})
    IN  IF u.eventFlags = {} THEN Blocks(u, t, t.pc) ELSE SendReady(u, t)

Tcp_Send(s, data, flags) == SendWait(s, Call("send", flags, data, 0))

Tcp_Shutdown(s, flags) ==
    LET t == Call("flush", flags, <<>>, 0)
    IN  CASE "SD_SEND" \notin flags -> ShutdownReceive(s, t)
          [] /\ "SD_SEND" \in flags
             /\ s.state \in {"SYN_RECEIVED", "ESTABLISHED", "CLOSE_WAIT"} ->
                SendWait(s, t)
          [] OTHER -> ShutdownSend(s, t)

----------------------------------------------------------------------------
(* Tcp_Receive                                                             *)

\* Mutant: the sequence number of the FIN is forgotten.
FinReceived_Never(s) == FALSE

\* The peer's FIN took a sequence number of its own
FinReceived(s) == s.state \notin {"ESTABLISHED", "FIN_WAIT_1", "FIN_WAIT_2"}

\* No data on hand and none to come
EndOfStream(s, t) ==
    Return(s, IF t.data = <<>> THEN "END_OF_STREAM" ELSE "NO_ERROR")

\* The loop body of Tcp_Receive: read what is there
ReceiveData(s, t) ==
    LET n   == MinOf(s.rcvUser, t.left)
        seq == SeqSub(s.rcvNxt, s.rcvUser + IF FinReceived(s) THEN 1 ELSE 0)
        got == tcpReadRxBuffer(s, seq, n)
        u   == tcpUpdateEvents(
                   tcpUpdateReceiveWindow([s EXCEPT !.rcvUser = @ - n]))
        r   == [t EXCEPT !.data = @ \o got, !.left = @ - n]
        w   == tcpWaitForEvents(u, {"RX_READY"})
        o   == CASE r.left = 0 \/ "WAIT_ALL" \notin t.flags ->
                      Return(u, "NO_ERROR")
                 [] r.left # 0 /\ "WAIT_ALL" \in t.flags /\ w.eventFlags = {} ->
                      Blocks(w, r, t.pc)
                 [] OTHER -> EndOfStream(w, r)
    IN  [o EXCEPT !.got = got]

NotConnected(s) ==
    s.state \in {"CLOSED", "LISTEN", "SYN_SENT", "SYN_RECEIVED"}

ReceiveReady(s, t) ==
    CASE s.eventFlags = {} -> Return(s, "TIMEOUT")
      [] s.eventFlags # {} /\ NotConnected(s) /\ s.resetFlag ->
            Return(s, "CONNECTION_RESET")
      [] /\ s.eventFlags # {} /\ NotConnected(s)
         /\ ~s.resetFlag /\ ~s.closedFlag -> Return(s, "NOT_CONNECTED")
      [] OTHER ->
            CASE s.rcvUser > 0 -> ReceiveData(s, t)
              [] s.rcvUser = 0 /\ FinReceived(s) -> EndOfStream(s, t)
              [] OTHER -> Return(s, "FAILURE")

Tcp_Receive(s, length, flags) ==
    LET t == Call("receive", flags, <<>>, length)
        u == tcpWaitForEvents(s, {"RX_READY"})
    IN  IF u.eventFlags = {} THEN Blocks(u, t, t.pc) ELSE ReceiveReady(u, t)

----------------------------------------------------------------------------
\* A blocked call continues where Tcp_Wait_For_Events returns the raised
\* events (none when the wait has timed out).
Resume(s, t) ==
    CASE t.pc = "connect" -> ConnectDone(s)
      [] t.pc \in {"send", "flush"} -> SendReady(s, t)
      [] t.pc = "txAcked" ->
            Return(s, CASE s.eventFlags = {} -> "TIMEOUT"
                        [] /\ s.eventFlags # {}
                           /\ s.state \in {"ESTABLISHED", "CLOSE_WAIT"} ->
                              "NO_ERROR"
                        [] OTHER -> "NOT_CONNECTED")
      [] t.pc = "receive" -> ReceiveReady(s, t)
      [] t.pc = "txDone" ->
            IF s.eventFlags = {} THEN Return(s, "TIMEOUT")
            ELSE ShutdownSend(s, t)
      [] t.pc = "txShutdown" ->
            IF s.eventFlags = {} THEN Return(s, "TIMEOUT")
            ELSE ShutdownReceive(s, t)
      [] t.pc = "rxShutdown" ->
            Return(s, IF s.eventFlags = {} THEN "TIMEOUT" ELSE "NO_ERROR")

\* Socket_Open takes a connection in TIME-WAIT when no slot is free.
Tcp_Kill_Oldest_Connection(s) == Dispose(tcpChangeState(s, "CLOSED"))

============================================================================
