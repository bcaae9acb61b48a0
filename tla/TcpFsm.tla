------------------------------- MODULE TcpFsm -------------------------------
(***************************************************************************)
(* The TCP finite state machine of tcp_fsm.c: one operator per state, from *)
(* the socket and an incoming segment to the socket afterwards.            *)
(***************************************************************************)
EXTENDS TcpMisc

(* The checks every synchronized state starts with, in the order of the    *)
(* code: sequence number, RST, SYN.  A segment that gets through is        *)
(* handled by the state's own operator.                                    *)
Unacceptable(s, seg) == ~SequenceAcceptable(s, seg)

Resets(s, seg) == SequenceAcceptable(s, seg) /\ Has(seg, "RST")

Misplaced(s, seg) ==
    SequenceAcceptable(s, seg) /\ ~Has(seg, "RST") /\ Has(seg, "SYN")

Passes(s, seg) ==
    SequenceAcceptable(s, seg) /\ ~Has(seg, "RST") /\ ~Has(seg, "SYN")

Screened(s, seg) ==
    CASE Unacceptable(s, seg) -> tcpCheckSequenceNumber(s, seg)
      [] Resets(s, seg) -> tcpChangeState(s, "CLOSED")
      [] Misplaced(s, seg) -> tcpCheckSyn(s, seg)

\* Mutant: a FIN counts although data before it is missing.
FinInOrder_Anywhere(s, seg) == Has(seg, "FIN")

\* The peer's FIN is in order: all data before it has been received.  The
\* test is made after the segment's data has been processed.
FinInOrder(s, seg) ==
    Has(seg, "FIN") /\ s.rcvNxt = SeqAdd(seg.seqNum, SegLen(seg))

AcceptFin(s) == SendAck([s EXCEPT !.rcvNxt = SeqAdd(@, 1)])

SegmentText(s, seg) ==
    IF SegLen(seg) > 0 THEN tcpProcessSegmentData(s, seg) ELSE s

\* Mutant: the 2MSL timer is not started.
EnterTimeWait_NoTimer(s) ==
    tcpChangeState(tcpDeleteControlBlock(s), "TIME_WAIT")

EnterTimeWait(s) ==
    tcpChangeState([tcpDeleteControlBlock(s) EXCEPT !.timeWaitTimer = TRUE],
                   "TIME_WAIT")

\* Data may be waiting for the window this segment has opened
Transmit(s) ==
    tcpNagleAlgo(s, IF CongestControl /\ s.dupAckCount > 0
                    THEN "NO_DELAY" ELSE "NONE")

----------------------------------------------------------------------------
tcpStateClosed(s, seg) ==
    IF Has(seg, "RST") THEN s ELSE tcpSendResetSegment(s, seg)

tcpIsDuplicateSyn(s, seg) ==
    \E i \in DOMAIN s.synQueue : s.synQueue[i].src = seg.src

\* Mutant: the listening task is not told of the SYN.
tcpStateListen_Silent(s, seg) ==
    IF seg.flags # {"SYN"} \/ tcpIsDuplicateSyn(s, seg)
        \/ Len(s.synQueue) >= s.synQueueSize \/ s.txRoom = 0 THEN s
    ELSE [s EXCEPT !.synQueue =
            Append(@, [src |-> seg.src, isn |-> seg.seqNum])]

tcpStateListen(s, seg) ==
    LET full == s.synQueue # <<>> /\ Len(s.synQueue) >= s.synQueueSize
        item == [src |-> seg.src, isn |-> seg.seqNum]
    IN  CASE Has(seg, "RST") -> s
          [] ~Has(seg, "RST") /\ Has(seg, "ACK") -> tcpSendResetSegment(s, seg)
          [] seg.flags \cap {"RST", "ACK", "SYN"} = {"SYN"} ->
                IF tcpIsDuplicateSyn(s, seg) \/ full \/ s.txRoom = 0 THEN s
                ELSE tcpUpdateEvents([s EXCEPT !.synQueue = Append(@, item)])
          [] OTHER -> s

tcpStateSynSent(s, seg) ==
    LET i == [s EXCEPT !.irs = seg.seqNum,
                       !.rcvNxt = SeqAdd(seg.seqNum, 1),
                       !.sndUna = IF Has(seg, "ACK") THEN seg.ackNum ELSE @]
        q == [tcpUpdateRetransmitQueue(tcpComputeRto(i)) EXCEPT
                !.cwnd = IF CongestControl
                         THEN MinOf(3 * Smss, TxBufferSize) ELSE @]
        w == [q EXCEPT !.sndWnd = seg.window, !.sndWl1 = seg.seqNum,
                       !.sndWl2 = seg.ackNum, !.maxSndWnd = seg.window]
        badAck == Has(seg, "ACK") /\ seg.ackNum # s.sndNxt
    IN  CASE badAck ->
                IF Has(seg, "RST") THEN s
                ELSE tcpSendSegment(s, {"RST"}, seg.ackNum, 0, 0, FALSE)
          [] ~badAck /\ Has(seg, "RST") ->
                IF Has(seg, "ACK") THEN tcpChangeState(s, "CLOSED") ELSE s
          [] ~badAck /\ ~Has(seg, "RST") /\ Has(seg, "SYN") ->
                IF TCP_CMP_SEQ(q.sndUna, q.iss) > 0
                THEN tcpChangeState(SendAck(w), "ESTABLISHED")
                ELSE tcpChangeState(
                        tcpSendSegment(q, {"SYN", "ACK"}, q.iss, q.rcvNxt, 0,
                                       TRUE), "SYN_RECEIVED")
          [] OTHER -> s

\* The FIN of an ESTABLISHED connection
EstablishedFin(s, seg) ==
    IF FinInOrder(s, seg) THEN tcpChangeState(AcceptFin(s), "CLOSE_WAIT")
    ELSE s

tcpStateEstablished(s, seg) ==
    IF ~Passes(s, seg) THEN Screened(s, seg)
    ELSE IF AckRejected(s, seg) THEN tcpCheckAck(s, seg)
    ELSE Transmit(EstablishedFin(SegmentText(tcpCheckAck(s, seg), seg), seg))

tcpStateSynReceived(s, seg) ==
    LET w == [s EXCEPT !.sndWnd = seg.window, !.sndWl1 = seg.seqNum,
                       !.sndWl2 = seg.ackNum, !.maxSndWnd = seg.window]
    IN  IF ~Passes(s, seg) THEN Screened(s, seg)
        ELSE IF ~Has(seg, "ACK") THEN s
        ELSE IF seg.ackNum # s.sndNxt
        THEN tcpSendSegment(s, {"RST"}, seg.ackNum, 0, 0, FALSE)
        ELSE tcpStateEstablished(tcpChangeState(w, "ESTABLISHED"), seg)

tcpStateCloseWait(s, seg) ==
    IF ~Passes(s, seg) THEN Screened(s, seg)
    ELSE IF AckRejected(s, seg) THEN tcpCheckAck(s, seg)
    ELSE Transmit(tcpCheckAck(s, seg))

tcpStateLastAck(s, seg) ==
    IF ~Passes(s, seg) THEN Screened(s, seg)
    ELSE IF Has(seg, "ACK") /\ seg.ackNum = s.sndNxt
    THEN tcpChangeState(s, "CLOSED")
    ELSE s

\* Mutant: any acknowledgment is taken for that of the FIN.
FinAcked_AnyAck(s, seg) ==
    tcpChangeState([s EXCEPT !.finWait2Timer = TRUE], "FIN_WAIT_2")

\* Has our own FIN been acknowledged?
FinAcked(s, seg) ==
    IF seg.ackNum = s.sndNxt
    THEN tcpChangeState([s EXCEPT !.finWait2Timer = TRUE], "FIN_WAIT_2")
    ELSE s

\* The peer's FIN meets ours, acknowledged or not.
FinWait1Fin(s, seg) ==
    IF ~FinInOrder(s, seg) THEN s
    ELSE IF seg.ackNum = s.sndNxt THEN EnterTimeWait(AcceptFin(s))
    ELSE tcpChangeState(AcceptFin(s), "CLOSING")

tcpStateFinWait1(s, seg) ==
    IF ~Passes(s, seg) THEN Screened(s, seg)
    ELSE IF AckRejected(s, seg) THEN tcpCheckAck(s, seg)
    ELSE FinWait1Fin(SegmentText(FinAcked(tcpCheckAck(s, seg), seg), seg), seg)

\* The FIN that ends the other direction
FinWait2Fin(s, seg) ==
    IF FinInOrder(s, seg) THEN EnterTimeWait(AcceptFin(s)) ELSE s

tcpStateFinWait2(s, seg) ==
    IF ~Passes(s, seg) THEN Screened(s, seg)
    ELSE IF AckRejected(s, seg) THEN tcpCheckAck(s, seg)
    ELSE FinWait2Fin(SegmentText(tcpCheckAck(s, seg), seg), seg)

\* Both FINs have crossed: the acknowledgment of ours ends the wait.
ClosingAck(s, seg) == IF seg.ackNum = s.sndNxt THEN EnterTimeWait(s) ELSE s

tcpStateClosing(s, seg) ==
    IF ~Passes(s, seg) THEN Screened(s, seg)
    ELSE IF AckRejected(s, seg) THEN tcpCheckAck(s, seg)
    ELSE ClosingAck(tcpCheckAck(s, seg), seg)

\* Give the slot back to the socket table
Dispose(s) == [tcpDeleteControlBlock(s) EXCEPT !.type = "UNUSED"]

tcpStateTimeWait(s, seg) ==
    LET c == Screened(s, seg)
    IN  IF Resets(s, seg) THEN IF s.ownedFlag THEN c ELSE Dispose(c)
        ELSE IF ~Passes(s, seg) THEN c
        ELSE IF {"ACK", "FIN"} \subseteq seg.flags
        THEN [SendAck(s) EXCEPT !.timeWaitTimer = TRUE]
        ELSE s

\* The switch at the end of tcpProcessSegment
tcpProcessSegment(s, seg) ==
    CASE s.state = "CLOSED" -> tcpStateClosed(s, seg)
      [] s.state = "LISTEN" -> tcpStateListen(s, seg)
      [] s.state = "SYN_SENT" -> tcpStateSynSent(s, seg)
      [] s.state = "SYN_RECEIVED" -> tcpStateSynReceived(s, seg)
      [] s.state = "ESTABLISHED" -> tcpStateEstablished(s, seg)
      [] s.state = "CLOSE_WAIT" -> tcpStateCloseWait(s, seg)
      [] s.state = "LAST_ACK" -> tcpStateLastAck(s, seg)
      [] s.state = "FIN_WAIT_1" -> tcpStateFinWait1(s, seg)
      [] s.state = "FIN_WAIT_2" -> tcpStateFinWait2(s, seg)
      [] s.state = "CLOSING" -> tcpStateClosing(s, seg)
      [] s.state = "TIME_WAIT" -> tcpStateTimeWait(s, seg)

============================================================================
