------------------------------ MODULE TcpMisc ------------------------------
(***************************************************************************)
(* The helper functions of tcp_misc.c (and their Ada twins of              *)
(* tcp_misc_binding.adb) as functions from a socket to a socket.           *)
(*                                                                         *)
(* A socket is a record with the fields of the C structure.  Four fields   *)
(* describe the step being executed and are cleared when it ends:          *)
(*   out     the segments the step hands to the IP layer, in order         *)
(*   txRoom  how many more segments the IP layer accepts during the step   *)
(*   fault   why it refuses the next one: no memory for the segment (it is *)
(*           not queued), transmission failure (it is already queued), or  *)
(*           no memory even for the socket's buffers                       *)
(*   err     the error status of the last tcpSendSegment                   *)
(* Time is abstract: a timer field says whether the timer is running.      *)
(***************************************************************************)
EXTENDS TcpDefs

SockField ==
    {"type", "state", "ownedFlag", "closedFlag", "resetFlag",
     "iss", "irs", "sndUna", "sndNxt", "sndUser", "sndWnd", "maxSndWnd",
     "sndWl1", "sndWl2", "rcvNxt", "rcvUser", "rcvWnd",
     "rttBusy", "rttSeqNum",
     "congestState", "cwnd", "ssthresh", "dupAckCount", "n", "recover",
     "txBuffer", "txAlloc", "rxBuffer", "rxAlloc",
     "retransmitQueue", "retransmitTimer", "retransmitCount",
     "synQueue", "synQueueSize",
     "wndProbeCount", "wndProbeInterval", "persistTimer",
     "overrideTimer", "finWait2Timer", "timeWaitTimer", "sackBlock",
     "eventMask", "eventFlags", "event",
     "out", "txRoom", "fault", "err"}

Item(flags, seqNum, ackNum, window, length) ==
    [flags |-> flags, seqNum |-> seqNum,
     ackNum |-> IF "ACK" \in flags THEN ackNum ELSE 0,
     window |-> window, length |-> length]

\* An incoming segment: flags, seqNum, ackNum, window, data
SegLen(seg) == Len(seg.data)

Has(seg, flag) == flag \in seg.flags

----------------------------------------------------------------------------
(* Events *)

\* Mutant: bytes that wait for an acknowledgment are not counted.
Buffered_Unsent(s) == s.sndUser

\* Bytes of the send buffer in use: waiting to be sent or to be acknowledged
Buffered(s) == SeqAdd(s.sndUser, SeqSub(s.sndNxt, s.sndUna))

\* Which events the socket's state raises, mask aside
EventHolds(s, e) ==
    CASE e = "CONNECTED" ->
            s.state \in {"ESTABLISHED", "FIN_WAIT_1", "FIN_WAIT_2",
                         "CLOSE_WAIT", "LAST_ACK", "CLOSING"}
      [] e = "CLOSED" -> s.state \in {"TIME_WAIT", "CLOSED"}
      [] e = "TX_SHUTDOWN" ->
            s.state \in {"FIN_WAIT_2", "TIME_WAIT", "CLOSED"}
      [] e = "RX_SHUTDOWN" ->
            s.state \in {"CLOSE_WAIT", "LAST_ACK", "CLOSING", "TIME_WAIT",
                         "CLOSED"}
      [] e = "TX_READY" ->
            IF s.state \in {"ESTABLISHED", "CLOSE_WAIT"}
            THEN Buffered(s) < TxBufferSize
            ELSE s.state \notin {"SYN_SENT", "SYN_RECEIVED", "LISTEN"}
      [] e = "TX_DONE" ->
            IF s.state \in {"ESTABLISHED", "CLOSE_WAIT"}
            THEN s.sndUser = 0
            ELSE s.state # "LISTEN"
      [] e = "TX_ACKED" ->
            IF s.state \in {"ESTABLISHED", "CLOSE_WAIT"}
            THEN s.sndUser = 0 /\ TCP_CMP_SEQ(s.sndUna, s.sndNxt) >= 0
            ELSE s.state # "LISTEN"
      [] e = "RX_READY" ->
            IF s.state \in {"ESTABLISHED", "FIN_WAIT_1", "FIN_WAIT_2"}
            THEN s.rcvUser > 0
            ELSE IF s.state = "LISTEN" THEN s.synQueue # <<>>
            ELSE s.state \notin {"SYN_SENT", "SYN_RECEIVED"}
      [] OTHER -> FALSE

RaisedEvents(s) == {e \in s.eventMask : EventHolds(s, e)}

\* Mutant: the flags of an earlier state are not cleared.
tcpUpdateEvents_NoClear(s) ==
    [s EXCEPT !.eventFlags = @ \cup RaisedEvents(s),
              !.event = @ \/ RaisedEvents(s) # {}]

tcpUpdateEvents(s) ==
    [s EXCEPT !.eventFlags = RaisedEvents(s),
              !.event = @ \/ RaisedEvents(s) # {}]

\* Mutant: the events are not updated.
tcpChangeState_NoEvents(s, newState) ==
    LET orderly == s.state \in {"LAST_ACK", "TIME_WAIT"}
    IN  [s EXCEPT !.state = newState,
                  !.closedFlag = @ \/ (newState = "CLOSED" /\ orderly),
                  !.resetFlag = @ \/ (newState = "CLOSED" /\ ~orderly)]

\* Mutant: the events are updated before the state.
tcpChangeState_EventsFirst(s, newState) ==
    LET orderly == s.state \in {"LAST_ACK", "TIME_WAIT"}
    IN  [tcpUpdateEvents(s) EXCEPT
            !.state = newState,
            !.closedFlag = @ \/ (newState = "CLOSED" /\ orderly),
            !.resetFlag = @ \/ (newState = "CLOSED" /\ ~orderly)]

\* Mutant: the reset flag is set whatever the previous state was.
tcpChangeState_NoElse(s, newState) ==
    LET orderly == s.state \in {"LAST_ACK", "TIME_WAIT"}
    IN  tcpUpdateEvents(
            [s EXCEPT !.state = newState,
                      !.closedFlag = @ \/ (newState = "CLOSED" /\ orderly),
                      !.resetFlag = @ \/ newState = "CLOSED"])

tcpChangeState(s, newState) ==
    LET orderly == s.state \in {"LAST_ACK", "TIME_WAIT"}
    IN  tcpUpdateEvents(
            [s EXCEPT !.state = newState,
                      !.closedFlag = @ \/ (newState = "CLOSED" /\ orderly),
                      !.resetFlag = @ \/ (newState = "CLOSED" /\ ~orderly)])

\* tcpWaitForEvents up to the point where the mutex is released: the task
\* blocks exactly when no flag is raised.
tcpWaitForEvents(s, eventMask) ==
    LET u == tcpUpdateEvents([s EXCEPT !.eventMask = eventMask])
    IN  IF u.eventFlags = {} THEN [u EXCEPT !.event = FALSE] ELSE u

----------------------------------------------------------------------------
(* Circular buffers *)

TxOffset(s, seqNum) == SeqSub(seqNum, s.iss + 1) % TxBufferSize

RxOffset(s, seqNum) == SeqSub(seqNum, s.irs + 1) % RxBufferSize

\* Overwrite Len(data) cells of the ring from offset on
RingWrite(ring, size, offset, data) ==
    [i \in 0 .. size - 1 |->
        LET k == (i - offset) % size
        IN  IF k < Len(data) THEN data[k + 1] ELSE ring[i]]

RingRead(ring, size, offset, length) ==
    [k \in 1 .. length |-> ring[(offset + k - 1) % size]]

tcpWriteTxBuffer(s, seqNum, data) ==
    [s EXCEPT !.txBuffer =
        RingWrite(@, TxBufferSize, TxOffset(s, seqNum), data)]

tcpReadTxBuffer(s, seqNum, length) ==
    RingRead(s.txBuffer, TxBufferSize, TxOffset(s, seqNum), length)

tcpWriteRxBuffer(s, seqNum, data) ==
    [s EXCEPT !.rxBuffer =
        RingWrite(@, RxBufferSize, RxOffset(s, seqNum), data)]

\* A released buffer has no chunks left: nothing is copied to the caller.
tcpReadRxBuffer(s, seqNum, length) ==
    IF s.rxAlloc
    THEN RingRead(s.rxBuffer, RxBufferSize, RxOffset(s, seqNum), length)
    ELSE [k \in 1 .. length |-> NoByte]

----------------------------------------------------------------------------
(* Sending *)

SegmentOf(s, item) ==
    [flags |-> item.flags, seqNum |-> item.seqNum, ackNum |-> item.ackNum,
     window |-> item.window,
     data |-> tcpReadTxBuffer(s, item.seqNum, item.length)]

\* Mutant: the timer is started only when the transmission succeeds.
SendRun_TimerIfSent(s, items, addToQueue) ==
    LET sent   == MinOf(Len(items), s.txRoom)
        failed == sent < Len(items)
        stays  == IF failed /\ s.fault = "notSent" THEN sent + 1 ELSE sent
        queued == IF addToQueue THEN SubSeq(items, 1, stays) ELSE <<>>
    IN  [s EXCEPT !.txRoom = @ - sent, !.err = failed,
                  !.retransmitQueue = @ \o queued,
                  !.retransmitTimer = @ \/ (queued # <<>> /\ ~failed)]

\* A run of tcpSendSegment calls that stops at the first failure.  A segment
\* whose transmission fails is already on the retransmission queue.
SendRun(s, items, addToQueue) ==
    LET sent   == IF Len(items) \in 0 .. s.txRoom THEN Len(items) ELSE s.txRoom
        failed == sent < Len(items)
        stays  == IF failed /\ s.fault = "notSent" THEN sent + 1 ELSE sent
        queued == IF addToQueue THEN SubSeq(items, 1, stays) ELSE <<>>
        starts == queued # <<>> /\ ~s.retransmitTimer
        sample == queued # <<>> /\ ~s.rttBusy /\ CongestControl
    IN  [s EXCEPT
            !.out = @ \o [i \in 1 .. sent |-> SegmentOf(s, items[i])],
            !.txRoom = @ - sent,
            !.err = failed,
            !.retransmitQueue = @ \o queued,
            !.retransmitTimer = @ \/ queued # <<>>,
            !.retransmitCount = IF starts THEN 0 ELSE @,
            !.rttBusy = @ \/ sample,
            !.rttSeqNum = IF sample THEN items[1].seqNum ELSE @,
            !.n = IF sample THEN 0 ELSE @]

tcpSendSegment(s, flags, seqNum, ackNum, length, addToQueue) ==
    SendRun(s, <<Item(flags, seqNum, ackNum, s.rcvWnd, length)>>, addToQueue)

\* The pure acknowledgment that most handlers answer with
SendAck(s) == tcpSendSegment(s, {"ACK"}, s.sndNxt, s.rcvNxt, 0, FALSE)

\* The reset that answers a segment for which there is no connection
tcpSendResetSegment(s, seg) ==
    LET syn  == IF Has(seg, "SYN") THEN 1 ELSE 0
        fin  == IF Has(seg, "FIN") THEN 1 ELSE 0
        next == SeqAdd(seg.seqNum, SegLen(seg) + syn + fin)
    IN  IF Has(seg, "ACK")
        THEN SendRun(s, <<Item({"RST"}, seg.ackNum, 0, 0, 0)>>, FALSE)
        ELSE SendRun(s, <<Item({"RST", "ACK"}, 0, next, 0, 0)>>, FALSE)

\* Retransmit the head of the queue, at most Smss bytes of it.
tcpRetransmitSegment(s) ==
    LET q == s.retransmitQueue
        bytes[i \in 0 .. Len(q)] ==
            IF i = 0 THEN 0 ELSE bytes[i - 1] + q[i].length
        fits == {i \in 0 .. Len(q) : bytes[i] <= Smss}
        last == CHOOSE i \in fits : \A j \in fits : j <= i
    IN  SendRun(s, SubSeq(q, 1, last), FALSE)

\* Send sndUser bytes in segments of at most Smss bytes: full segments first,
\* then a shorter one of tail bytes (0 for none).
SendBurst(s, full, tail) ==
    LET count == full + (IF tail > 0 THEN 1 ELSE 0)
        size(i) == IF i <= full THEN Smss ELSE tail
        items == [i \in 1 .. count |->
                    Item({"ACK"}, SeqAdd(s.sndNxt, (i - 1) * Smss), s.rcvNxt,
                         s.rcvWnd, size(i))]
        sent  == MinOf(count, s.txRoom)
        bytes == IF sent <= full THEN sent * Smss ELSE full * Smss + tail
    IN  [SendRun(s, items, TRUE) EXCEPT
            !.sndNxt = SeqAdd(@, bytes), !.sndUser = @ - bytes]

\* Mutant: the congestion window is forgotten.
UsableWindow_NoCwnd(s) ==
    MinOf(s.sndWnd, TxBufferSize) - SeqSub(s.sndNxt, s.sndUna)

\* Usable window: what the peer's window and the congestion window leave
UsableWindow(s) ==
    LET wnd == MinOf(s.sndWnd, TxBufferSize)
        n   == IF CongestControl THEN MinOf(wnd, s.cwnd) ELSE wnd
    IN  n - SeqSub(s.sndNxt, s.sndUna)

\* flags is "NO_DELAY", "DELAY" or "NONE".  All full-sized segments the window
\* allows are sent; what remains, shorter than Smss, is sent only when the
\* flags and the silly window avoidance allow it.
tcpNagleAlgo(s, flags) ==
    LET u     == UsableWindow(s)
        burst == IF u <= 0 THEN 0 ELSE MinOf(s.sndUser, u)
        full  == burst \div Smss
        rest  == burst % Smss
        idle  == full = 0 /\ s.sndNxt = s.sndUna /\ s.sndUser <= u
        tiny  == CASE flags = "NO_DELAY" -> TRUE
                   [] flags = "DELAY" -> FALSE
                   [] OTHER -> idle \/ rest >= s.maxSndWnd \div 2
        t     == SendBurst([s EXCEPT !.err = FALSE], full,
                           IF tiny THEN rest ELSE 0)
    IN  IF t.err THEN t ELSE tcpUpdateEvents(t)

----------------------------------------------------------------------------
(* Acknowledgments, retransmission queue and congestion control *)

ItemEnd(item) ==
    LET length == IF "SYN" \in item.flags THEN 1
                  ELSE IF "FIN" \in item.flags THEN item.length + 1
                  ELSE item.length
    IN  SeqAdd(item.seqNum, length)

\* Mutants: an item goes as soon as its first byte is acknowledged; any
\* acknowledgment empties the queue.
tcpUpdateRetransmitQueue_FirstByte(s) ==
    LET Kept(item) == TCP_CMP_SEQ(s.sndUna, item.seqNum) <= 0
        left    == SelectSeq(s.retransmitQueue, Kept)
    IN  [s EXCEPT !.retransmitQueue = left,
                  !.retransmitTimer = left # <<>>]

tcpUpdateRetransmitQueue_Clears(s) ==
    [s EXCEPT !.retransmitQueue = <<>>, !.retransmitTimer = FALSE]

tcpUpdateRetransmitQueue(s) ==
    LET Kept(item) == TCP_CMP_SEQ(s.sndUna, ItemEnd(item)) < 0
        empty   == ~ \E i \in DOMAIN s.retransmitQueue :
                        Kept(s.retransmitQueue[i])
        left    == IF empty THEN <<>> ELSE SelectSeq(s.retransmitQueue, Kept)
        removed == left # s.retransmitQueue
    IN  [s EXCEPT !.retransmitQueue = left,
                  !.retransmitTimer = ~empty /\ (@ \/ removed),
                  !.retransmitCount = IF removed THEN 0 ELSE @]

tcpFlushRetransmitQueue(s) ==
    [s EXCEPT !.retransmitQueue = <<>>, !.retransmitTimer = FALSE]

tcpFlushSynQueue(s) == [s EXCEPT !.synQueue = <<>>]

\* Mutant: the retransmission queue is not flushed.
tcpDeleteControlBlock_KeepsQueue(s) ==
    [tcpFlushSynQueue(s) EXCEPT !.txAlloc = FALSE, !.rxAlloc = FALSE]

tcpDeleteControlBlock(s) ==
    [tcpFlushSynQueue(tcpFlushRetransmitQueue(s)) EXCEPT
        !.txAlloc = FALSE, !.rxAlloc = FALSE]

\* Does the acknowledgment that was just accepted complete the RTT sample?
RttMeasured(s) == s.rttBusy /\ TCP_CMP_SEQ(s.sndUna, s.rttSeqNum) > 0

tcpComputeRto(s) == [s EXCEPT !.rttBusy = @ /\ ~RttMeasured(s)]

\* Mutant: a window that closes does not start the persist timer.
tcpUpdateSendWindow_NoPersist(s, seg) ==
    IF /\ TCP_CMP_SEQ(seg.seqNum, s.sndWl1) >= 0
       /\ TCP_CMP_SEQ(seg.ackNum, s.sndWl2) >= 0
    THEN [s EXCEPT !.sndWnd = seg.window, !.sndWl1 = seg.seqNum,
                   !.sndWl2 = seg.ackNum, !.maxSndWnd = MaxOf(@, seg.window)]
    ELSE s

tcpUpdateSendWindow(s, seg) ==
    LET same  == seg.seqNum = s.sndWl1 /\ seg.ackNum = s.sndWl2
        newer == /\ TCP_CMP_SEQ(seg.seqNum, s.sndWl1) >= 0
                 /\ TCP_CMP_SEQ(seg.ackNum, s.sndWl2) >= 0
        takes == IF same THEN seg.window > s.sndWnd ELSE newer
        probe == ~same /\ newer /\ seg.window = 0 /\ s.sndWnd # 0
    IN  [s EXCEPT
            !.wndProbeCount = IF probe THEN 0 ELSE @,
            !.wndProbeInterval = IF probe THEN 1 ELSE @,
            !.persistTimer = @ \/ probe,
            !.sndWnd = IF takes THEN seg.window ELSE @,
            !.sndWl1 = IF takes THEN seg.seqNum ELSE @,
            !.sndWl2 = IF takes THEN seg.ackNum ELSE @,
            !.maxSndWnd = IF takes THEN MaxOf(@, seg.window) ELSE @]

tcpIsDuplicateAck(s, seg) ==
    /\ s.retransmitQueue # <<>>
    /\ SegLen(seg) = 0
    /\ seg.flags \cap {"SYN", "FIN"} = {}
    /\ seg.ackNum = s.sndUna
    /\ seg.window = s.sndWnd

FlightSsthresh(s) == MaxOf(SeqSub(s.sndNxt, s.sndUna) \div 2, 2 * Smss)

tcpFastRetransmit(s) ==
    [tcpRetransmitSegment(s) EXCEPT
        !.ssthresh = FlightSsthresh(s),
        !.recover = SeqSub(s.sndNxt, 1),
        !.cwnd = U16(FlightSsthresh(s) + 3 * Smss),
        !.congestState = "RECOVERY"]

tcpFastRecovery(s, seg, n) ==
    LET left == IF s.cwnd > n THEN s.cwnd - n ELSE s.cwnd
        back == IF n >= Smss THEN Smss ELSE 0
    IN  IF TCP_CMP_SEQ(seg.ackNum, s.recover) > 0
        THEN [s EXCEPT !.cwnd = s.ssthresh, !.congestState = "IDLE"]
        ELSE [tcpRetransmitSegment(s) EXCEPT !.cwnd = U16(left + back)]

tcpFastLossRecovery(s, seg) ==
    IF TCP_CMP_SEQ(seg.ackNum, s.recover) > 0
    THEN [s EXCEPT !.congestState = "IDLE"]
    ELSE tcpRetransmitSegment(s)

LimitCwnd(s) == [s EXCEPT !.cwnd = MinOf(@, TxBufferSize)]

\* Congestion control on an acknowledgment of n new bytes
CongestNewAck(s, seg, n, rttDone) ==
    LET r == [s EXCEPT !.dupAckCount = 0]
        l == IF s.congestState = "LOSS_RECOVERY"
             THEN tcpFastLossRecovery(r, seg) ELSE r
        grow == IF s.cwnd < s.ssthresh THEN MinOf(n, Smss)
                ELSE IF rttDone THEN MinOf(s.n, Smss) ELSE 0
    IN  IF s.congestState = "RECOVERY"
        THEN LimitCwnd(tcpFastRecovery(s, seg, n))
        ELSE LimitCwnd([l EXCEPT !.cwnd = U16(@ + grow)])

\* Congestion control on an acknowledgment that covers nothing new
CongestSameAck(s, seg, duplicate) ==
    LET c      == [s EXCEPT !.dupAckCount = IF duplicate THEN @ + 1 ELSE 0]
        ownd   == SeqSub(s.sndNxt, s.sndUna)
        early  == s.sndUser = 0 \/ s.sndWnd <= ownd
        thresh == IF early /\ ownd <= 3 * Smss THEN 1
                  ELSE IF early /\ ownd <= 4 * Smss THEN 2 ELSE 3
        fast   == /\ s.congestState = "IDLE"
                  /\ c.dupAckCount >= thresh
                  /\ TCP_CMP_SEQ(seg.ackNum, SeqAdd(s.recover, 1)) > 0
    IN  LimitCwnd(CASE fast -> tcpFastRetransmit(c)
                    [] s.congestState = "RECOVERY" /\ duplicate ->
                          [c EXCEPT !.cwnd = U16(@ + Smss)]
                    [] OTHER -> c)

\* SEG.ACK > SND.NXT: acknowledges something not yet sent
AckOfFuture(s, seg) == TCP_CMP_SEQ(seg.ackNum, s.sndNxt) > 0

\* SEG.ACK < SND.UNA: an old duplicate
AckOfPast(s, seg) == TCP_CMP_SEQ(seg.ackNum, s.sndUna) < 0

NewAck(s, seg) ==
    LET acked == SeqSub(seg.ackNum, s.sndUna)
        n     == IF s.sndUna = s.iss THEN acked - 1 ELSE acked
        a     == [s EXCEPT !.sndUna = seg.ackNum,
                           !.n = IF CongestControl THEN @ + n ELSE @]
        q     == tcpUpdateRetransmitQueue(tcpComputeRto(a))
    IN  IF CongestControl THEN CongestNewAck(q, seg, n, RttMeasured(a)) ELSE q

\* tcpCheckAck returns an error for these segments: the handler stops there
AckRejected(s, seg) ==
    \/ ~Has(seg, "ACK")
    \/ ~AckOfPast(s, seg) /\ AckOfFuture(s, seg)

tcpCheckAck(s, seg) ==
    LET w == tcpUpdateSendWindow(s, seg)
    IN  CASE ~Has(seg, "ACK") -> s
          [] Has(seg, "ACK") /\ AckOfPast(s, seg) -> s
          [] Has(seg, "ACK") /\ ~AckOfPast(s, seg) /\ AckOfFuture(s, seg) ->
                SendAck(s)
          [] OTHER ->
                tcpUpdateEvents(
                    IF TCP_CMP_SEQ(seg.ackNum, s.sndUna) > 0
                    THEN NewAck(w, seg)
                    ELSE IF CongestControl
                    THEN CongestSameAck(w, seg, tcpIsDuplicateAck(s, seg))
                    ELSE w)

----------------------------------------------------------------------------
(* Incoming segments: acceptability, data, receive window *)

InReceiveWindow(s, seqNum) ==
    /\ TCP_CMP_SEQ(seqNum, s.rcvNxt) >= 0
    /\ TCP_CMP_SEQ(seqNum, SeqAdd(s.rcvNxt, s.rcvWnd)) < 0

\* The acceptability test of tcpCheckSequenceNumber
SequenceAcceptable(s, seg) ==
    IF s.rcvWnd = 0
    THEN SegLen(seg) = 0 /\ seg.seqNum = s.rcvNxt
    ELSE \/ InReceiveWindow(s, seg.seqNum)
         \/ /\ SegLen(seg) > 0
            /\ InReceiveWindow(s, SeqAdd(seg.seqNum, SegLen(seg) - 1))

\* tcpCheckSequenceNumber on an unacceptable segment
tcpCheckSequenceNumber(s, seg) == IF Has(seg, "RST") THEN s ELSE SendAck(s)

\* tcpCheckSyn on a segment with the SYN flag
tcpCheckSyn(s, seg) ==
    IF Has(seg, "ACK")
    THEN tcpSendSegment(s, {"RST"}, seg.ackNum, 0, 0, FALSE)
    ELSE tcpSendSegment(s, {"RST", "ACK"}, 0,
                        SeqAdd(seg.seqNum, SegLen(seg) + 1), 0, FALSE)

\* Mutants: adjacent blocks are not merged; the edges are merged the wrong
\* way round.
AbsorbBlock_Strict(acc, blocks, i) ==
    IF i > Len(blocks) THEN acc
    ELSE IF /\ TCP_CMP_SEQ(acc.right, blocks[i].left) > 0
            /\ TCP_CMP_SEQ(acc.left, blocks[i].right) < 0
    THEN [acc EXCEPT !.left = MinOf(@, blocks[i].left),
                     !.right = MaxOf(@, blocks[i].right)]
    ELSE [acc EXCEPT !.kept = Append(@, blocks[i])]

AbsorbBlock_Swapped(acc, blocks, i) ==
    IF i > Len(blocks) THEN acc
    ELSE IF /\ TCP_CMP_SEQ(acc.right, blocks[i].left) >= 0
            /\ TCP_CMP_SEQ(acc.left, blocks[i].right) <= 0
    THEN [acc EXCEPT !.left = MaxOf(@, blocks[i].left),
                     !.right = MaxOf(@, blocks[i].right)]
    ELSE [acc EXCEPT !.kept = Append(@, blocks[i])]

\* One iteration of the merge loop of tcpUpdateSackBlocks.  The edges are
\* combined as plain unsigned integers (MIN and MAX).
AbsorbBlock(acc, blocks, i) ==
    IF i > Len(blocks) THEN acc
    ELSE IF /\ TCP_CMP_SEQ(acc.right, blocks[i].left) >= 0
            /\ TCP_CMP_SEQ(acc.left, blocks[i].right) <= 0
    THEN [acc EXCEPT !.left = MinOf(@, blocks[i].left),
                     !.right = MaxOf(@, blocks[i].right)]
    ELSE [acc EXCEPT !.kept = Append(@, blocks[i])]

\* The merged edges and the blocks that remain (at most four: MaxSackBlocks)
AbsorbBlocks(blocks, left, right) ==
    LET acc0 == [left |-> left, right |-> right, kept |-> <<>>]
        acc1 == AbsorbBlock(acc0, blocks, 1)
        acc2 == AbsorbBlock(acc1, blocks, 2)
        acc3 == AbsorbBlock(acc2, blocks, 3)
    IN  AbsorbBlock(acc3, blocks, 4)

tcpUpdateSackBlocks(s, left, right) ==
    LET m == AbsorbBlocks(s.sackBlock, left, right)
        b == <<[left |-> m.left, right |-> m.right]>> \o m.kept
    IN  [s EXCEPT !.sackBlock =
            IF TCP_CMP_SEQ(m.left, s.rcvNxt) > 0
            THEN SubSeq(b, 1, MinOf(Len(b), MaxSackBlocks)) ELSE m.kept]

tcpProcessSegmentData(s, seg) ==
    LET end   == SeqAdd(s.rcvNxt, s.rcvWnd)
        stop  == SeqAdd(seg.seqNum, SegLen(seg))
        left  == IF TCP_CMP_SEQ(seg.seqNum, s.rcvNxt) < 0
                 THEN s.rcvNxt ELSE seg.seqNum
        right == IF TCP_CMP_SEQ(stop, end) > 0 THEN end ELSE stop
        skip  == SeqSub(left, seg.seqNum)
        data  == SubSeq(seg.data, skip + 1, skip + SeqSub(right, left))
        w     == tcpWriteRxBuffer(s, left, data)
        m     == AbsorbBlocks(s.sackBlock, left, right)
        b     == tcpUpdateSackBlocks(w, left, right)
        more  == SeqSub(m.right, m.left)
    IN  IF TCP_CMP_SEQ(m.left, s.rcvNxt) > 0
        THEN SendAck(b)
        ELSE tcpUpdateEvents(SendAck(
                [b EXCEPT !.rcvNxt = SeqAdd(@, more),
                          !.rcvUser = U16(@ + more),
                          !.rcvWnd = U16(@ - more)]))

\* Mutants: unread data is counted as free; the window is closed while the
\* update would be small.
tcpUpdateReceiveWindow_Unread(s) ==
    [s EXCEPT !.rcvWnd = MaxOf(@, RxBufferSize)]

tcpUpdateReceiveWindow_Closes(s) ==
    LET reduction == U16(RxBufferSize - s.rcvUser - s.rcvWnd)
    IN  IF s.rcvWnd + reduction < RxBufferSize THEN [s EXCEPT !.rcvWnd = 0]
        ELSE [s EXCEPT !.rcvWnd = U16(@ + reduction)]

tcpUpdateReceiveWindow(s) ==
    LET reduction == U16(RxBufferSize - s.rcvUser - s.rcvWnd)
        small     == MinOf(Rmss, RxBufferSize \div 2)
        wide      == [s EXCEPT !.rcvWnd = U16(@ + reduction)]
    IN  CASE s.rcvWnd + reduction < small -> s
          [] s.rcvWnd + reduction >= small /\ s.rcvWnd < small -> SendAck(wide)
          [] OTHER -> wide

============================================================================
