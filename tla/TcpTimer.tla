------------------------------ MODULE TcpTimer ------------------------------
(***************************************************************************)
(* The timer handler of tcp_timer.c for one socket.  elapsed is the set of *)
(* running timers whose interval is over when the handler runs.            *)
(***************************************************************************)
EXTENDS TcpFsm

RunningTimers(s) ==
    {t \in TcpTimerName :
        CASE t = "retransmit" -> s.retransmitTimer
          [] t = "persist" -> s.persistTimer
          [] t = "override" -> s.overrideTimer
          [] t = "finWait2" -> s.finWait2Timer
          [] t = "timeWait" -> s.timeWaitTimer}

\* The running timers whose end the handler acts upon in the socket's state;
\* it makes no difference whether the others have elapsed.
WatchedTimers(s) ==
    {t \in RunningTimers(s) :
        /\ s.state # "CLOSED"
        /\ t = "retransmit" => s.retransmitQueue # <<>>
        /\ t = "persist" => s.sndWnd = 0 /\ s.wndProbeInterval # 0
        /\ t = "override" =>
            s.state \in {"ESTABLISHED", "CLOSE_WAIT"} /\ s.sndUser > 0
        /\ t = "finWait2" => s.state = "FIN_WAIT_2"
        /\ t = "timeWait" => s.state = "TIME_WAIT"}

\* A retransmission timeout starts the fast loss recovery procedure.
LossRecovery(s) ==
    IF ~CongestControl THEN s
    ELSE [s EXCEPT
            !.ssthresh = IF s.retransmitCount = 0 THEN FlightSsthresh(s) ELSE @,
            !.cwnd = MinOf(Smss, TxBufferSize),
            !.recover = SeqSub(s.sndNxt, 1),
            !.congestState = "LOSS_RECOVERY"]

\* Mutants: one retransmission too many; the retransmissions are not counted;
\* the connection is dropped without its flags.
RetransmitTimeout_OneMore(s) ==
    IF s.retransmitCount <= MaxRetries
    THEN [tcpRetransmitSegment(LossRecovery(s)) EXCEPT
            !.retransmitCount = @ + 1, !.rttBusy = FALSE]
    ELSE [tcpChangeState(LossRecovery(s), "CLOSED") EXCEPT
            !.retransmitTimer = FALSE, !.rttBusy = FALSE]

RetransmitTimeout_Forever(s) ==
    [tcpRetransmitSegment(LossRecovery(s)) EXCEPT !.rttBusy = FALSE]

RetransmitTimeout(s) ==
    LET l == LossRecovery(s)
        t == IF s.retransmitCount < MaxRetries
             THEN [tcpRetransmitSegment(l) EXCEPT !.retransmitCount = @ + 1]
             ELSE [tcpChangeState(l, "CLOSED") EXCEPT !.retransmitTimer = FALSE]
    IN  [t EXCEPT !.rttBusy = FALSE]

PersistTimeout(s) ==
    IF s.wndProbeCount < MaxRetries
    THEN [tcpSendSegment(s, {"ACK"}, SeqSub(s.sndNxt, 1), s.rcvNxt, 0, FALSE)
            EXCEPT !.wndProbeCount = @ + 1]
    ELSE tcpChangeState(s, "CLOSED")

\* All buffered data the window allows goes out, whatever its size.
OverrideTimeout(s) ==
    LET u     == UsableWindow(s)
        burst == IF u <= 0 THEN 0 ELSE MinOf(s.sndUser, u)
    IN  tcpUpdateEvents(SendBurst(s, burst \div Smss, burst % Smss))

\* Mutants: the slot is given back although the user still holds it, or never.
TimeWaitTimeout_Always(s) == Dispose(tcpChangeState(s, "CLOSED"))

TimeWaitTimeout_Never(s) == tcpChangeState(s, "CLOSED")

TimeWaitTimeout(s) ==
    LET c == tcpChangeState(s, "CLOSED")
    IN  IF s.ownedFlag THEN c ELSE Dispose(c)

(* The five parts of tcpTick, in the order of the code *)
TickRetransmit(s, elapsed) ==
    IF "retransmit" \in elapsed /\ s.retransmitQueue # <<>>
    THEN RetransmitTimeout(s) ELSE s

TickPersist(s, elapsed) ==
    IF "persist" \in elapsed /\ s.sndWnd = 0 /\ s.wndProbeInterval # 0
    THEN PersistTimeout(s) ELSE s

TickOverride(s, elapsed) ==
    IF /\ "override" \in elapsed
       /\ s.state \in {"ESTABLISHED", "CLOSE_WAIT"} /\ s.sndUser > 0
    THEN OverrideTimeout(s) ELSE s

TickFinWait2(s, elapsed) ==
    IF "finWait2" \in elapsed /\ s.state = "FIN_WAIT_2"
    THEN tcpChangeState(s, "CLOSED") ELSE s

TickTimeWait(s, elapsed) ==
    IF "timeWait" \in elapsed /\ s.state = "TIME_WAIT"
    THEN TimeWaitTimeout(s) ELSE s

\* A connection that is given up is left alone by the other timers.
TickOthers(s, elapsed) ==
    IF s.state = "CLOSED" THEN s
    ELSE TickTimeWait(TickFinWait2(TickOverride(TickPersist(s, elapsed),
                                                elapsed), elapsed), elapsed)

tcpTick(s, elapsed) ==
    IF s.state = "CLOSED" THEN s
    ELSE TickOthers(TickRetransmit(s, elapsed), elapsed)

============================================================================
