------------------------- MODULE TcpEndpointProofs -------------------------
(***************************************************************************)
(* Theorems about TcpEndpoint, for any size of the sequence space and of   *)
(* the buffers, any number of retries, any segments, any behaviour of the  *)
(* IP layer and any bound.                                                 *)
(***************************************************************************)
EXTENDS TcpEndpoint, TcpLemmas

\* The inductive invariant.  The last three conjuncts carry the argument: a
\* live socket has its timer armed, an unused one owns nothing, and a socket
\* the user holds can be neither given back nor disowned behind his back.
Linked ==
    /\ IsSock(sock) /\ IsTask(task) /\ task.pc \in TaskPc
    /\ sock.type \in {"UNUSED", "STREAM"}
    /\ sock.state \in TcpState \ {"LISTEN"}
    /\ sock.state # "CLOSED" => Armed(sock) /\ sock.type = "STREAM"
    /\ sock.type = "UNUSED" => Released(sock)
    /\ task.pc # "free" =>
        sock.type = "STREAM" /\ (sock.state # "CLOSED" => sock.ownedFlag)

\* A slot that was never used satisfies the invariant.
LEMMA InitLinked == Init => Linked
<1> SUFFICES ASSUME Init PROVE Linked
    OBVIOUS
<1>1. /\ DOMAIN sock = SockField
      /\ sock.type = "UNUSED" /\ sock.state = "CLOSED" /\ Released(sock)
      /\ sock.resetFlag = FALSE /\ sock.closedFlag = FALSE
      BY DEF Init, UnusedSocket, SockField, Released
<1>3. /\ sock.sndUser = 0 /\ sock.txRoom = 0 /\ sock.sndUna = 0 /\ sock.sndNxt = 0
      /\ sock.sndWnd = 0 /\ sock.cwnd = 0 /\ sock.ssthresh = 0 /\ sock.n = 0
      BY DEF Init, UnusedSocket, SockField
<1>4. Numeric(sock)
      BY <1>3 DEF Numeric
<1>5. IsSock(sock)
      BY <1>1, <1>4 DEF IsSock
<1>2. IsTask(task) /\ task.pc = "free"
      BY DEF Init, NoTask, Returned, Call, IsTask
<1> QED BY <1>1, <1>2, <1>5 DEF Linked, TaskPc, TcpState

\* The bookkeeping at the start and at the end of a critical section
LEMMA Starting ==
    ASSUME IsSock(sock), NEW f \in TxFault
    PROVE  Steady(sock, Start(f)) /\ Start(f).txRoom \in Nat
<1>1. f.txRoom \in Nat
      BY EndpointAssumption
<1> QED BY <1>1 DEF IsSock, SockField, Steady, Shift, Armed, Numeric, Start

\* Ending a critical section changes nothing of note.
LEMMA Settling ==
    ASSUME NEW s, IsSock(s)
    PROVE  Steady(s, Settle(s)) /\ (Released(s) => Released(Settle(s)))
BY DEF IsSock, SockField, Steady, Shift, Armed, Numeric, Released, Settle

\* What a step may do, seen from the contracts: one of these relations
\* between sock and sock'
Kept == Steady(sock, sock')

Ended == sock.state # "CLOSED" /\ Ends(sock, sock')

Freed ==
    sock.state = "TIME_WAIT" /\ ~sock.ownedFlag /\ GivenBack(sock, sock')

Advanced ==
    \E new \in TcpState :
        <<sock.state, new>> \in Advances /\ Shift(sock, sock', new)

FinSent ==
    \/ sock.state = "ESTABLISHED" /\ Shift(sock, sock', "FIN_WAIT_1")
    \/ sock.state = "CLOSE_WAIT" /\ Shift(sock, sock', "LAST_ACK")

\* Such a step preserves the invariant and is a step of the contract.
LEMMA Continues ==
    ASSUME Linked, sock.type = "STREAM",
           IsTask(task'), task'.pc \in TaskPc,
           task'.pc = "free" <=> task.pc = "free",
           Kept \/ Ended \/ Freed \/ Advanced \/ FinSent
    PROVE  Linked' /\ [Contract!Next]_(Contract!model)
<1> USE DEF Linked, IsSock
<1>1. CASE Kept
      BY <1>1 DEF Kept, Steady, Shift, Contract!model
<1>2. CASE Ended
  <2>1. Contract!ConnectionEnds
        BY <1>2 DEF Ended, Ends, Contract!ConnectionEnds
  <2>2. Linked'
        BY <1>2 DEF Ended, Ends, TcpState
  <2> QED BY <2>1, <2>2 DEF Contract!Next
<1>3. CASE Freed
  <2>1. Contract!Tcp_Tick
        BY <1>3 DEF Freed, GivenBack, Contract!Tcp_Tick
  <2>2. Linked'
        BY <1>3 DEF Freed, GivenBack, TcpState
  <2> QED BY <2>1, <2>2 DEF Contract!Next
<1>4. CASE Advanced
  <2>1. PICK new \in TcpState :
            <<sock.state, new>> \in Advances /\ Shift(sock, sock', new)
        BY <1>4 DEF Advanced
  <2>2. new \in Contract!SegmentTarget(sock.state) /\ new # "LISTEN" /\ new # "CLOSED"
        BY <2>1 DEF Advances, Contract!SegmentTarget
  <2>3. Contract!ProcessOneSegment
        BY <2>1, <2>2 DEF Shift, Contract!ProcessOneSegment
  <2>4. sock.state # "CLOSED"
        BY <2>1 DEF Advances
  <2>5. Linked'
        BY <2>1, <2>2, <2>4 DEF Shift
  <2> QED BY <2>3, <2>5 DEF Contract!Next
<1>5. CASE FinSent
  <2>1. Contract!Tcp_Shutdown
        BY <1>5 DEF FinSent, Shift, Contract!Tcp_Shutdown
  <2>2. Linked'
        BY <1>5 DEF FinSent, Shift, TcpState
  <2> QED BY <2>1, <2>2 DEF Contract!Next
<1> QED BY <1>1, <1>2, <1>3, <1>4, <1>5

----------------------------------------------------------------------------
(* What each action does *)

\* A task that is blocked after the step has just been told the truth.
Listens ==
    task'.pc \in Blocked => UpToDate(sock') /\ task'.before = sock'.state

\* The end of a critical section changes nothing events depend on.
LEMMA CommitListens ==
    ASSUME NEW o, IsSock(o.sock), Watchful(o), Commit(o)
    PROVE  Listens
<1>1. Unseen(o.sock, Settle(o.sock))
      BY DEF IsSock, SockField, Unseen, Settle
<1>2. sock' = Settle(o.sock) /\ task' = o.task
      BY DEF Commit
<1>3. UpToDate(o.sock) => UpToDate(sock')
      BY <1>1, <1>2, UnseenKeeps
<1> QED BY <1>1, <1>2, <1>3 DEF Listens, Watchful, Unseen

\* A stretch of a call that neither opens nor ends a connection
Called ==
    /\ sock.type = "STREAM" /\ task.pc # "free" /\ (Kept \/ FinSent)
    /\ IsTask(task') /\ task'.pc \in TaskPc \ {"free"}
    /\ Listens

\* Tcp_Connect on a closed socket
Connected ==
    /\ sock.type = "STREAM" /\ sock.state = "CLOSED"
    /\ IsSock(sock') /\ sock'.type = "STREAM" /\ sock'.ownedFlag = TRUE
    /\ sock'.resetFlag = sock.resetFlag /\ sock'.closedFlag = sock.closedFlag
    /\ \/ sock'.state = "CLOSED"
       \/ sock'.state = "SYN_SENT" /\ Armed(sock')
    /\ IsTask(task') /\ task'.pc \in TaskPc \ {"free"}
    /\ Listens

\* Tcp_Accept on the socket it has opened
Accepted ==
    /\ sock.type = "STREAM" /\ sock.state = "CLOSED"
    /\ IsSock(sock') /\ sock'.ownedFlag = TRUE /\ IsTask(task')
    /\ \/ /\ sock'.state = "SYN_RECEIVED" /\ Armed(sock') /\ sock'.type = "STREAM"
          /\ sock'.resetFlag = sock.resetFlag /\ sock'.closedFlag = sock.closedFlag
          /\ task'.pc = "ready"
       \/ /\ sock'.state = "CLOSED" /\ sock'.type = "UNUSED"
          /\ sock'.resetFlag = TRUE /\ Released(sock') /\ task'.pc = "free"

\* Tcp_Abort
Aborted ==
    /\ sock.type = "STREAM" /\ IsTask(task') /\ task'.pc = "free"
    /\ \/ /\ sock.state = "TIME_WAIT"
          /\ IsSock(sock') /\ sock'.type = "STREAM" /\ sock'.state = "TIME_WAIT"
          /\ sock'.resetFlag = sock.resetFlag /\ sock'.closedFlag = sock.closedFlag
          /\ sock'.ownedFlag = FALSE /\ (Armed(sock) => Armed(sock'))
       \/ sock.state # "TIME_WAIT" /\ GivenBack(sock, sock')

\* A segment or the timer handler
Driven ==
    /\ sock.type = "STREAM" /\ task' = task
    /\ Kept \/ Ended \/ Freed \/ Advanced
    /\ UpToDate(sock) => UpToDate(sock')

\* What happens between the start and the end of a stretch of a call is what
\* the step does.
LEMMA UserChanges ==
    ASSUME Linked, task.pc # "free", NEW f \in TxFault, NEW s,
           Steady(Start(f), s), NEW o, UserStep(s, o), Watchful(o), Commit(o)
    PROVE  Called
<1>1. Steady(sock, Start(f))
      BY Starting DEF Linked
<1>2. Steady(sock, s)
      BY <1>1 DEF Steady, Shift
<1>3. UserStep(sock, o)
      BY <1>2, UserStepAfter
<1>4. Steady(o.sock, sock') /\ IsSock(o.sock)
      BY <1>3, Settling DEF UserStep, Steady, Shift, Commit
<1>5. Kept \/ FinSent
      BY <1>3, <1>4 DEF UserStep, Steady, Shift, Kept, FinSent
<1>6. sock.type = "STREAM"
      BY DEF Linked
<1>7. IsTask(task') /\ task'.pc \in TaskPc \ {"free"}
      BY <1>3 DEF UserStep, Commit
<1>8. Listens
      BY <1>4, CommitListens
<1> QED BY <1>5, <1>6, <1>7, <1>8 DEF Called

\* Connecting
LEMMA ConnectChanges ==
    ASSUME Linked, NEW f \in TxFault, Connect(f)
    PROVE  Connected \/ (sock.state # "CLOSED" /\ Called)
<1> DEFINE s == Start(f)
<1>1. PICK iss \in OwnIss : Commit(Tcp_Connect(s, iss))
      BY DEF Connect
<1>2. Steady(sock, s) /\ s.txRoom \in Nat
      BY Starting DEF Linked
<1>3. IsSock(s) /\ task.pc = "ready" /\ sock.type = "STREAM"
      BY <1>2 DEF Steady, Shift, Connect, Linked
<1>4. iss \in Int
      BY EndpointAssumption, SizeAssumption DEF SeqNum
<1> HIDE DEF s
<1> DEFINE o == Tcp_Connect(s, iss)
<1>5. Watchful(o)
      BY <1>3, <1>4, ConnectWatchful
<1>6. CASE sock.state # "CLOSED"
  <2>1. o = ConnectWait(s)
        BY <1>2, <1>6 DEF Tcp_Connect, Steady, Shift
  <2>2. UserStep(s, o)
        BY <1>3, <2>1, ConnectWaiting
  <2> HIDE DEF o
  <2>3. Steady(s, s) /\ Commit(o)
        BY <1>1, <1>3, SteadySelf DEF o
  <2> QED BY <1>3, <1>5, <1>6, <2>2, <2>3, UserChanges DEF s
<1>7. CASE sock.state = "CLOSED"
  <2>1. s.state = "CLOSED"
        BY <1>2, <1>7 DEF Steady, Shift
  <2>2. /\ IsTask(o.task) /\ o.task.pc \in TaskPc \ {"free"}
        /\ IsSock(o.sock) /\ o.sock.type = s.type
        /\ o.sock.resetFlag = s.resetFlag /\ o.sock.closedFlag = s.closedFlag
        /\ o.sock.ownedFlag = TRUE
        /\ \/ o.sock.state = "CLOSED"
           \/ o.sock.state = "SYN_SENT" /\ Armed(o.sock)
        BY <1>2, <1>3, <1>4, <2>1, ConnectStep
  <2> HIDE DEF o
  <2>3. Steady(o.sock, sock') /\ task' = o.task
        BY <1>1, <2>2, Settling DEF Commit, o
  <2>4. Listens
        BY <1>1, <1>5, <2>2, CommitListens DEF o
  <2> QED BY <1>2, <1>3, <1>7, <2>2, <2>3, <2>4 DEF Steady, Shift, Connected
<1> QED BY <1>6, <1>7

\* Accepting
LEMMA AcceptChanges ==
    ASSUME Linked, NEW f \in TxFault, Accept(f)
    PROVE  Accepted
<1> DEFINE s == Start(f)
<1>1. PICK iss \in OwnIss, isn \in PeerIss :
        LET c == AcceptChild(s, isn, iss)
        IN  Commit(Outcome(c, IF c.type = "UNUSED" THEN NoTask
                              ELSE Returned("NO_ERROR")))
      BY DEF Accept
<1> DEFINE c == AcceptChild(s, isn, iss)
<1>2. Steady(sock, s) /\ s.txRoom \in Nat
      BY Starting DEF Linked
<1>3. /\ IsSock(s) /\ s.state = "CLOSED"
      /\ sock.type = "STREAM" /\ sock.state = "CLOSED"
      BY <1>2 DEF Steady, Shift, Accept, Fresh, Linked
<1>4. /\ IsSock(c) /\ c.ownedFlag = TRUE
      /\ \/ /\ c.state = "SYN_RECEIVED" /\ Armed(c)
            /\ c.type = s.type /\ c.resetFlag = s.resetFlag
            /\ c.closedFlag = s.closedFlag
         \/ /\ c.state = "CLOSED" /\ c.type = "UNUSED"
            /\ c.resetFlag = TRUE /\ Released(c)
  <2>1. iss \in Int
        BY EndpointAssumption, SizeAssumption DEF SeqNum
  <2> HIDE DEF s
  <2> QED BY <1>2, <1>3, <2>1, AcceptStep
<1>5. /\ sock' = Settle(c)
      /\ task' = IF c.type = "UNUSED" THEN NoTask ELSE Returned("NO_ERROR")
  <2> HIDE DEF s
  <2> QED BY <1>1 DEF Commit, Outcome
<1> HIDE DEF c, s
<1>6. Steady(c, sock') /\ (Released(c) => Released(sock'))
      BY <1>4, <1>5, Settling
<1>7. /\ IsTask(task')
      /\ task'.pc = IF c.type = "UNUSED" THEN "free" ELSE "ready"
      BY <1>5 DEF NoTask, Returned, Call, IsTask
<1> QED BY <1>2, <1>3, <1>4, <1>6, <1>7 DEF Steady, Shift, Accepted

\* Closing
LEMMA CloseChanges ==
    ASSUME Linked, NEW f \in TxFault, Close(f)
    PROVE  Aborted
<1> DEFINE s == Start(f)
           c == Tcp_Abort(s)
<1>1. Steady(sock, s)
      BY Starting DEF Linked
<1>2. sock' = Settle(c) /\ task' = NoTask
      BY DEF Close, Commit, Outcome
<1>3. IsSock(s) /\ sock.type = "STREAM"
      BY <1>1 DEF Steady, Shift, Close, Linked
<1> HIDE DEF s
<1>4. IF s.state = "TIME_WAIT"
      THEN /\ IsSock(c) /\ c.type = s.type /\ c.state = s.state
           /\ c.resetFlag = s.resetFlag /\ c.closedFlag = s.closedFlag
           /\ c.ownedFlag = FALSE
           /\ Armed(s) => Armed(c)
      ELSE GivenBack(s, c)
      BY <1>3, AbortStep
<1> HIDE DEF c
<1>5. Steady(c, sock') /\ (Released(c) => Released(sock'))
      BY <1>2, <1>4, Settling DEF GivenBack
<1>6. IsTask(task') /\ task'.pc = "free"
      BY <1>2 DEF NoTask, Returned, Call, IsTask
<1> QED BY <1>1, <1>3, <1>4, <1>5, <1>6 DEF Steady, Shift, GivenBack, Aborted

\* Send, receive, shutdown and what follows a wait
LEMMA CallsChange ==
    ASSUME Linked, NEW f \in TxFault,
           Send(f) \/ Receive(f) \/ Shutdown(f) \/ Wake(f)
    PROVE  Called
<1> DEFINE s == Start(f)
<1>1. Steady(sock, s)
      BY Starting DEF Linked
<1>2. IsSock(s) /\ Steady(s, s)
      BY <1>1, SteadySelf DEF Steady, Shift
<1> HIDE DEF s
<1>3. CASE Send(f)
  <2>1. PICK data, flags : Commit(Tcp_Send(s, data, flags))
        BY <1>3 DEF Send, s
  <2>2. UserStep(s, Tcp_Send(s, data, flags)) /\ Watchful(Tcp_Send(s, data, flags))
        BY <1>2, SendStep, CallsWatchful
  <2> QED BY <1>2, <1>3, <2>1, <2>2, UserChanges DEF Send, s
<1>4. CASE Receive(f)
  <2>1. PICK n, flags : Commit(Tcp_Receive(s, n, flags))
        BY <1>4 DEF Receive, s
  <2>2. UserStep(s, Tcp_Receive(s, n, flags)) /\ Watchful(Tcp_Receive(s, n, flags))
        BY <1>2, ReceiveStep, CallsWatchful
  <2> QED BY <1>2, <1>4, <2>1, <2>2, UserChanges DEF Receive, s
<1>5. CASE Shutdown(f)
  <2>1. PICK flags : Commit(Tcp_Shutdown(s, flags))
        BY <1>5 DEF Shutdown, s
  <2>2. UserStep(s, Tcp_Shutdown(s, flags)) /\ Watchful(Tcp_Shutdown(s, flags))
        BY <1>2, ShutdownStep, CallsWatchful
  <2> QED BY <1>2, <1>5, <2>1, <2>2, UserChanges DEF Shutdown, s
<1>6. CASE Wake(f)
  <2> DEFINE e == [s EXCEPT !.event = FALSE]
  <2>1. Steady(s, e) /\ IsSock(e)
        BY <1>2 DEF IsSock, SockField, Steady, Shift, Armed, Numeric
  <2>2. Commit(Resume(e, task))
        BY <1>6 DEF Wake, s
  <2> HIDE DEF e
  <2>3. UserStep(e, Resume(e, task)) /\ Watchful(Resume(e, task))
        BY <1>6, <2>1, ResumeStep, CallsWatchful DEF Wake, Linked
  <2>4. task.pc # "free"
        BY <1>6 DEF Wake, Blocked
  <2> QED BY <2>1, <2>2, <2>3, <2>4, UserChanges DEF s
<1> QED BY <1>3, <1>4, <1>5, <1>6

\* The segments that may arrive carry numbers.
LEMMA SegmentsCarryNumbers ==
    ASSUME IsSock(sock), NEW seg \in Segments(sock)
    PROVE  IsSeg(seg)
<1>1. PICK flags \in SegFlags : seg \in SegmentsWith(sock, flags)
      BY DEF Segments
<1>2. PICK num \in SegNumbers(sock),
           window \in IF "ACK" \in flags THEN SegWindow(sock) ELSE {0} :
        /\ seg.ackNum = IF "ACK" \in flags THEN num[2] ELSE 0
        /\ seg.window = window
      BY <1>1 DEF SegmentsWith
<1>3. window \in Int
  <2>1. \A k \in 0 .. U16Max : k \in Int
        BY DEF U16Max
  <2>2. FirstWindows \cup Windows \subseteq 0 .. U16Max
        BY EndpointAssumption
  <2>3. window \in {0} \cup FirstWindows \cup Windows
        BY DEF SegWindow
  <2> QED BY <2>1, <2>2, <2>3
<1>4. num[2] \in Int
  <2>1. sock.sndUna \in Int /\ sock.sndNxt \in Int /\ 1 \in Int
        BY DEF IsSock, Numeric
  <2>2. /\ SeqSub(sock.sndUna, 1) \in Int /\ SeqAdd(sock.sndNxt, 1) \in Int
        BY <2>1, SeqIntegral
  <2>3. \A k \in Int : SeqAdd(sock.sndUna, k) \in Int
        BY <2>1, SeqIntegral
  <2> DEFINE acks == {SeqAdd(sock.sndUna, k) : k \in 0 .. SeqSub(sock.sndNxt, sock.sndUna)}
  <2>4. acks \subseteq Int
        BY <2>3
  <2> HIDE DEF acks
  <2>5. num[2] \in acks \cup {sock.sndNxt, SeqSub(sock.sndUna, 1), SeqAdd(sock.sndNxt, 1)}
        BY DEF SegNumbers, acks
  <2> QED BY <2>1, <2>2, <2>4, <2>5
<1> QED BY <1>2, <1>3, <1>4 DEF IsSeg

\* A socket that a handler has turned from s to t, at the end of its critical
\* section
LEMMA DrivenBy ==
    ASSUME Linked, NEW s, NEW t, Steady(sock, s), sock.type = "STREAM",
           sock' = Settle(t), task' = task, UpToDate(sock) => UpToDate(t),
           \/ Steady(s, t)
           \/ s.state # "CLOSED" /\ Ends(s, t)
           \/ s.state = "TIME_WAIT" /\ ~s.ownedFlag /\ GivenBack(s, t)
           \/ \E new \in TcpState : <<s.state, new>> \in Advances /\ Shift(s, t, new)
    PROVE  Driven
<1>1. /\ Steady(t, sock') /\ (Released(t) => Released(sock')) /\ IsSock(t)
      BY Settling DEF Steady, Shift, Ends, GivenBack
<1>2. Steady(s, t) => Kept
      BY <1>1 DEF Steady, Shift, Kept
<1>3. s.state # "CLOSED" /\ Ends(s, t) => Ended
      BY <1>1 DEF Steady, Shift, Ends, Ended
<1>4. s.state = "TIME_WAIT" /\ ~s.ownedFlag /\ GivenBack(s, t) => Freed
      BY <1>1 DEF Steady, Shift, GivenBack, Freed
<1>5. (\E new \in TcpState : <<s.state, new>> \in Advances /\ Shift(s, t, new))
         => Advanced
      BY <1>1 DEF Steady, Shift, Advanced
<1>6. UpToDate(t) => UpToDate(sock')
  <2>1. Unseen(t, Settle(t))
        BY <1>1 DEF IsSock, SockField, Unseen, Settle
  <2> QED BY <2>1, UnseenKeeps
<1>7. Kept \/ Ended \/ Freed \/ Advanced
      BY <1>2, <1>3, <1>4, <1>5
<1> QED BY <1>6, <1>7 DEF Driven

\* An incoming segment
LEMMA SegmentChanges ==
    ASSUME Linked, NEW f \in TxFault, Segment(f)
    PROVE  Driven
<1> DEFINE s == Start(f)
<1>1. PICK seg \in Segments(sock) : Commit(Outcome(tcpProcessSegment(s, seg), task))
      BY DEF Segment
<1> DEFINE t == tcpProcessSegment(s, seg)
<1>2. Steady(sock, s) /\ Unseen(sock, s)
      BY Starting DEF Linked, IsSock, SockField, Unseen, Start
<1>3. sock' = Settle(t) /\ task' = task
      BY <1>1 DEF Commit, Outcome
<1>4. IsSeg(seg)
      BY SegmentsCarryNumbers DEF Linked
<1> HIDE DEF s
<1>5. IsSock(s) /\ s.state \in TcpState \ {"LISTEN"}
      BY <1>2 DEF Steady, Shift, Linked
<1>6. \/ Steady(s, t)
      \/ s.state # "CLOSED" /\ Ends(s, t)
      \/ s.state = "TIME_WAIT" /\ ~s.ownedFlag /\ GivenBack(s, t)
      \/ \E new \in TcpState : <<s.state, new>> \in Advances /\ Shift(s, t, new)
      BY <1>4, <1>5, SegmentStep
<1>7. UpToDate(sock) => UpToDate(t)
      BY <1>2, <1>4, <1>5, UnseenKeeps, SegmentKeeps
<1> HIDE DEF t
<1>8. sock.type = "STREAM"
      BY DEF Segment
<1> QED BY <1>2, <1>3, <1>6, <1>7, <1>8, DrivenBy

\* The timer handler
LEMMA TickChanges ==
    ASSUME Linked, NEW f \in TxFault, NEW elapsed, Tick(elapsed, f)
    PROVE  Driven
<1> DEFINE s == Start(f)
           t == tcpTick(s, elapsed)
<1>1. Steady(sock, s) /\ Unseen(sock, s)
      BY Starting DEF Linked, IsSock, SockField, Unseen, Start
<1>2. sock' = Settle(t) /\ task' = task
      BY DEF Tick, Commit, Outcome
<1> HIDE DEF s
<1>3. IsSock(s)
      BY <1>1 DEF Steady, Shift
<1>4. \/ Steady(s, t)
      \/ s.state # "CLOSED" /\ Ends(s, t)
      \/ s.state = "TIME_WAIT" /\ ~s.ownedFlag /\ GivenBack(s, t)
  <2>1. CASE s.state = "CLOSED"
    <3>1. t = s
          BY <2>1 DEF tcpTick
    <3> QED BY <1>3, <3>1, SteadySelf
  <2>2. CASE s.state # "CLOSED"
        BY <1>3, <2>2, TimerStep
  <2> QED BY <2>1, <2>2
<1>5. UpToDate(sock) => UpToDate(t)
      BY <1>1, <1>3, UnseenKeeps, TimerKeeps
<1> HIDE DEF t
<1>6. sock.type = "STREAM"
      BY DEF Tick
<1> QED BY <1>1, <1>2, <1>4, <1>5, <1>6, DrivenBy

----------------------------------------------------------------------------
(* The invariant and the contract *)

\* Opening the slot preserves the invariant and is a step of the contract.
LEMMA OpenLinked ==
    ASSUME Linked, Open
    PROVE  Linked' /\ [Contract!Next]_(Contract!model)
<1>1. /\ IsSock(sock') /\ sock'.type = "STREAM" /\ sock'.state = "CLOSED"
      /\ sock'.resetFlag = FALSE /\ sock'.ownedFlag = FALSE
      BY OpenStep DEF Linked, Open
<1>2. IsTask(task') /\ task'.pc = "ready"
      BY DEF Open, Returned, Call, IsTask
<1>3. Contract!Socket_Open
      BY <1>1 DEF Open, Contract!Socket_Open
<1>4. Linked'
      BY <1>1, <1>2 DEF Linked, TcpState, TaskPc
<1> QED BY <1>3, <1>4 DEF Contract!Next

\* So do a connect on a closed socket,
LEMMA ConnectedLinked ==
    ASSUME Linked, Connected
    PROVE  Linked' /\ [Contract!Next]_(Contract!model)
<1>1. Contract!Tcp_Connect
      BY DEF Connected, Contract!Tcp_Connect
<1>2. Linked'
      BY DEF Connected, Linked, TcpState, IsTask
<1> QED BY <1>1, <1>2 DEF Contract!Next

\* an accept,
LEMMA AcceptedLinked ==
    ASSUME Linked, Accepted
    PROVE  Linked' /\ [Contract!Next]_(Contract!model)
<1>1. Contract!Tcp_Accept
      BY DEF Accepted, Contract!Tcp_Accept
<1>2. Linked'
      BY DEF Accepted, Linked, TcpState, TaskPc
<1> QED BY <1>1, <1>2 DEF Contract!Next

\* and a close.
LEMMA AbortedLinked ==
    ASSUME Linked, Aborted
    PROVE  Linked' /\ [Contract!Next]_(Contract!model)
<1>1. Contract!Tcp_Abort
      BY DEF Aborted, Linked, GivenBack, IsSock, Contract!Tcp_Abort
<1>2. Linked'
      BY DEF Aborted, Linked, GivenBack, TcpState, TaskPc
<1> QED BY <1>1, <1>2 DEF Contract!Next

\* The other stretches of calls, segments and timers do, too.
LEMMA CalledLinked ==
    ASSUME Linked, Called \/ Driven
    PROVE  Linked' /\ [Contract!Next]_(Contract!model)
<1>1. CASE Called
      BY <1>1, Continues DEF Called
<1>2. CASE Driven
      BY <1>2, Continues DEF Driven, Linked
<1> QED BY <1>1, <1>2

\* Every step preserves the invariant and is a step of the contract or a
\* stutter.
LEMMA NextLinked ==
    ASSUME Linked, [Next]_vars
    PROVE  Linked' /\ [Contract!Next]_(Contract!model)
<1>1. CASE UNCHANGED vars
      BY <1>1 DEF vars, Linked, Contract!model, IsSock, IsTask, Armed, Released, Numeric
<1>2. CASE Open
      BY <1>2, OpenLinked
<1>3. ASSUME NEW f \in TxFault, Connect(f)
      PROVE  Linked' /\ [Contract!Next]_(Contract!model)
      BY <1>3, ConnectChanges, ConnectedLinked, CalledLinked
<1>4. ASSUME NEW f \in TxFault, Accept(f)
      PROVE  Linked' /\ [Contract!Next]_(Contract!model)
      BY <1>4, AcceptChanges, AcceptedLinked
<1>5. ASSUME NEW f \in TxFault,
             Send(f) \/ Receive(f) \/ Shutdown(f) \/ Wake(f)
      PROVE  Linked' /\ [Contract!Next]_(Contract!model)
      BY <1>5, CallsChange, CalledLinked
<1>6. ASSUME NEW f \in TxFault, Close(f)
      PROVE  Linked' /\ [Contract!Next]_(Contract!model)
      BY <1>6, CloseChanges, AbortedLinked
<1>7. ASSUME NEW f \in TxFault, Segment(f)
      PROVE  Linked' /\ [Contract!Next]_(Contract!model)
      BY <1>7, SegmentChanges, CalledLinked
<1>8. ASSUME NEW f \in TxFault, NEW elapsed \in Elapsed, Tick(elapsed, f)
      PROVE  Linked' /\ [Contract!Next]_(Contract!model)
      BY <1>8, TickChanges, CalledLinked
<1> QED BY <1>1, <1>2, <1>3, <1>4, <1>5, <1>6, <1>7, <1>8 DEF Next

----------------------------------------------------------------------------
(* Theorems *)

\* The invariant holds in every reachable state.
THEOREM LinkedInvariant == Spec => []Linked
<1>1. Init => Linked
      BY InitLinked
<1>2. Linked /\ [Next]_vars => Linked'
      BY NextLinked
<1> QED BY <1>1, <1>2, PTL DEF Spec

\* Whatever segments arrive, whichever timers elapse and whenever the IP layer
\* fails, the retransmission timer runs as long as something of a live
\* connection waits for an acknowledgment.
THEOREM RetransmitTimerAlwaysArmed == Spec => []RetransmitTimerArmed
<1>1. Linked => RetransmitTimerArmed
      BY DEF Linked, Armed, RetransmitTimerArmed
<1> QED BY <1>1, LinkedInvariant, PTL

\* Socket_Open never forgets a queue or a buffer: a slot that is given back,
\* by close, by the 2MSL timer, by a reset in TIME-WAIT or by a failed accept,
\* owns none.
THEOREM FreedBeforeReuseAlways == Spec => []FreedBeforeReuse
<1>1. Linked => FreedBeforeReuse
      BY DEF Linked, Released, FreedBeforeReuse
<1> QED BY <1>1, LinkedInvariant, PTL

\* The C state machine, the timer handler and the Ada operations together
\* implement the SPARK contracts.
THEOREM ContractImplemented == Spec => ImplementsContract
<1>1. Init => Contract!Init
      BY DEF Init, UnusedSocket, SockField, Contract!Init
<1>2. Linked /\ [Next]_vars => [Contract!Next]_(Contract!model)
      BY NextLinked
<1> QED BY <1>1, <1>2, LinkedInvariant, PTL
        DEF Spec, ImplementsContract, Contract!Spec

----------------------------------------------------------------------------
(* Blocked tasks *)

\* Where a connection may have got to by itself, from state a to state b
Leads(a, b) ==
    \/ a = b \/ b = "CLOSED" \/ <<a, b>> \in Advances
    \/ a = "SYN_SENT" /\ b = "CLOSE_WAIT"

\* The second inductive invariant: a blocked task has been told the truth, and
\* the connection has only moved on since its wait began.
Watching ==
    task.pc \in Blocked => UpToDate(sock) /\ Leads(task.before, sock.state)

\* Segments and timers move the connection on, and tell the task.
LEMMA DrivenWatching ==
    ASSUME Linked, Watching, Driven
    PROVE  Watching'
<1> SUFFICES ASSUME task.pc \in Blocked
             PROVE  UpToDate(sock') /\ Leads(task.before, sock'.state)
    BY DEF Watching, Driven
<1>1. UpToDate(sock') /\ Leads(task.before, sock.state)
      BY DEF Watching, Driven
<1>2. CASE Kept
      BY <1>1, <1>2 DEF Kept, Steady, Shift
<1>3. CASE Ended \/ Freed
      BY <1>1, <1>3 DEF Ended, Ends, Freed, GivenBack, Leads
<1>4. CASE Advanced
  <2>1. PICK new \in TcpState :
            <<sock.state, new>> \in Advances /\ sock'.state = new
        BY <1>4 DEF Advanced, Shift
  <2>2. Leads(task.before, new)
        BY <1>1, <2>1 DEF Leads, Advances
  <2> QED BY <1>1, <2>1, <2>2
<1> QED BY <1>1, <1>2, <1>3, <1>4 DEF Driven

\* Every step keeps the blocked task informed.
LEMMA NextWatching ==
    ASSUME Linked, Watching, [Next]_vars
    PROVE  Watching'
<1>1. Listens => Watching'
      BY DEF Listens, Watching, Leads
<1>2. task'.pc \in {"free", "ready"} => Watching'
      BY DEF Watching, Blocked
<1>3. CASE UNCHANGED vars
  <2>1. sock' = sock /\ task' = task
        BY <1>3 DEF vars
  <2> QED BY <2>1 DEF Watching
<1>4. CASE Open
      BY <1>2, <1>4 DEF Open, Returned, Call
<1>5. ASSUME NEW f \in TxFault, Connect(f)
      PROVE  Watching'
      BY <1>1, <1>5, ConnectChanges DEF Connected, Called
<1>6. ASSUME NEW f \in TxFault, Accept(f)
      PROVE  Watching'
      BY <1>2, <1>6, AcceptChanges DEF Accepted
<1>7. ASSUME NEW f \in TxFault,
             Send(f) \/ Receive(f) \/ Shutdown(f) \/ Wake(f)
      PROVE  Watching'
      BY <1>1, <1>7, CallsChange DEF Called
<1>8. ASSUME NEW f \in TxFault, Close(f)
      PROVE  Watching'
      BY <1>2, <1>8, CloseChanges DEF Aborted
<1>9. ASSUME NEW f \in TxFault, Segment(f)
      PROVE  Watching'
      BY <1>9, SegmentChanges, DrivenWatching
<1>10. ASSUME NEW f \in TxFault, NEW elapsed \in Elapsed, Tick(elapsed, f)
       PROVE  Watching'
       BY <1>10, TickChanges, DrivenWatching
<1> QED BY <1>3, <1>4, <1>5, <1>6, <1>7, <1>8, <1>9, <1>10 DEF Next

\* The invariant holds in every reachable state.
THEOREM WatchingInvariant == Spec => []Watching
<1>1. Init => Watching
      BY DEF Init, NoTask, Returned, Call, Watching, Blocked
<1>2. Linked /\ Watching /\ [Next]_vars => Watching'
      BY NextWatching
<1> QED BY <1>1, <1>2, LinkedInvariant, PTL DEF Spec

\* A task blocked in Tcp_Wait_For_Events whose event has come has been
\* signaled, whatever the segment, timer or call that made it come.
THEOREM NeverLostWakeup == Spec => []NoLostWakeup
<1>1. Watching => NoLostWakeup
      BY DEF Watching, UpToDate, NoLostWakeup
<1> QED BY <1>1, WatchingInvariant, PTL

\* The flags a blocked task will read are those of the socket's present state.
THEOREM EventFlagsAlwaysFresh == Spec => []EventFlagsFresh
<1>1. Watching => EventFlagsFresh
      BY DEF Watching, UpToDate, EventFlagsFresh
<1> QED BY <1>1, WatchingInvariant, PTL

\* An event that holds after the connection has moved on is raised in a state
\* the postcondition of Tcp_Wait_For_Events allows.
LEMMA EventAllowed ==
    ASSUME NEW s, NEW e, NEW before, s.state \in TcpState \ {"LISTEN"},
           Leads(before, s.state), EventHolds(s, e)
    PROVE  s.state \in WaitTarget(e, before)
<1>1. CASE e = "CONNECTED" \/ e = "CLOSED"
      BY <1>1 DEF EventHolds, WaitTarget, Leads, Advances, TcpState
<1>2. CASE e = "TX_READY"
      BY <1>2 DEF EventHolds, WaitTarget, Leads, Advances, TcpState
<1>3. CASE e = "TX_DONE" \/ e = "TX_ACKED"
      BY <1>3 DEF EventHolds, WaitTarget, Leads, Advances, TcpState
<1>4. CASE e = "RX_READY"
      BY <1>4 DEF EventHolds, WaitTarget, Leads, Advances, TcpState
<1>5. CASE e = "TX_SHUTDOWN"
      BY <1>5 DEF EventHolds, WaitTarget, Leads, Advances, TcpState
<1>6. CASE e = "RX_SHUTDOWN"
      BY <1>6 DEF EventHolds, WaitTarget, Leads, Advances, TcpState
<1> QED BY <1>1, <1>2, <1>3, <1>4, <1>5, <1>6 DEF EventHolds

\* The state a task finds when its event is raised is one the postcondition
\* of Tcp_Wait_For_Events allows.
THEOREM WaitAlwaysEndsWhereContracted == Spec => []WaitEndsWhereContracted
<1>1. Linked /\ Watching => WaitEndsWhereContracted
  <2> SUFFICES ASSUME Linked, Watching, task.pc \in Blocked, NEW e \in sock.eventFlags
               PROVE  sock.state \in WaitTarget(e, task.before)
      BY DEF WaitEndsWhereContracted
  <2>1. EventHolds(sock, e)
        BY DEF Watching, UpToDate, RaisedEvents
  <2> QED BY <2>1, EventAllowed DEF Linked, Watching
<1> QED BY <1>1, LinkedInvariant, WatchingInvariant, PTL

----------------------------------------------------------------------------
(* The end of a connection *)

\* The inductive part of ClosedOnce: the user's socket that was never
\* connected has reported nothing yet.
Unreported == ~sock.closedFlag /\ ~sock.resetFlag

Single ==
    /\ ClosedOnce
    /\ task.pc # "free" /\ ~sock.ownedFlag => Unreported

\* No step reports the end of a connection twice, or too early, if the user
\* opens a new socket for every connection.
LEMMA NextSingle ==
    ASSUME Reconnect = FALSE, Linked, Single, [Next]_vars
    PROVE  Single'
<1>1. sock.type = "STREAM" /\ sock.state # "CLOSED" => Unreported
      BY DEF Single, ClosedOnce, Unreported
<1>2. task.pc # "free" /\ Fresh => Unreported
      BY DEF Single, Fresh
<1>3. CASE UNCHANGED vars
  <2>1. sock' = sock /\ task' = task
        BY <1>3 DEF vars
  <2> QED BY <2>1 DEF Single, ClosedOnce, Unreported
<1>4. CASE Open
  <2>1. Unreported'
        BY <1>4, OpenStep DEF Open, Linked, Unreported
  <2> QED BY <2>1 DEF Single, ClosedOnce, Unreported
<1>5. CASE Called
  <2>1. CASE Kept
        BY <1>5, <2>1 DEF Called, Kept, Steady, Shift, Single, ClosedOnce, Unreported
  <2>2. CASE FinSent
        BY <1>1, <1>5, <2>2
        DEF Called, FinSent, Shift, Single, ClosedOnce, Unreported
  <2> QED BY <1>5, <2>1, <2>2 DEF Called
<1>6. ASSUME NEW f \in TxFault, Connect(f)
      PROVE  Single'
  <2>1. CASE Connected
    <3>1. Unreported
          BY <1>2, <1>6 DEF Connect
    <3> QED BY <2>1, <3>1 DEF Connected, Single, ClosedOnce, Unreported
  <2> QED BY <1>5, <1>6, <2>1, ConnectChanges
<1>7. ASSUME NEW f \in TxFault, Accept(f)
      PROVE  Single'
  <2>1. Unreported
        BY <1>2, <1>7 DEF Accept
  <2> QED BY <1>7, <2>1, AcceptChanges
          DEF Accepted, Single, ClosedOnce, Unreported
<1>8. ASSUME NEW f \in TxFault, Close(f)
      PROVE  Single'
  <2>1. Aborted
        BY <1>8, CloseChanges
  <2> QED BY <1>1, <2>1 DEF Aborted, GivenBack, Single, ClosedOnce, Unreported
<1>9. CASE Driven
  <2>1. CASE Kept
        BY <1>9, <2>1 DEF Driven, Kept, Steady, Shift, Single, ClosedOnce, Unreported
  <2>2. CASE Ended
    <3>1. Unreported
          BY <1>1, <1>9, <2>2 DEF Driven, Ended
    <3> QED BY <1>9, <2>2, <3>1
            DEF Driven, Ended, Ends, Single, ClosedOnce, Unreported, Linked
  <2>3. CASE Freed
        BY <1>9, <2>3 DEF Driven, Freed, GivenBack, Single, ClosedOnce, Linked
  <2>4. CASE Advanced
    <3>1. sock.state # "CLOSED"
          BY <2>4 DEF Advanced, Advances
    <3> QED BY <1>1, <1>9, <2>4, <3>1
            DEF Driven, Advanced, Shift, Single, ClosedOnce, Unreported
  <2> QED BY <1>9, <2>1, <2>2, <2>3, <2>4 DEF Driven
<1> QED BY <1>3, <1>4, <1>5, <1>6, <1>7, <1>8, <1>9,
           CallsChange, SegmentChanges, TickChanges DEF Next

\* A connection is reported either as closed in order or as reset, and only
\* once it is closed, if the user opens a new socket for every connection
\* (Tcp_Connect on a socket whose connection was reset keeps resetFlag set).
THEOREM AlwaysClosedOnce == Reconnect = FALSE /\ Spec => []ClosedOnce
<1>1. Init => Single
      BY DEF Init, NoTask, Returned, Call, UnusedSocket, SockField, Single, ClosedOnce
<1>2. Reconnect = FALSE /\ Linked /\ Single /\ [Next]_vars => Single'
      BY NextSingle
<1>3. Single => ClosedOnce
      BY DEF Single
<1>4. CASE Reconnect = FALSE
  <2>1. Linked /\ Single /\ [Next]_vars => Single'
        BY <1>2, <1>4
  <2> QED BY <1>1, <1>3, <2>1, LinkedInvariant, PTL DEF Spec
<1> QED BY <1>4

============================================================================
