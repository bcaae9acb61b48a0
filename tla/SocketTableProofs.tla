------------------------- MODULE SocketTableProofs -------------------------
(***************************************************************************)
(* The socket table for any number of slots, workers and clients: the      *)
(* acceptor finds the SYN it pointed to when it gets the mutex back, is     *)
(* signaled when a SYN is queued, and never sets up two connections for    *)
(* one client.                                                             *)
(***************************************************************************)
EXTENDS SocketTable, TcpLemmas, FiniteSetTheorems

Address == [localPort : {"none", "ephemeral", "server"},
            remote : Client \cup {NoClient}]

QueueItem == [src : Client, isn : SeqNum]

(* The inductive invariant.  First what concerns the table and the acceptor *)

\* Every slot holds a socket.
Rows ==
    /\ DOMAIN table = Slot /\ DOMAIN addr = Slot
    /\ \A i \in Slot : /\ IsSock(table[i]) /\ table[i].state \in TcpState
                       /\ addr[i] \in Address

\* The socket of the acceptor is there for its SYN queue only.
ListenerKept ==
    /\ acceptor.pc = "open" => acceptor.listener = NoSlot
    /\ acceptor.pc # "open" =>
        /\ acceptor.listener \in Slot /\ acceptor.child # acceptor.listener
        /\ Listener.type = "STREAM"
        /\ Listener.retransmitQueue = <<>> /\ Listener.wndProbeInterval = 0
        /\ addr[acceptor.listener].remote = NoClient

\* Nothing happens on the table before the server listens.
Early ==
    ~Listening =>
        /\ \A i \in Slot : table[i].state = "CLOSED" /\ addr[i].remote = NoClient
        /\ acceptor.child = NoSlot
        /\ acceptor.pc # "open" => Listener.synQueue = <<>>

\* Only the socket of the acceptor listens, and does so from then on.
Alone ==
    /\ Listening => Listener.state = "LISTEN"
    /\ \A i \in Slot : table[i].state = "LISTEN" => i = acceptor.listener

InQueue ==
    Listening =>
        /\ Listener.synQueue \in Seq(QueueItem)
        /\ Listener.synQueueSize \in Nat \ {0}
        /\ Len(Listener.synQueue) <= Listener.synQueueSize

\* The socket opened for the item at hand has no connection yet, whatever other
\* tasks with an old handle have done to it.
ChildClosed ==
    acceptor.pc = "setup" /\ acceptor.child # NoSlot =>
        /\ table[acceptor.child].state = "CLOSED"
        /\ addr[acceptor.child].localPort # "server"

\* An acceptor that waits has said what for.
Asked == acceptor.pc = "wait" => Listener.eventMask = {"RX_READY"}

\* The clients in the queue and those of the sockets differ from each other.
Distinct ==
    /\ \A i, j \in Bound : addr[i].remote \in Client /\ addr[i].remote = addr[j].remote
                            => i = j
    /\ Listening =>
        \A m \in DOMAIN Listener.synQueue :
            /\ \A i \in Bound : addr[i].remote # Listener.synQueue[m].src
            /\ \A n \in DOMAIN Listener.synQueue :
                Listener.synQueue[m].src = Listener.synQueue[n].src => m = n

TableInv ==
    /\ acceptor \in AcceptorState
    /\ Rows /\ ListenerKept /\ Early /\ Alone /\ InQueue /\ ChildClosed /\ Asked
    /\ TakenItemStays /\ AcceptorWoken /\ Distinct

(* and what concerns the workers *)

Handles ==
    /\ DOMAIN worker = Worker
    /\ \A w \in Worker :
        /\ DOMAIN worker[w] = {"slot", "task"}
        /\ IsTask(worker[w].task) /\ worker[w].task.pc \in TaskPc
        /\ worker[w].slot \in Slot \cup {NoSlot}
        /\ worker[w].task.pc # "free" => worker[w].slot # NoSlot

\* No worker has a handle of the socket that listens.
Strangers ==
    acceptor.pc # "open" => \A w \in Worker : worker[w].slot # acceptor.listener

\* Before there is a listening socket no two tasks share a slot: nothing is in
\* TIME-WAIT yet, so nothing is evicted.
Unshared ==
    /\ ~Listening => \A w \in Worker : worker[w].task.pc \in {"free", "ready"}
    /\ acceptor.pc = "open" =>
        \A w \in Worker : worker[w].slot # NoSlot =>
            /\ table[worker[w].slot].type # "UNUSED"
            /\ \A v \in Worker : worker[v].slot = worker[w].slot => v = w

WorkerInv == Handles /\ Strangers /\ Unshared

TableIInv == TableInv /\ WorkerInv

----------------------------------------------------------------------------
(* What the operations do to one socket *)

\* Socket_Open leaves a closed socket with nothing queued.
LEMMA OpenAsStep ==
    ASSUME NEW s, IsSock(s), NEW type
    PROVE  LET t == OpenAs(s, type)
           IN  /\ IsSock(t) /\ t.type = type /\ t.state = "CLOSED"
               /\ t.synQueue = <<>> /\ t.retransmitQueue = <<>>
               /\ t.wndProbeInterval = 0
<1> DEFINE k == IF s.type = "UNUSED" THEN s ELSE Tcp_Kill_Oldest_Connection(s)
           o == Socket_Open(k)
           t == [o EXCEPT !.type = type]
<1>1. IsSock(k)
      BY ChangeState, Disposal DEF GivenBack, Tcp_Kill_Oldest_Connection
<1> HIDE DEF k
<1>2. IsSock(o) /\ o.state = "CLOSED"
      BY <1>1, OpenStep
<1>3. o.synQueue = <<>> /\ o.retransmitQueue = <<>> /\ o.wndProbeInterval = 0
      BY <1>1 DEF IsSock, SockField, Socket_Open
<1> HIDE DEF o
<1>4. /\ IsSock(t) /\ t.type = type /\ t.state = "CLOSED"
      /\ t.synQueue = <<>> /\ t.retransmitQueue = <<>> /\ t.wndProbeInterval = 0
      BY <1>2, <1>3 DEF IsSock, SockField, Numeric
<1>5. OpenAs(s, type) = t
      BY DEF OpenAs, o, k
<1> HIDE DEF t
<1> QED BY <1>4, <1>5

\* The end of a critical section changes neither type nor state.
LEMMA LeaveStep ==
    ASSUME NEW s, IsSock(s)
    PROVE  LET t == Leave(s)
           IN  /\ IsSock(t) /\ t.type = s.type /\ t.state = s.state
               /\ ~Vacant(s) => /\ t.synQueue = s.synQueue
                                /\ t.synQueueSize = s.synQueueSize
                                /\ t.retransmitQueue = s.retransmitQueue
                                /\ t.wndProbeInterval = s.wndProbeInterval
                                /\ t.event = s.event /\ t.eventMask = s.eventMask
<1> DEFINE u == Settle(s)
           o == Socket_Open(u)
           t == [o EXCEPT !.type = "UNUSED", !.resetFlag = s.resetFlag,
                          !.eventMask = s.eventMask, !.eventFlags = s.eventFlags]
<1>1. /\ IsSock(u) /\ u.type = s.type /\ u.state = s.state
      /\ u.synQueue = s.synQueue /\ u.synQueueSize = s.synQueueSize
      /\ u.retransmitQueue = s.retransmitQueue
      /\ u.wndProbeInterval = s.wndProbeInterval
      /\ u.event = s.event /\ u.eventMask = s.eventMask
      BY DEF IsSock, SockField, Numeric, Settle
<1> HIDE DEF u
<1>2. IsSock(o) /\ o.state = "CLOSED"
      BY <1>1, OpenStep
<1> HIDE DEF o
<1>3. IsSock(t) /\ t.type = "UNUSED" /\ t.state = "CLOSED"
      BY <1>2 DEF IsSock, SockField, Numeric
<1>4. Leave(s) = IF ~Vacant(s) THEN u ELSE t
      BY DEF Leave, u, o
<1> HIDE DEF t
<1> QED BY <1>1, <1>3, <1>4 DEF Vacant

\* How memory and the IP layer behave is no part of the contract.
LEMMA Provided ==
    ASSUME NEW s, IsSock(s), NEW room \in Nat, NEW fault
    PROVE  /\ Steady(s, [s EXCEPT !.txRoom = room])
           /\ LET t == [s EXCEPT !.txRoom = room, !.fault = fault]
              IN  Steady(s, t) /\ t.txRoom = room
BY DEF IsSock, SockField, Numeric, Steady, Shift, Armed

\* Socket_Open takes a slot that is free or in TIME-WAIT.
LEMMA TakenSlot ==
    ASSUME SlotTaken # NoSlot
    PROVE  /\ SlotTaken \in Slot
           /\ \/ table[SlotTaken].type = "UNUSED"
              \/ table[SlotTaken].state = "TIME_WAIT"
<1>1. Unused \in SUBSET Nat
      BY DEF Unused, Slot
<1>2. Unused # {} => Min(Unused) \in Unused
      BY <1>1, MinIsMember
<1> DEFINE o == CHOOSE i \in OldestInTimeWait : TRUE
<1>3. OldestInTimeWait # {} => o \in OldestInTimeWait
      OBVIOUS
<1>4. SlotTaken = IF Unused # {} THEN Min(Unused)
                  ELSE IF OldestInTimeWait # {} THEN o ELSE NoSlot
      BY DEF SlotTaken
<1> HIDE DEF o
<1>5. CASE Unused # {}
      BY <1>2, <1>4, <1>5 DEF Unused
<1>6. CASE Unused = {} /\ OldestInTimeWait # {}
      BY <1>3, <1>4, <1>6 DEF OldestInTimeWait, InTimeWait, Lingers
<1> QED BY <1>4, <1>5, <1>6

\* s turns into t, which listens as before.
Attends(s, t) ==
    /\ IsSock(t) /\ t.type = s.type /\ t.state = s.state
    /\ t.retransmitQueue = s.retransmitQueue
    /\ t.wndProbeInterval = s.wndProbeInterval
    /\ t.synQueueSize = s.synQueueSize /\ t.eventMask = s.eventMask

\* Refreshing the events of a listening socket signals the acceptor if the
\* queue is not empty.
LEMMA ListenEvents ==
    ASSUME NEW s, IsSock(s), s.state = "LISTEN"
    PROVE  LET t == tcpUpdateEvents(s)
           IN  /\ Attends(s, t) /\ t.synQueue = s.synQueue
               /\ "RX_READY" \in s.eventMask /\ s.synQueue # <<>> => t.event
<1>1. EventHolds(s, "RX_READY") = (s.synQueue # <<>>)
      BY DEF EventHolds
<1>2. "RX_READY" \in s.eventMask /\ s.synQueue # <<>> => RaisedEvents(s) # {}
      BY <1>1 DEF RaisedEvents
<1> DEFINE t == tcpUpdateEvents(s)
<1>3. /\ Attends(s, t) /\ t.synQueue = s.synQueue
      /\ t.event = (s.event \/ RaisedEvents(s) # {})
      BY DEF IsSock, SockField, Numeric, Attends, tcpUpdateEvents
<1> HIDE DEF t
<1>4. "RX_READY" \in s.eventMask /\ s.synQueue # <<>> => t.event
      BY <1>2, <1>3
<1> QED BY <1>3, <1>4 DEF t

\* Waiting for a SYN changes the events only.
LEMMA WaitStep ==
    ASSUME NEW s, IsSock(s)
    PROVE  LET t == WaitForSyn(s)
           IN  /\ IsSock(t) /\ t.type = s.type /\ t.state = s.state
               /\ t.retransmitQueue = s.retransmitQueue
               /\ t.wndProbeInterval = s.wndProbeInterval
               /\ t.synQueueSize = s.synQueueSize /\ t.synQueue = s.synQueue
               /\ s.synQueue = <<>> => t.eventMask = {"RX_READY"}
BY DEF IsSock, SockField, Numeric, WaitForSyn

\* A segment at a listening socket at most adds its source to the queue, unless
\* it is there or the queue is full, and the acceptor is told.
LEMMA ListenStep ==
    ASSUME NEW s, IsSock(s), s.state = "LISTEN", s.retransmitQueue = <<>>,
           NEW seg, IsSeg(seg),
           s.synQueue \in Seq(QueueItem), s.synQueueSize \in Nat \ {0}
    PROVE  LET t == tcpProcessSegment(s, seg)
           IN  /\ Attends(s, t)
               /\ \/ t.synQueue = s.synQueue /\ t.event = s.event
                  \/ /\ t.synQueue =
                          Append(s.synQueue, [src |-> seg.src, isn |-> seg.seqNum])
                     /\ s.synQueue = <<>> \/ Len(s.synQueue) < s.synQueueSize
                     /\ \A m \in DOMAIN s.synQueue : s.synQueue[m].src # seg.src
                     /\ "RX_READY" \in s.eventMask => t.event
                     /\ "SYN" \in seg.flags
<1> DEFINE item == [src |-> seg.src, isn |-> seg.seqNum]
           a == [s EXCEPT !.synQueue = Append(@, item)]
           r == tcpSendResetSegment(s, seg)
           full == s.synQueue # <<>> /\ Len(s.synQueue) >= s.synQueueSize
<1>1. Attends(s, s)
      BY DEF Attends
<1>2. Attends(s, r) /\ r.synQueue = s.synQueue /\ r.event = s.event
  <2>1. Steady(s, r)
        BY SendReset
  <2>2. r.retransmitQueue = s.retransmitQueue \o <<>>
        BY DEF IsSock, SockField, tcpSendResetSegment, SendRun
  <2>3. /\ r.wndProbeInterval = s.wndProbeInterval
        /\ r.synQueueSize = s.synQueueSize /\ r.eventMask = s.eventMask
        /\ r.synQueue = s.synQueue /\ r.event = s.event
        BY DEF IsSock, SockField, tcpSendResetSegment, SendRun
  <2> HIDE DEF r
  <2>4. r.retransmitQueue = s.retransmitQueue
        BY <2>2
  <2> QED BY <2>1, <2>3, <2>4 DEF Attends, Steady, Shift
<1>3. Attends(s, a) /\ a.synQueue = Append(s.synQueue, item)
      BY DEF Attends, IsSock, SockField, Numeric
<1>4. a.synQueue # <<>>
      BY <1>3
<1> HIDE DEF a
<1>5. LET t == tcpUpdateEvents(a)
      IN  /\ Attends(s, t) /\ t.synQueue = Append(s.synQueue, item)
          /\ "RX_READY" \in s.eventMask => t.event
      BY <1>3, <1>4, ListenEvents DEF Attends
<1>6. tcpProcessSegment(s, seg) \in {s, r} \/
        /\ tcpProcessSegment(s, seg) = tcpUpdateEvents(a)
        /\ ~tcpIsDuplicateSyn(s, seg) /\ ~full /\ "SYN" \in seg.flags
      BY DEF tcpProcessSegment, tcpStateListen, a
<1> HIDE DEF r
<1> QED BY <1>1, <1>2, <1>5, <1>6 DEF tcpIsDuplicateSyn

----------------------------------------------------------------------------
(* Steps on one row of the table *)

\* A step of a socket other than the listening one, which neither starts to
\* listen nor is bound anew, keeps what concerns the table and the acceptor.
LEMMA Elsewhere ==
    ASSUME TableInv, acceptor' \in AcceptorState,
           NEW i \in Slot, i # acceptor.listener,
           NEW r, IsSock(r), r.state \in TcpState \ {"LISTEN"},
           NEW a \in Address,
           table' = [table EXCEPT ![i] = r], addr' = [addr EXCEPT ![i] = a],
           ~Listening => r.state = "CLOSED" /\ a.remote = NoClient,
           r.type = "STREAM" /\ a.localPort = "server" =>
                i \in Bound /\ a.remote = addr[i].remote,
           \/ acceptor' = acceptor
           \/ /\ acceptor.pc = "gap" /\ acceptor'.pc = "setup"
              /\ acceptor'.listener = acceptor.listener
              /\ acceptor'.child # acceptor.listener
              /\ acceptor'.item = acceptor.item,
           ChildClosed'
    PROVE  TableInv'
<1>1. Rows'
      BY DEF TableInv, Rows
<1>2. /\ acceptor'.listener = acceptor.listener /\ (Listening' <=> Listening)
      /\ acceptor'.pc = "open" <=> acceptor.pc = "open"
  <2>1. CASE acceptor' = acceptor
        BY <2>1 DEF Listening
  <2>2. CASE acceptor.pc = "gap" /\ acceptor'.pc = "setup"
        BY <2>2 DEF Listening
  <2> QED BY <2>1, <2>2
<1>3. \A j \in Slot \ {i} : table'[j] = table[j] /\ addr'[j] = addr[j]
      BY DEF TableInv, Rows
<1>4. table'[i] = r /\ addr'[i] = a
      BY DEF TableInv, Rows
<1>5. acceptor.pc # "open" =>
        /\ acceptor.listener \in Slot \ {i}
        /\ Listener' = Listener
        /\ addr'[acceptor.listener] = addr[acceptor.listener]
      BY <1>2, <1>3 DEF TableInv, ListenerKept, Listener
<1>6. ListenerKept'
      BY <1>2, <1>5 DEF TableInv, ListenerKept
<1>7. Early'
      BY <1>2, <1>3, <1>4, <1>5 DEF TableInv, Early, Listening
<1>8. Listening => acceptor.pc # "open"
      BY DEF Listening
<1>9. Alone'
      BY <1>2, <1>3, <1>4, <1>5, <1>8 DEF TableInv, Alone
<1>10. InQueue' /\ Asked' /\ TakenItemStays' /\ AcceptorWoken'
      BY <1>2, <1>5, <1>8
      DEF TableInv, InQueue, Asked, TakenItemStays, AcceptorWoken
<1>11. ASSUME NEW j \in Bound'
       PROVE  j \in Bound /\ addr'[j].remote = addr[j].remote
  <2>1. j \in Slot /\ table'[j].type = "STREAM" /\ addr'[j].localPort = "server"
        BY DEF Bound
  <2>2. CASE j = i
        BY <1>4, <2>1, <2>2
  <2>3. CASE j # i
    <3>1. table'[j] = table[j] /\ addr'[j] = addr[j]
          BY <1>3, <2>1, <2>3
    <3>2. table[j].type = "STREAM" /\ addr[j].localPort = "server"
          BY <2>1, <3>1
    <3>3. j \in Bound
          BY <2>1, <3>2, Zenon DEF Bound
    <3> QED BY <3>1, <3>3
  <2> QED BY <2>2, <2>3
<1>12. Distinct'
  <2>1. ASSUME NEW j \in Bound', NEW k \in Bound', addr'[j].remote \in Client,
               addr'[j].remote = addr'[k].remote
        PROVE  j = k
        BY <1>11, <2>1 DEF TableInv, Distinct
  <2>2. ASSUME Listening', NEW m \in DOMAIN Listener'.synQueue, NEW j \in Bound'
        PROVE  addr'[j].remote # Listener'.synQueue[m].src
    <3>1. j \in Bound /\ addr'[j].remote = addr[j].remote
          BY <1>11
    <3>2. Listening /\ Listener' = Listener
          BY <1>2, <1>5, <1>8, <2>2
    <3>3. m \in DOMAIN Listener.synQueue
          BY <2>2, <3>2
    <3>4. addr[j].remote # Listener.synQueue[m].src
          BY <3>1, <3>2, <3>3 DEF TableInv, Distinct
    <3> QED BY <3>1, <3>2, <3>4
  <2>3. ASSUME Listening', NEW m \in DOMAIN Listener'.synQueue,
               NEW n \in DOMAIN Listener'.synQueue,
               Listener'.synQueue[m].src = Listener'.synQueue[n].src
        PROVE  m = n
        BY <1>2, <1>5, <1>8, <2>3 DEF TableInv, Distinct
  <2> QED BY <2>1, <2>2, <2>3 DEF Distinct
<1> QED BY <1>1, <1>6, <1>7, <1>9, <1>10, <1>12 DEF TableInv

\* No socket is bound or connected to something else.
SameAddr == DOMAIN addr' = Slot /\ \A i \in Slot : addr'[i] = addr[i]

\* A step of the listening socket alone that leaves it listening: what is left
\* to show is about the queue, the events and the acceptor.
LEMMA AtListener ==
    ASSUME TableInv, Listening, Listening',
           acceptor'.listener = acceptor.listener,
           acceptor'.child # acceptor.listener,
           NEW r, IsSock(r), r.type = Listener.type, r.state = Listener.state,
           r.retransmitQueue = Listener.retransmitQueue,
           r.wndProbeInterval = Listener.wndProbeInterval,
           table' = [table EXCEPT ![acceptor.listener] = r],
           SameAddr
    PROVE  /\ Rows' /\ ListenerKept' /\ Early' /\ Alone'
           /\ Bound' = Bound /\ Listener' = r
           /\ \A i \in Slot \ {acceptor.listener} : table'[i] = table[i]
<1>1. acceptor.pc # "open" /\ acceptor'.pc # "open"
      BY DEF Listening
<1>2. acceptor.listener \in Slot
      BY <1>1 DEF TableInv, ListenerKept
<1>3. /\ Listener' = r
      /\ \A i \in Slot \ {acceptor.listener} : table'[i] = table[i]
      BY <1>2 DEF TableInv, Rows, Listener
<1>4. Listener.state = "LISTEN" /\ Listener.type = "STREAM"
      BY <1>1 DEF TableInv, ListenerKept, Alone
<1>5. table'[acceptor.listener] = r
      BY <1>3 DEF Listener
<1>6. Rows'
      BY <1>2, <1>3, <1>4, <1>5 DEF TableInv, Rows, TcpState, SameAddr
<1>7. ListenerKept'
      BY <1>1, <1>2, <1>3, <1>4 DEF TableInv, ListenerKept, SameAddr
<1>8. Early'
      BY DEF Early
<1>9. Alone'
      BY <1>3, <1>4, <1>5 DEF TableInv, Alone
<1>10. Bound' = Bound
  <2>1. ASSUME NEW i \in Slot
        PROVE  table'[i].type = table[i].type /\ addr'[i] = addr[i]
        BY <1>3, <1>4, <1>5 DEF Listener, SameAddr
  <2> QED BY <2>1 DEF Bound
<1> QED BY <1>3, <1>6, <1>7, <1>8, <1>9, <1>10

\* Distinctness when the queue and the bound sockets stay as they are
LEMMA SameDistinct ==
    ASSUME Distinct, Listening, Bound' = Bound, SameAddr,
           Listener'.synQueue = Listener.synQueue
    PROVE  Distinct'
BY DEF Distinct, SameAddr, Bound

\* A critical section on a socket other than the listening one
LEMMA RunElsewhere ==
    ASSUME TableInv, UNCHANGED acceptor,
           NEW i \in Slot, i # acceptor.listener,
           NEW u, IsSock(u), u.state \in TcpState \ {"LISTEN"},
           ~Listening => u.state = "CLOSED",
           u.type = "STREAM" => table[i].type = "STREAM",
           acceptor.pc = "setup" /\ i = acceptor.child => u.state = "CLOSED",
           Run(i, u)
    PROVE  /\ TableInv'
           /\ table'[i].type = u.type
           /\ \A j \in Slot \ {i} : table'[j] = table[j]
<1> DEFINE r == Leave(u)
           a == LeaveAddr(u, addr[i])
<1>1. IsSock(r) /\ r.type = u.type /\ r.state = u.state
      BY LeaveStep
<1>2. addr[i] \in Address /\ i \in DOMAIN table /\ i \in DOMAIN addr
      BY DEF TableInv, Rows
<1>3. table' = [table EXCEPT ![i] = r] /\ addr' = [addr EXCEPT ![i] = a]
      BY <1>2 DEF Run, SetTable
<1>4. /\ a \in Address /\ a \in {NoAddr, addr[i]}
      /\ u.type = "STREAM" => a = addr[i]
      BY <1>2 DEF LeaveAddr, Vacant, Address, NoAddr
<1>5. NoAddr.remote = NoClient /\ NoAddr.localPort = "none"
      BY DEF NoAddr
<1>6. ~Listening => r.state = "CLOSED" /\ a.remote = NoClient
      BY <1>1, <1>4, <1>5 DEF TableInv, Early
<1>7. r.type = "STREAM" /\ a.localPort = "server" =>
        i \in Bound /\ a.remote = addr[i].remote
      BY <1>1, <1>4 DEF Bound
<1>8. table'[i] = r /\ addr'[i] = a /\
      \A j \in Slot \ {i} : table'[j] = table[j] /\ addr'[j] = addr[j]
      BY <1>3 DEF TableInv, Rows
<1> HIDE DEF r, a
<1>9. acceptor.child \in Slot \cup {NoSlot}
      BY DEF TableInv, AcceptorState
<1>10. ChildClosed'
  <2>1. CASE i = acceptor.child
        BY <1>1, <1>4, <1>5, <1>8, <2>1 DEF TableInv, ChildClosed
  <2>2. CASE i # acceptor.child
        BY <1>8, <1>9, <2>2 DEF TableInv, ChildClosed
  <2> QED BY <2>1, <2>2
<1>11. acceptor' = acceptor /\ acceptor' \in AcceptorState
      BY DEF TableInv
<1>12. TableInv'
      BY <1>1, <1>3, <1>4, <1>6, <1>7, <1>10, <1>11, Elsewhere
<1> QED BY <1>1, <1>8, <1>12

\* Socket_Open, by a worker or by the acceptor for a child
LEMMA TakeElsewhere ==
    ASSUME TableInv, SlotTaken # NoSlot, NEW type, TakeSlot(SlotTaken, type),
           \/ acceptor' = acceptor
           \/ /\ acceptor.pc = "gap"
              /\ acceptor' = [acceptor EXCEPT !.pc = "setup", !.child = SlotTaken]
    PROVE  /\ TableInv'
           /\ SlotTaken \in Slot /\ SlotTaken # acceptor.listener
           /\ table'[SlotTaken].type = type
           /\ \A j \in Slot \ {SlotTaken} : table'[j] = table[j]
<1> DEFINE i == SlotTaken
           r == OpenAs(table[i], type)
<1>1. i \in Slot /\ (table[i].type = "UNUSED" \/ table[i].state = "TIME_WAIT")
      BY TakenSlot
<1>2. IsSock(r) /\ r.type = type /\ r.state = "CLOSED"
      BY <1>1, OpenAsStep DEF TableInv, Rows
<1>3. i \in DOMAIN table /\ i \in DOMAIN addr
      BY <1>1 DEF TableInv, Rows
<1>4. table' = [table EXCEPT ![i] = r] /\ addr' = [addr EXCEPT ![i] = NewAddr]
      BY <1>3 DEF TakeSlot, SetTable
<1>5. NewAddr \in Address /\ NewAddr.remote = NoClient
      /\ NewAddr.localPort = "ephemeral"
      BY DEF NewAddr, Address
<1> HIDE DEF i, r
<1>6. i # acceptor.listener
  <2>1. CASE acceptor.pc = "open"
        BY <1>1, <2>1 DEF TableInv, ListenerKept, NoSlot, Slot
  <2>2. CASE acceptor.pc # "open"
    <3>1. Listener.type = "STREAM" /\ Listener.state \in {"CLOSED", "LISTEN"}
          BY <2>2 DEF TableInv, ListenerKept, Alone, Early, Listener
    <3> QED BY <1>1, <3>1 DEF Listener
  <2> QED BY <2>1, <2>2
<1>7. table'[i] = r /\ addr'[i] = NewAddr /\
      \A j \in Slot \ {i} : table'[j] = table[j] /\ addr'[j] = addr[j]
      BY <1>1, <1>4 DEF TableInv, Rows
<1>8. acceptor.child \in Slot \cup {NoSlot} /\ acceptor \in AcceptorState
      BY DEF TableInv, AcceptorState
<1>9. \/ acceptor' = acceptor
      \/ /\ acceptor.pc = "gap" /\ acceptor'.pc = "setup"
         /\ acceptor'.listener = acceptor.listener /\ acceptor'.child = i
         /\ acceptor'.item = acceptor.item
      BY <1>8 DEF AcceptorState, i
<1>10. acceptor' \in AcceptorState
      BY <1>1, <1>8 DEF AcceptorState, i
<1>11. ChildClosed'
  <2>1. CASE i = acceptor'.child
        BY <1>2, <1>5, <1>7, <2>1 DEF ChildClosed
  <2>2. CASE i # acceptor'.child
        BY <1>7, <1>8, <1>9, <2>2 DEF TableInv, ChildClosed
  <2> QED BY <2>1, <2>2
<1>12. r.state \in TcpState \ {"LISTEN"}
      BY <1>2 DEF TcpState
<1>13. TableInv'
      BY <1>1, <1>2, <1>4, <1>5, <1>6, <1>9, <1>10, <1>11, <1>12, Elsewhere
<1> QED BY <1>1, <1>2, <1>6, <1>7, <1>13 DEF i

----------------------------------------------------------------------------
(* The acceptor *)

\* At the top of the loop the acceptor waits, and has said what for, or points
\* to the head of the queue.
LEMMA Looping ==
    ASSUME acceptor \in AcceptorState, NEW s, s.synQueue \in Seq(QueueItem),
           Listener'.synQueue = s.synQueue,
           s.synQueue = <<>> => Listener'.eventMask = {"RX_READY"},
           acceptor' = LoopTop(s)
    PROVE  /\ acceptor' \in AcceptorState /\ Listening'
           /\ acceptor'.listener = acceptor.listener /\ acceptor'.child = NoSlot
           /\ ChildClosed' /\ Asked' /\ TakenItemStays' /\ AcceptorWoken'
<1>1. CASE s.synQueue = <<>>
  <2>1. /\ acceptor' \in AcceptorState /\ acceptor'.pc = "wait"
        /\ acceptor'.listener = acceptor.listener /\ acceptor'.child = NoSlot
        BY <1>1 DEF AcceptorState, LoopTop
  <2> QED BY <1>1, <2>1
          DEF Listening, ChildClosed, Asked, TakenItemStays, AcceptorWoken
<1>2. CASE s.synQueue # <<>>
  <2>1. Head(s.synQueue) \in QueueItem
        BY <1>2
  <2>2. /\ acceptor' \in AcceptorState /\ acceptor'.pc = "gap"
        /\ acceptor'.listener = acceptor.listener /\ acceptor'.child = NoSlot
        /\ acceptor'.item = Head(s.synQueue)
        BY <1>2, <2>1 DEF AcceptorState, LoopTop, QueueItem
  <2> QED BY <1>2, <2>2
          DEF Listening, ChildClosed, Asked, TakenItemStays, AcceptorWoken
<1> QED BY <1>1, <1>2

\* Opening the listening socket: nothing is in TIME-WAIT, so the slot is free.
LEMMA OpenListenerKeeps ==
    ASSUME TableIInv, OpenListener
    PROVE  TableIInv'
<1> DEFINE i == SlotTaken
           r == OpenAs(table[i], "STREAM")
<1>1. acceptor.pc = "open" /\ acceptor \in AcceptorState /\ ~Listening
      BY DEF OpenListener, TableIInv, TableInv, Listening
<1>2. i \in Slot /\ table[i].type = "UNUSED"
      BY <1>1, TakenSlot DEF OpenListener, TableIInv, TableInv, Early
<1>3. /\ IsSock(r) /\ r.type = "STREAM" /\ r.state = "CLOSED"
      /\ r.synQueue = <<>> /\ r.retransmitQueue = <<>> /\ r.wndProbeInterval = 0
      BY <1>2, OpenAsStep DEF TableIInv, TableInv, Rows
<1>4. i \in DOMAIN table /\ i \in DOMAIN addr /\ i # NoSlot
      BY <1>2 DEF TableIInv, TableInv, Rows, Slot, NoSlot
<1>5. table' = [table EXCEPT ![i] = r] /\ addr' = [addr EXCEPT ![i] = NewAddr]
      BY <1>4 DEF OpenListener, TakeSlot, SetTable
<1>6. /\ acceptor' \in AcceptorState /\ acceptor'.pc = "bind"
      /\ acceptor'.listener = i /\ acceptor'.child = acceptor.child
      BY <1>1, <1>2 DEF OpenListener, AcceptorState
<1>7. UNCHANGED worker
      BY DEF OpenListener
<1>8. NewAddr \in Address /\ NewAddr.remote = NoClient
      BY DEF NewAddr, Address
<1> HIDE DEF i, r
<1>9. table'[i] = r /\ addr'[i] = NewAddr /\
      \A j \in Slot \ {i} : table'[j] = table[j] /\ addr'[j] = addr[j]
      BY <1>4, <1>5 DEF TableIInv, TableInv, Rows
<1>10. Rows'
  <2>1. DOMAIN table' = Slot /\ DOMAIN addr' = Slot
        BY <1>5 DEF TableIInv, TableInv, Rows
  <2> QED BY <1>3, <1>8, <1>9, <2>1 DEF TableIInv, TableInv, Rows, TcpState
<1>11. Listener' = r
      BY <1>6, <1>9 DEF Listener
<1>12. ~Listening'
      BY <1>6 DEF Listening
<1>13. \A j \in Slot : table'[j].state = "CLOSED" /\ addr'[j].remote = NoClient
      BY <1>1, <1>3, <1>8, <1>9 DEF TableIInv, TableInv, Early
<1>14. ListenerKept' /\ Early'
      BY <1>1, <1>2, <1>3, <1>4, <1>6, <1>8, <1>9, <1>11, <1>13
      DEF TableIInv, TableInv, ListenerKept, Early
<1>15. Alone' /\ InQueue' /\ ChildClosed' /\ Asked' /\ TakenItemStays'
       /\ AcceptorWoken'
      BY <1>6, <1>12, <1>13
      DEF Alone, InQueue, ChildClosed, Asked, TakenItemStays, AcceptorWoken
<1>16. Distinct'
      BY <1>12, <1>13, TableAssumption DEF Distinct, Bound
<1>17. WorkerInv'
      BY <1>1, <1>2, <1>4, <1>6, <1>7, <1>12
      DEF TableIInv, WorkerInv, Handles, Strangers, Unshared
<1> QED BY <1>6, <1>10, <1>14, <1>15, <1>16, <1>17 DEF TableIInv, TableInv

\* Socket_Bind only sets the port of a socket nobody else knows.
LEMMA BindKeeps ==
    ASSUME TableIInv, Bind
    PROVE  TableIInv'
<1> DEFINE l == acceptor.listener
           a == [addr[l] EXCEPT !.localPort = "server"]
<1>1. acceptor.pc = "bind" /\ acceptor \in AcceptorState /\ ~Listening
      BY DEF Bind, TableIInv, TableInv, Listening
<1>2. l \in Slot /\ addr[l] \in Address /\ l \in DOMAIN addr
      BY <1>1 DEF TableIInv, TableInv, ListenerKept, Rows
<1>3. a \in Address /\ a.remote = addr[l].remote
      BY <1>2 DEF Address
<1>4. addr' = [addr EXCEPT ![l] = a] /\ table' = table /\ UNCHANGED worker
      BY <1>2 DEF Bind
<1>5. /\ acceptor' \in AcceptorState /\ acceptor'.pc = "listen"
      /\ acceptor'.listener = l /\ acceptor'.child = acceptor.child
      BY <1>1 DEF Bind, AcceptorState
<1>6. ~Listening' /\ Listener' = Listener
      BY <1>4, <1>5 DEF Listening, Listener
<1> HIDE DEF a
<1>7. addr'[l] = a /\ \A j \in Slot \ {l} : addr'[j] = addr[j]
      BY <1>2, <1>4 DEF TableIInv, TableInv, Rows
<1>8. Rows'
  <2>1. DOMAIN addr' = Slot
        BY <1>4 DEF TableIInv, TableInv, Rows
  <2> QED BY <1>3, <1>4, <1>7, <2>1 DEF TableIInv, TableInv, Rows
<1>9. \A j \in Slot : table'[j].state = "CLOSED" /\ addr'[j].remote = NoClient
      BY <1>1, <1>2, <1>3, <1>4, <1>7 DEF TableIInv, TableInv, Early
<1>10. ListenerKept' /\ Early'
      BY <1>1, <1>2, <1>5, <1>6, <1>9
      DEF TableIInv, TableInv, ListenerKept, Early
<1>11. Alone' /\ InQueue' /\ ChildClosed' /\ Asked' /\ TakenItemStays'
       /\ AcceptorWoken'
      BY <1>5, <1>6, <1>9
      DEF Alone, InQueue, ChildClosed, Asked, TakenItemStays, AcceptorWoken
<1>12. Distinct'
      BY <1>6, <1>9, TableAssumption DEF Distinct, Bound
<1>13. WorkerInv'
      BY <1>1, <1>4, <1>5, <1>6
      DEF TableIInv, WorkerInv, Handles, Strangers, Unshared
<1> QED BY <1>5, <1>8, <1>10, <1>11, <1>12, <1>13 DEF TableIInv, TableInv

\* Tcp_Listen puts an idle socket into LISTEN with room for a SYN.
LEMMA StartListening ==
    ASSUME NEW s, IsSock(s)
    PROVE  LET t == Tcp_Listen(s, Backlog)
           IN  /\ IsSock(t) /\ t.type = s.type /\ t.state = "LISTEN"
               /\ t.retransmitQueue = s.retransmitQueue
               /\ t.wndProbeInterval = s.wndProbeInterval
               /\ t.synQueue = s.synQueue /\ t.synQueueSize \in Nat \ {0}
<1> DEFINE n == IF Backlog > 0 THEN MinOf(Backlog, MaxSynQueueSize)
                ELSE DefaultSynQueueSize
           b == [s EXCEPT !.synQueueSize = n]
           t == tcpChangeState(b, "LISTEN")
<1>1. n \in Nat \ {0}
      BY TableAssumption, SizeAssumption DEF MinOf
<1> HIDE DEF n
<1>2. /\ IsSock(b) /\ b.type = s.type /\ b.synQueueSize = n
      /\ b.retransmitQueue = s.retransmitQueue /\ b.synQueue = s.synQueue
      /\ b.wndProbeInterval = s.wndProbeInterval
      BY DEF IsSock, SockField, Numeric
<1> HIDE DEF b
<1>3. Shift(b, t, "LISTEN")
      BY <1>2, ChangeState
<1>4. /\ t.retransmitQueue = b.retransmitQueue /\ t.synQueue = b.synQueue
      /\ t.wndProbeInterval = b.wndProbeInterval
      /\ t.synQueueSize = b.synQueueSize
      BY <1>2 DEF tcpChangeState, tcpUpdateEvents, IsSock, SockField
<1>5. Tcp_Listen(s, Backlog) = t
      BY DEF Tcp_Listen, b, n
<1> HIDE DEF t
<1> QED BY <1>1, <1>2, <1>3, <1>4, <1>5 DEF Shift

\* A critical section on the socket that listens, or starts to
LEMMA RunAtListener ==
    ASSUME TableInv, acceptor.pc # "open", NEW u, IsSock(u), u.state = "LISTEN",
           Run(acceptor.listener, u)
    PROVE  LET r == Leave(u)
           IN  /\ table' = [table EXCEPT ![acceptor.listener] = r] /\ SameAddr
               /\ IsSock(r) /\ r.type = u.type /\ r.state = u.state
               /\ r.synQueue = u.synQueue /\ r.synQueueSize = u.synQueueSize
               /\ r.retransmitQueue = u.retransmitQueue
               /\ r.wndProbeInterval = u.wndProbeInterval
               /\ r.event = u.event /\ r.eventMask = u.eventMask
<1>1. ~Vacant(u)
      BY DEF Vacant
<1>2. /\ acceptor.listener \in Slot /\ DOMAIN table = Slot /\ DOMAIN addr = Slot
      BY DEF TableInv, ListenerKept, Rows
<1>3. /\ table' = [table EXCEPT ![acceptor.listener] = Leave(u)]
      /\ addr' = [addr EXCEPT ![acceptor.listener] =
                    LeaveAddr(u, addr[acceptor.listener])]
      BY <1>2 DEF Run, SetTable
<1>4. SameAddr
      BY <1>1, <1>2, <1>3 DEF SameAddr, LeaveAddr
<1> QED BY <1>1, <1>3, <1>4, LeaveStep

\* The workers do not see what the acceptor does with the mutex held.
LEMMA SameWorkers ==
    ASSUME WorkerInv, acceptor.pc # "open", Listening', UNCHANGED worker,
           acceptor'.listener = acceptor.listener
    PROVE  WorkerInv'
BY DEF WorkerInv, Handles, Strangers, Unshared, Listening

\* Socket_Listen
LEMMA ListenKeeps ==
    ASSUME TableIInv, Listen
    PROVE  TableIInv'
<1> DEFINE l == acceptor.listener
           u == Tcp_Listen(Listener, Backlog)
           r == Leave(u)
<1>1. acceptor.pc = "listen" /\ acceptor \in AcceptorState /\ ~Listening
      BY DEF Listen, TableIInv, TableInv, Listening
<1>2. /\ l \in Slot /\ IsSock(Listener) /\ Listener.type = "STREAM"
      /\ Listener.retransmitQueue = <<>> /\ Listener.wndProbeInterval = 0
      /\ Listener.synQueue = <<>> /\ addr[l].remote = NoClient
      BY <1>1 DEF TableIInv, TableInv, ListenerKept, Rows, Early, Listener
<1>3. /\ IsSock(u) /\ u.type = "STREAM" /\ u.state = "LISTEN"
      /\ u.retransmitQueue = <<>> /\ u.wndProbeInterval = 0
      /\ u.synQueue = <<>> /\ u.synQueueSize \in Nat \ {0}
      BY <1>2, StartListening
<1>4. Run(l, u)
      BY DEF Listen
<1> HIDE DEF u
<1>5. /\ table' = [table EXCEPT ![l] = r] /\ SameAddr
      /\ IsSock(r) /\ r.type = "STREAM" /\ r.state = "LISTEN"
      /\ r.retransmitQueue = <<>> /\ r.wndProbeInterval = 0
      /\ r.synQueue = <<>> /\ r.synQueueSize \in Nat \ {0}
      BY <1>1, <1>3, <1>4, RunAtListener DEF TableIInv
<1> HIDE DEF r
<1>6. /\ acceptor' \in AcceptorState /\ acceptor'.pc = "idle"
      /\ acceptor'.listener = l /\ acceptor'.child = NoSlot
      BY <1>1 DEF Listen, AcceptorState, TableIInv, TableInv, Early
<1>7. Listening'
      BY <1>6 DEF Listening
<1>8. table'[l] = r /\ \A j \in Slot \ {l} : table'[j] = table[j]
      BY <1>2, <1>5 DEF TableIInv, TableInv, Rows
<1>9. Listener' = r
      BY <1>6, <1>8 DEF Listener
<1>10. Rows'
  <2>1. DOMAIN table' = Slot /\ DOMAIN addr' = Slot
        BY <1>5 DEF TableIInv, TableInv, Rows, SameAddr
  <2> QED BY <1>5, <1>8, <2>1 DEF TableIInv, TableInv, Rows, TcpState, SameAddr
<1>11. ListenerKept'
  <2>1. l # NoSlot /\ addr'[l].remote = NoClient
        BY <1>2, <1>5 DEF SameAddr, Slot, NoSlot
  <2> QED BY <1>2, <1>5, <1>6, <1>9, <2>1 DEF ListenerKept
<1>12. Alone'
      BY <1>1, <1>5, <1>6, <1>8, <1>9 DEF TableIInv, TableInv, Alone, Early
<1>13. InQueue'
  <2>1. <<>> \in Seq(QueueItem) /\ Len(<<>>) = 0
        OBVIOUS
  <2>2. /\ Listener'.synQueue \in Seq(QueueItem)
        /\ Listener'.synQueueSize \in Nat \ {0}
        BY <1>5, <1>9, <2>1
  <2>3. Len(Listener'.synQueue) <= Listener'.synQueueSize
    <3>1. Len(Listener'.synQueue) = 0
          BY <1>5, <1>9, <2>1
    <3> QED BY <2>2, <3>1
  <2> QED BY <2>2, <2>3 DEF InQueue
<1>14. Early' /\ ChildClosed' /\ Asked' /\ TakenItemStays' /\ AcceptorWoken'
      BY <1>6, <1>7 DEF Early, ChildClosed, Asked, TakenItemStays, AcceptorWoken
<1>15. Distinct'
  <2>1. \A j \in Slot : addr'[j].remote = NoClient
        BY <1>1, <1>5 DEF TableIInv, TableInv, Early, SameAddr
  <2>2. DOMAIN Listener'.synQueue = {}
        BY <1>5, <1>9
  <2> QED BY <2>1, <2>2, TableAssumption DEF Distinct, Bound
<1>16. WorkerInv'
      BY <1>1, <1>6, <1>7, SameWorkers DEF TableIInv, Listen
<1> QED BY <1>6, <1>10, <1>11, <1>12, <1>13, <1>14, <1>15, <1>16
        DEF TableIInv, TableInv

\* What is known of the socket of an acceptor that listens
LEMMA ListenerFacts ==
    ASSUME TableInv, Listening
    PROVE  /\ acceptor.listener \in Slot /\ acceptor.pc # "open"
           /\ IsSock(Listener) /\ Listener.type = "STREAM"
           /\ Listener.state = "LISTEN" /\ Listener.retransmitQueue = <<>>
           /\ Listener.wndProbeInterval = 0
           /\ Listener.synQueue \in Seq(QueueItem)
           /\ Listener.synQueueSize \in Nat \ {0}
           /\ Len(Listener.synQueue) <= Listener.synQueueSize
<1>1. acceptor.pc # "open"
      BY DEF Listening
<1> QED BY <1>1 DEF TableInv, ListenerKept, Rows, Alone, InQueue, Listener

\* Tcp_Accept starts.
LEMMA AcceptKeeps ==
    ASSUME TableIInv, Accept
    PROVE  TableIInv'
<1> DEFINE u == WaitForSyn(Listener)
           r == Leave(u)
<1>1. Listening
      BY DEF Accept, Listening
<1>2. /\ IsSock(u) /\ u.state = "LISTEN" /\ u.type = "STREAM"
      /\ u.retransmitQueue = <<>> /\ u.wndProbeInterval = 0
      /\ u.synQueue = Listener.synQueue /\ u.synQueueSize = Listener.synQueueSize
      /\ Listener.synQueue = <<>> => u.eventMask = {"RX_READY"}
      BY <1>1, ListenerFacts, WaitStep DEF TableIInv
<1> HIDE DEF u
<1>3. Run(acceptor.listener, u) /\ acceptor' = LoopTop(Listener) /\ UNCHANGED worker
      BY DEF Accept, u
<1>4. /\ table' = [table EXCEPT ![acceptor.listener] = r] /\ SameAddr
      /\ IsSock(r) /\ r.type = "STREAM" /\ r.state = "LISTEN"
      /\ r.retransmitQueue = <<>> /\ r.wndProbeInterval = 0
      /\ r.synQueue = Listener.synQueue /\ r.synQueueSize = Listener.synQueueSize
      /\ r.eventMask = u.eventMask
      BY <1>1, <1>2, <1>3, RunAtListener, ListenerFacts DEF TableIInv
<1> HIDE DEF r
<1>5. /\ acceptor \in AcceptorState /\ Listener.synQueue \in Seq(QueueItem)
      /\ acceptor.listener \in Slot /\ acceptor.listener # NoSlot
      BY <1>1, ListenerFacts DEF TableIInv, TableInv, Slot, NoSlot
<1>6. acceptor'.listener = acceptor.listener /\ acceptor'.child = NoSlot /\ Listening'
  <2>1. CASE Listener.synQueue = <<>>
        BY <1>3, <1>5, <2>1 DEF LoopTop, AcceptorState, Listening
  <2>2. CASE Listener.synQueue # <<>>
        BY <1>3, <1>5, <2>2 DEF LoopTop, AcceptorState, Listening
  <2> QED BY <2>1, <2>2
<1>7. /\ Rows' /\ ListenerKept' /\ Early' /\ Alone' /\ Bound' = Bound /\ Listener' = r
      BY <1>1, <1>4, <1>5, <1>6, AtListener, ListenerFacts DEF TableIInv
<1>8. /\ acceptor' \in AcceptorState /\ ChildClosed' /\ Asked' /\ TakenItemStays'
      /\ AcceptorWoken'
      BY <1>2, <1>3, <1>4, <1>5, <1>7, Looping
<1>9. InQueue'
      BY <1>1, <1>4, <1>7 DEF TableIInv, TableInv, InQueue
<1>10. Distinct'
      BY <1>1, <1>4, <1>7, SameDistinct DEF TableIInv, TableInv
<1>11. WorkerInv'
      BY <1>1, <1>3, <1>6, SameWorkers, ListenerFacts DEF TableIInv
<1> QED BY <1>7, <1>8, <1>9, <1>10, <1>11 DEF TableIInv, TableInv

\* The acceptor wakes up; after a signal that was for nothing it starts over.
LEMMA AcceptWakeKeeps ==
    ASSUME TableIInv, AcceptWake
    PROVE  TableIInv'
<1> DEFINE u == [Listener EXCEPT !.event = FALSE]
           r == Leave(u)
<1>1. Listening /\ acceptor.pc = "wait"
      BY DEF AcceptWake, Listening
<1>2. /\ IsSock(u) /\ u.state = "LISTEN" /\ u.type = "STREAM"
      /\ u.retransmitQueue = <<>> /\ u.wndProbeInterval = 0
      /\ u.synQueue = Listener.synQueue /\ u.synQueueSize = Listener.synQueueSize
      /\ u.eventMask = Listener.eventMask
      BY <1>1, ListenerFacts DEF TableIInv, IsSock, SockField, Numeric
<1> HIDE DEF u
<1>3. /\ Run(acceptor.listener, u) /\ UNCHANGED worker
      /\ \/ Listener.synQueue = <<>> /\ acceptor' = [acceptor EXCEPT !.pc = "idle"]
         \/ Listener.synQueue # <<>> /\ acceptor' = LoopTop(Listener)
      BY DEF AcceptWake, u
<1>4. /\ table' = [table EXCEPT ![acceptor.listener] = r] /\ SameAddr
      /\ IsSock(r) /\ r.type = "STREAM" /\ r.state = "LISTEN"
      /\ r.retransmitQueue = <<>> /\ r.wndProbeInterval = 0
      /\ r.synQueue = Listener.synQueue /\ r.synQueueSize = Listener.synQueueSize
      BY <1>1, <1>2, <1>3, RunAtListener, ListenerFacts DEF TableIInv
<1> HIDE DEF r
<1>5. /\ acceptor \in AcceptorState /\ Listener.synQueue \in Seq(QueueItem)
      /\ acceptor.listener \in Slot /\ acceptor.listener # NoSlot
      /\ acceptor.child # acceptor.listener
      BY <1>1, ListenerFacts DEF TableIInv, TableInv, Slot, NoSlot, ListenerKept
<1>6. /\ acceptor'.listener = acceptor.listener
      /\ acceptor'.child # acceptor.listener /\ Listening'
  <2>1. CASE Listener.synQueue = <<>>
        BY <1>3, <1>5, <2>1 DEF AcceptorState, Listening
  <2>2. CASE Listener.synQueue # <<>>
        BY <1>3, <1>5, <2>2 DEF LoopTop, AcceptorState, Listening
  <2> QED BY <2>1, <2>2
<1>7. /\ Rows' /\ ListenerKept' /\ Early' /\ Alone' /\ Bound' = Bound /\ Listener' = r
      BY <1>1, <1>4, <1>6, AtListener, ListenerFacts DEF TableIInv
<1>8. /\ acceptor' \in AcceptorState /\ ChildClosed' /\ Asked' /\ TakenItemStays'
      /\ AcceptorWoken'
  <2>1. CASE Listener.synQueue = <<>>
    <3>1. acceptor' \in AcceptorState /\ acceptor'.pc = "idle"
          BY <1>3, <1>5, <2>1 DEF AcceptorState
    <3> QED BY <3>1 DEF ChildClosed, Asked, TakenItemStays, AcceptorWoken
  <2>2. CASE Listener.synQueue # <<>>
        BY <1>3, <1>4, <1>5, <1>7, <2>2, Looping
  <2> QED BY <2>1, <2>2
<1>9. InQueue'
      BY <1>1, <1>4, <1>7 DEF TableIInv, TableInv, InQueue
<1>10. Distinct'
      BY <1>1, <1>4, <1>7, SameDistinct DEF TableIInv, TableInv
<1>11. WorkerInv'
      BY <1>1, <1>3, <1>6, SameWorkers, ListenerFacts DEF TableIInv
<1> QED BY <1>7, <1>8, <1>9, <1>10, <1>11 DEF TableIInv, TableInv

\* The socket of the child is opened, if there is one.
LEMMA AcceptOpenKeeps ==
    ASSUME TableIInv, AcceptOpen
    PROVE  TableIInv'
<1>1. acceptor.pc = "gap" /\ acceptor \in AcceptorState /\ Listening
      BY DEF AcceptOpen, TableIInv, TableInv, Listening
<1>2. /\ acceptor' = [acceptor EXCEPT !.pc = "setup", !.child = SlotTaken]
      /\ TakeSlot(SlotTaken, "STREAM") /\ UNCHANGED worker
      BY DEF AcceptOpen
<1>3. CASE SlotTaken # NoSlot
  <2>1. TableInv'
        BY <1>1, <1>2, <1>3, TakeElsewhere DEF TableIInv
  <2>2. acceptor'.listener = acceptor.listener /\ Listening'
        BY <1>1, <1>2 DEF AcceptorState, Listening
  <2> QED BY <1>1, <1>2, <2>1, <2>2, SameWorkers DEF TableIInv
<1>4. CASE SlotTaken = NoSlot
  <2>1. /\ acceptor' \in AcceptorState /\ acceptor'.pc = "setup"
        /\ acceptor'.listener = acceptor.listener /\ acceptor'.child = NoSlot
        /\ acceptor'.item = acceptor.item
        BY <1>1, <1>2, <1>4 DEF AcceptorState
  <2>2. UNCHANGED <<table, addr>>
        BY <1>2, <1>4 DEF TakeSlot
  <2>3. Listening' /\ Listener' = Listener /\ Bound' = Bound
        BY <2>1, <2>2 DEF Listening, Listener, Bound
  <2>4. acceptor.listener # NoSlot
        BY <1>1, ListenerFacts DEF TableIInv, Slot, NoSlot
  <2>5. Rows' /\ ListenerKept' /\ Early' /\ Alone' /\ InQueue' /\ ChildClosed'
        BY <1>1, <2>1, <2>2, <2>3, <2>4
        DEF TableIInv, TableInv, Rows, ListenerKept, Early, Alone, InQueue,
            ChildClosed
  <2>6. Asked' /\ TakenItemStays' /\ AcceptorWoken'
        BY <1>1, <2>1, <2>3
        DEF TableIInv, TableInv, Asked, TakenItemStays, AcceptorWoken
  <2>7. Distinct'
        BY <1>1, <2>2, <2>3 DEF TableIInv, TableInv, Distinct
  <2>8. WorkerInv'
        BY <1>1, <1>2, <2>1, <2>3, SameWorkers DEF TableIInv
  <2> QED BY <2>1, <2>5, <2>6, <2>7, <2>8 DEF TableIInv, TableInv
<1> QED BY <1>3, <1>4

\* The socket l is the listening one without the head of its queue.
HeadGone(l) ==
    /\ l.synQueue = Tail(Listener.synQueue)
    /\ l.synQueueSize = Listener.synQueueSize

\* The end of the setup: the head of the queue becomes the remote end of the
\* child, or goes with it.
LEMMA ChildSet ==
    ASSUME TableIInv, acceptor.pc = "setup", NEW c,
           acceptor.child # NoSlot =>
            /\ IsSock(c)
            /\ c.state = "SYN_RECEIVED" \/ (c.state = "CLOSED" /\ c.type = "UNUSED"),
           NEW l, IsSock(l), l.type = "STREAM", l.state = "LISTEN",
           l.retransmitQueue = <<>>, l.wndProbeInterval = 0,
           HeadGone(l), SetChild(c, l), Listening', UNCHANGED worker,
           acceptor'.listener = acceptor.listener,
           acceptor'.child # acceptor.listener
    PROVE  /\ Rows' /\ ListenerKept' /\ Early' /\ Alone' /\ InQueue' /\ Distinct'
           /\ Listener' = l /\ WorkerInv'
<1> DEFINE k == acceptor.child
           i == acceptor.listener
           q == Listener.synQueue
           a == LeaveAddr(c, Addressed)
<1>1. /\ Listening /\ acceptor.pc # "open" /\ acceptor \in AcceptorState
      /\ acceptor'.pc # "open"
      BY DEF Listening, TableIInv, TableInv
<1>2. /\ i \in Slot /\ i # NoSlot /\ k # i /\ k \in Slot \cup {NoSlot}
      /\ NoSlot \notin Slot
  <2>1. i \in Slot
        BY <1>1, ListenerFacts DEF TableIInv
  <2>2. k # i
        BY <1>1 DEF TableIInv, TableInv, ListenerKept
  <2>3. k \in Slot \cup {NoSlot}
        BY <1>1 DEF AcceptorState
  <2>4. NoSlot \notin Slot
        BY TableAssumption DEF Slot, NoSlot
  <2> QED BY <2>1, <2>2, <2>3, <2>4
<1>3. /\ q \in Seq(QueueItem) /\ q # <<>> /\ Head(q) = acceptor.item
      /\ Listener.synQueueSize \in Nat \ {0} /\ Len(q) <= Listener.synQueueSize
      BY <1>1, ListenerFacts DEF TableIInv, TableInv, TakenItemStays
<1>4. /\ acceptor.item = q[1] /\ q[1] \in QueueItem /\ 1 \in DOMAIN q
      /\ Tail(q) \in Seq(QueueItem) /\ Len(Tail(q)) = Len(q) - 1
      /\ \A m \in DOMAIN Tail(q) : m + 1 \in DOMAIN q /\ Tail(q)[m] = q[m + 1]
      /\ \A m \in DOMAIN Tail(q) : m \in Nat /\ m # 0
  <2> HIDE DEF q
  <2>1. Len(q) \in Nat \ {0} /\ DOMAIN q = 1 .. Len(q)
        BY <1>3
  <2>2. 1 \in DOMAIN q
        BY <2>1
  <2>3. q[1] \in QueueItem /\ Head(q) = q[1]
        BY <1>3, <2>1
  <2>4. Tail(q) \in Seq(QueueItem) /\ Len(Tail(q)) = Len(q) - 1
        BY <1>3, <2>1
  <2>5. DOMAIN Tail(q) = 1 .. Len(q) - 1
        BY <1>3, <2>1, <2>4
  <2>6. ASSUME NEW m \in DOMAIN Tail(q)
        PROVE  /\ m + 1 \in DOMAIN q /\ Tail(q)[m] = q[m + 1]
               /\ m \in Nat /\ m # 0
    <3>1. m \in 1 .. Len(q) - 1
          BY <2>5
    <3>2. Tail(q)[m] = q[m + 1]
          BY <1>3, <2>1, <3>1
    <3> QED BY <2>1, <3>1, <3>2
  <2> QED BY <1>3, <2>2, <2>3, <2>4, <2>6
<1>5. \A j \in Slot : addr[j] \in Address /\ IsSock(table[j])
      BY DEF TableIInv, TableInv, Rows
<1>6. /\ DOMAIN table' = Slot /\ DOMAIN addr' = Slot
      /\ table'[i] = l /\ addr'[i] = addr[i]
      /\ \A j \in Slot \ {i, k} : table'[j] = table[j] /\ addr'[j] = addr[j]
      /\ k # NoSlot => table'[k] = Leave(c) /\ addr'[k] = a
  <2>1. DOMAIN table = Slot /\ DOMAIN addr = Slot
        BY DEF TableIInv, TableInv, Rows
  <2>2. CASE k = NoSlot
    <3>1. table' = [table EXCEPT ![i] = l] /\ addr' = addr
          BY <2>2 DEF SetChild, SetTable
    <3> QED BY <1>2, <2>1, <2>2, <3>1
  <2>3. CASE k # NoSlot
    <3>1. /\ table' = [[table EXCEPT ![k] = Leave(c)] EXCEPT ![i] = l]
          /\ addr' = [addr EXCEPT ![k] = a]
          BY <1>2, <2>1, <2>3 DEF SetChild, SetTable
    <3> QED BY <1>2, <2>1, <2>3, <3>1
  <2> QED BY <2>2, <2>3
<1>7. k # NoSlot =>
        /\ IsSock(Leave(c)) /\ Leave(c).type = c.type /\ Leave(c).state = c.state
        /\ k \in Slot
      BY <1>2, LeaveStep
<1>8. Addressed \in Address /\ Addressed.remote = q[1].src
      BY <1>2, <1>4, <1>5 DEF Addressed, Address, QueueItem
<1>9. k # NoSlot => a \in Address /\ a \in {Addressed, NoAddr}
      BY <1>8 DEF LeaveAddr, NoAddr, Address
<1>10. NoAddr.localPort # "server"
      BY DEF NoAddr
<1> HIDE DEF a, q, k
<1>11. Listener' = l
      BY <1>6 DEF Listener
<1>12. Rows'
  <2>1. ASSUME NEW j \in Slot
        PROVE  IsSock(table'[j]) /\ table'[j].state \in TcpState /\ addr'[j] \in Address
    <3>1. CASE j = i
      <4>1. addr'[j] = addr[j] /\ table'[j] = l
            BY <1>6, <3>1
      <4> QED BY <1>5, <4>1 DEF TcpState
    <3>2. CASE j = k
      <4>1. k # NoSlot
            BY <1>2, <3>2
      <4>2. c.state \in {"SYN_RECEIVED", "CLOSED"}
            BY <4>1 DEF k
      <4> QED BY <1>6, <1>7, <1>9, <3>2, <4>1, <4>2 DEF TcpState
    <3>3. CASE j \in Slot \ {i, k}
          BY <1>6, <3>3 DEF TableIInv, TableInv, Rows
    <3> QED BY <3>1, <3>2, <3>3
  <2> QED BY <1>6, <2>1 DEF Rows
<1>13. ListenerKept'
      BY <1>1, <1>2, <1>6, <1>11 DEF TableIInv, TableInv, ListenerKept
<1>14. Early'
      BY DEF Early
<1>15. Alone'
  <2>1. ASSUME NEW j \in Slot, table'[j].state = "LISTEN" PROVE j = i
    <3>1. CASE j = k
      <4>1. k # NoSlot
            BY <1>2, <3>1
      <4>2. c.state \in {"SYN_RECEIVED", "CLOSED"}
            BY <4>1 DEF k
      <4> QED BY <1>6, <1>7, <2>1, <3>1, <4>1, <4>2
    <3>2. CASE j \in Slot \ {i, k}
          BY <1>6, <2>1, <3>2 DEF TableIInv, TableInv, Alone
    <3> QED BY <3>1, <3>2
  <2> QED BY <1>11, <2>1 DEF Alone
<1>16. l.synQueue = Tail(q) /\ l.synQueueSize = Listener.synQueueSize
      BY DEF q, HeadGone
<1>17. InQueue'
  <2>1. Tail(q) \in Seq(QueueItem) /\ Len(Tail(q)) <= Listener.synQueueSize
    <3>1. Len(q) \in Nat /\ Listener.synQueueSize \in Nat
          BY <1>3
    <3>2. Len(q) <= Listener.synQueueSize
          BY <1>3
    <3> HIDE DEF Listener
    <3>3. Len(q) - 1 <= Listener.synQueueSize
          BY <3>1, <3>2
    <3> QED BY <1>4, <3>3
  <2> QED BY <1>3, <1>11, <1>16, <2>1 DEF InQueue
<1>18. ASSUME NEW j \in Bound'
       PROVE  \/ j \in Bound /\ addr'[j].remote = addr[j].remote
              \/ j = k /\ addr'[j].remote = q[1].src
  <2>1. j \in Slot /\ table'[j].type = "STREAM" /\ addr'[j].localPort = "server"
        BY DEF Bound
  <2>2. CASE j = i
    <3>1. table[j].type = "STREAM" /\ addr'[j] = addr[j]
          BY <1>1, <1>6, <2>2 DEF TableIInv, TableInv, ListenerKept, Listener
    <3>2. j \in Bound
          BY <2>1, <3>1 DEF Bound
    <3> QED BY <3>1, <3>2
  <2>3. CASE j = k
    <3>1. k # NoSlot
          BY <1>2, <2>1, <2>3
    <3>2. addr'[j] = Addressed
          BY <1>6, <1>9, <1>10, <2>1, <2>3, <3>1
    <3> QED BY <1>8, <2>3, <3>2
  <2>4. CASE j \in Slot \ {i, k}
    <3>1. table'[j] = table[j] /\ addr'[j] = addr[j]
          BY <1>6, <2>4
    <3>2. j \in Bound
          BY <2>1, <3>1 DEF Bound
    <3> QED BY <3>1, <3>2
  <2> QED BY <2>1, <2>2, <2>3, <2>4
<1>19. /\ \A j \in Bound, n \in Bound :
            addr[j].remote \in Client /\ addr[j].remote = addr[n].remote => j = n
       /\ \A m \in DOMAIN q, j \in Bound : addr[j].remote # q[m].src
       /\ \A m \in DOMAIN q, n \in DOMAIN q : q[m].src = q[n].src => m = n
      BY <1>1 DEF TableIInv, TableInv, Distinct, q
<1>20. Distinct'
  <2>1. ASSUME NEW j \in Bound', NEW n \in Bound', addr'[j].remote \in Client,
               addr'[j].remote = addr'[n].remote
        PROVE  j = n
    <3>1. ASSUME NEW b \in Bound
          PROVE  addr[b].remote # q[1].src
          BY <1>4, <1>19
    <3>2. CASE j \in Bound /\ addr'[j].remote = addr[j].remote
      <4>1. n \in Bound /\ addr'[n].remote = addr[n].remote
            BY <1>18, <2>1, <3>1, <3>2
      <4> QED BY <1>19, <2>1, <3>2, <4>1
    <3>3. CASE j = k /\ addr'[j].remote = q[1].src
          BY <1>18, <2>1, <3>1, <3>3
    <3> QED BY <1>18, <3>2, <3>3
  <2>2. ASSUME NEW m \in DOMAIN Tail(q)
        PROVE  /\ \A j \in Bound' : addr'[j].remote # Tail(q)[m].src
               /\ \A n \in DOMAIN Tail(q) : Tail(q)[m].src = Tail(q)[n].src => m = n
    <3>1. /\ m + 1 \in DOMAIN q /\ Tail(q)[m] = q[m + 1]
          /\ m + 1 # 1 /\ m \in Nat
      <4>1. m + 1 \in DOMAIN q /\ Tail(q)[m] = q[m + 1] /\ m \in Nat /\ m # 0
            BY <1>4
      <4> QED BY <4>1
    <3>2. q[m + 1].src # q[1].src
          BY <1>4, <1>19, <3>1
    <3>3. \A j \in Bound' : addr'[j].remote # Tail(q)[m].src
          BY <1>18, <1>19, <3>1, <3>2
    <3>4. ASSUME NEW n \in DOMAIN Tail(q), Tail(q)[m].src = Tail(q)[n].src
          PROVE  m = n
      <4>1. n + 1 \in DOMAIN q /\ Tail(q)[n] = q[n + 1] /\ n \in Nat
            BY <1>4
      <4>2. q[m + 1].src = q[n + 1].src
            BY <3>1, <3>4, <4>1
      <4>3. m + 1 = n + 1
            BY <1>19, <3>1, <4>1, <4>2
      <4> QED BY <3>1, <4>1, <4>3
    <3> QED BY <3>3, <3>4
  <2>3. ASSUME NEW m \in DOMAIN Listener'.synQueue
        PROVE  /\ \A j \in Bound' : addr'[j].remote # Listener'.synQueue[m].src
               /\ \A n \in DOMAIN Listener'.synQueue :
                    Listener'.synQueue[m].src = Listener'.synQueue[n].src => m = n
        BY <1>11, <1>16, <2>2
  <2> QED BY <2>1, <2>3 DEF Distinct
<1>21. WorkerInv'
      BY <1>1, SameWorkers DEF TableIInv
<1> QED BY <1>11, <1>12, <1>13, <1>14, <1>15, <1>17, <1>20, <1>21

\* The rest of Tcp_Accept: the child is set up, or the item dropped.
LEMMA AcceptFinishKeeps ==
    ASSUME TableIInv, NEW f \in TxFault, AcceptFinish(f)
    PROVE  TableIInv'
<1> DEFINE k == acceptor.child
           l == [Listener EXCEPT !.synQueue = Tail(@)]
           s == Under(f, k)
           c == IF k = NoSlot THEN UnusedSocket
                ELSE AcceptChild(s, acceptor.item.isn, 0)
           w == WaitForSyn(l)
           e == tcpUpdateEvents(l)
<1>1. acceptor.pc = "setup" /\ acceptor \in AcceptorState /\ Listening
      BY DEF AcceptFinish, TableIInv, TableInv, Listening
<1>2. IF c.state = "SYN_RECEIVED" THEN Establish(c, l) ELSE Refuse(c, l)
      BY DEF AcceptFinish
<1>3. /\ acceptor.listener \in Slot /\ IsSock(Listener)
      /\ Listener.type = "STREAM" /\ Listener.state = "LISTEN"
      /\ Listener.retransmitQueue = <<>> /\ Listener.wndProbeInterval = 0
      /\ Listener.synQueue \in Seq(QueueItem) /\ Listener.synQueue # <<>>
      BY <1>1, ListenerFacts DEF TableIInv, TableInv, TakenItemStays
<1>4. /\ IsSock(l) /\ l.type = "STREAM" /\ l.state = "LISTEN"
      /\ l.retransmitQueue = <<>> /\ l.wndProbeInterval = 0
      /\ l.synQueue = Tail(Listener.synQueue)
      /\ l.synQueueSize = Listener.synQueueSize
      BY <1>3 DEF IsSock, SockField, Numeric
<1>5. l.synQueue \in Seq(QueueItem)
      BY <1>3, <1>4
<1>6. k = NoSlot => c.state = "CLOSED"
      BY DEF UnusedSocket, SockField
<1>7. k # NoSlot =>
        /\ k \in Slot /\ IsSock(c)
        /\ c.state = "SYN_RECEIVED" \/ (c.state = "CLOSED" /\ c.type = "UNUSED")
  <2> SUFFICES ASSUME k # NoSlot
               PROVE  /\ k \in Slot /\ IsSock(c)
                      /\ \/ c.state = "SYN_RECEIVED"
                         \/ c.state = "CLOSED" /\ c.type = "UNUSED"
      OBVIOUS
  <2>1. k \in Slot
        BY <1>1 DEF AcceptorState
  <2>2. IsSock(table[k]) /\ table[k].state = "CLOSED"
        BY <1>1, <2>1 DEF TableIInv, TableInv, Rows, ChildClosed
  <2>3. f.txRoom \in Nat
    <3>1. f \in [txRoom : Nat, fault : {"noMemory", "notSent", "noBuffer"}]
          BY TableAssumption
    <3> QED BY <3>1
  <2>4. Steady(table[k], s) /\ s.txRoom = f.txRoom
    <3>1. s = [table[k] EXCEPT !.txRoom = f.txRoom, !.fault = f.fault]
          BY DEF Under
    <3> HIDE DEF s, k, c
    <3>2. DOMAIN s = SockField /\ s.txRoom = f.txRoom
          BY <2>2, <3>1 DEF IsSock, SockField
    <3>3. \A x \in SockField \ {"txRoom", "fault"} : s[x] = table[k][x]
          BY <2>2, <3>1 DEF IsSock
    <3>4. /\ s.type = table[k].type /\ s.state = table[k].state
          /\ s.resetFlag = table[k].resetFlag
          /\ s.closedFlag = table[k].closedFlag /\ s.ownedFlag = table[k].ownedFlag
          /\ s.retransmitQueue = table[k].retransmitQueue
          /\ s.retransmitTimer = table[k].retransmitTimer
          BY <3>3 DEF SockField
    <3>5. /\ s.sndUser = table[k].sndUser /\ s.sndUna = table[k].sndUna
          /\ s.sndNxt = table[k].sndNxt /\ s.sndWnd = table[k].sndWnd
          /\ s.cwnd = table[k].cwnd /\ s.ssthresh = table[k].ssthresh
          /\ s.n = table[k].n
          BY <3>3 DEF SockField
    <3>6. IsSock(s)
          BY <2>2, <2>3, <3>2, <3>4, <3>5 DEF IsSock, Numeric
    <3> QED BY <3>2, <3>4, <3>6 DEF Steady, Shift, Armed
  <2> HIDE DEF s
  <2>5. 0 \in Int
        OBVIOUS
  <2>6. c = AcceptChild(s, acceptor.item.isn, 0)
        OBVIOUS
  <2> HIDE DEF c, k
  <2>7. IsSock(s) /\ s.state = "CLOSED" /\ s.txRoom \in Nat
        BY <2>2, <2>3, <2>4 DEF Steady, Shift
  <2> QED BY <2>1, <2>5, <2>6, <2>7, AcceptStep
<1> HIDE DEF c, l
<1>8. /\ IsSock(e) /\ e.type = "STREAM" /\ e.state = "LISTEN"
      /\ e.retransmitQueue = <<>> /\ e.wndProbeInterval = 0 /\ HeadGone(e)
      BY <1>4, ListenEvents DEF Attends, HeadGone
<1>9. /\ IsSock(w) /\ w.type = "STREAM" /\ w.state = "LISTEN"
      /\ w.retransmitQueue = <<>> /\ w.wndProbeInterval = 0 /\ HeadGone(w)
      /\ w.synQueue = l.synQueue
      /\ l.synQueue = <<>> => w.eventMask = {"RX_READY"}
      BY <1>4, WaitStep DEF HeadGone
<1> HIDE DEF e, w
<1>10. k # acceptor.listener /\ NoSlot # acceptor.listener
      BY <1>1, <1>3, TableAssumption DEF TableIInv, TableInv, ListenerKept, Slot, NoSlot
<1>11. CASE Establish(c, l)
  <2>1. /\ SetChild(c, e) /\ UNCHANGED worker
        /\ acceptor' = [acceptor EXCEPT !.pc = "idle", !.item = NoClient]
        BY <1>11 DEF Establish, e
  <2>2. /\ acceptor' \in AcceptorState /\ acceptor'.pc = "idle"
        /\ acceptor'.listener = acceptor.listener /\ acceptor'.child = k
        BY <1>1, <2>1 DEF AcceptorState
  <2>3. Listening'
        BY <2>2 DEF Listening
  <2>4. /\ Rows' /\ ListenerKept' /\ Early' /\ Alone' /\ InQueue' /\ Distinct'
        /\ WorkerInv'
        BY <1>1, <1>7, <1>8, <1>10, <2>1, <2>2, <2>3, ChildSet
  <2>5. ChildClosed' /\ Asked' /\ TakenItemStays' /\ AcceptorWoken'
        BY <2>2 DEF ChildClosed, Asked, TakenItemStays, AcceptorWoken
  <2> QED BY <2>2, <2>4, <2>5 DEF TableIInv, TableInv
<1>12. CASE Refuse(c, l)
  <2>1. SetChild(c, w) /\ UNCHANGED worker /\ acceptor' = LoopTop(l)
        BY <1>12 DEF Refuse, w
  <2>2. /\ acceptor'.listener = acceptor.listener /\ acceptor'.child = NoSlot
        /\ Listening'
    <3>1. CASE l.synQueue = <<>>
          BY <1>1, <2>1, <3>1 DEF LoopTop, AcceptorState, Listening
    <3>2. CASE l.synQueue # <<>>
          BY <1>1, <2>1, <3>2 DEF LoopTop, AcceptorState, Listening
    <3> QED BY <3>1, <3>2
  <2>3. /\ Rows' /\ ListenerKept' /\ Early' /\ Alone' /\ InQueue' /\ Distinct'
        /\ WorkerInv' /\ Listener' = w
        BY <1>1, <1>7, <1>9, <1>10, <2>1, <2>2, ChildSet
  <2>4. /\ acceptor' \in AcceptorState /\ ChildClosed' /\ Asked'
        /\ TakenItemStays' /\ AcceptorWoken'
        BY <1>1, <1>5, <1>9, <2>1, <2>3, Looping
  <2> QED BY <2>3, <2>4 DEF TableIInv, TableInv
<1> QED BY <1>2, <1>11, <1>12

----------------------------------------------------------------------------
(* The workers *)

\* The acceptor gives the child away.
LEMMA HandOverKeeps ==
    ASSUME TableIInv, NEW w \in Worker, HandOver(w)
    PROVE  TableIInv'
<1> DEFINE h == [slot |-> acceptor.child, task |-> Returned("NO_ERROR")]
<1>1. /\ acceptor.pc = "idle" /\ acceptor \in AcceptorState /\ Listening
      /\ acceptor.child # NoSlot
      BY DEF HandOver, TableIInv, TableInv, Listening
<1>2. /\ acceptor' = [acceptor EXCEPT !.child = NoSlot]
      /\ worker' = [worker EXCEPT ![w] = h] /\ UNCHANGED <<table, addr>>
      BY DEF HandOver
<1>3. /\ acceptor' \in AcceptorState /\ acceptor'.pc = "idle"
      /\ acceptor'.listener = acceptor.listener /\ acceptor'.child = NoSlot
      /\ acceptor'.item = acceptor.item
      BY <1>1, <1>2 DEF AcceptorState
<1>4. Listening' /\ Listener' = Listener /\ Bound' = Bound
      BY <1>2, <1>3 DEF Listening, Listener, Bound
<1>5. acceptor.listener # NoSlot /\ acceptor.child # acceptor.listener
      /\ acceptor.child \in Slot
      BY <1>1, ListenerFacts, TableAssumption
      DEF TableIInv, TableInv, ListenerKept, AcceptorState, Slot, NoSlot
<1>6. /\ Rows' /\ ListenerKept' /\ Early' /\ Alone' /\ InQueue' /\ ChildClosed'
      /\ Asked' /\ TakenItemStays' /\ AcceptorWoken'
      BY <1>1, <1>2, <1>3, <1>4, <1>5
      DEF TableIInv, TableInv, Rows, ListenerKept, Early, Alone, InQueue,
          ChildClosed, Asked, TakenItemStays, AcceptorWoken
<1>7. Distinct'
      BY <1>1, <1>2, <1>4 DEF TableIInv, TableInv, Distinct
<1>8. /\ DOMAIN h = {"slot", "task"} /\ h.slot = acceptor.child
      /\ IsTask(h.task) /\ h.task.pc = "ready"
      BY DEF Returned, Call, IsTask
<1> HIDE DEF h
<1>9. WorkerInv'
  <2>1. DOMAIN worker' = Worker /\ worker'[w] = h
        /\ \A v \in Worker \ {w} : worker'[v] = worker[v]
        BY <1>2 DEF TableIInv, WorkerInv, Handles
  <2>2. Handles'
        BY <1>1, <1>5, <1>8, <2>1 DEF TableIInv, WorkerInv, Handles, TaskPc
  <2>3. Strangers'
        BY <1>1, <1>3, <1>5, <1>8, <2>1 DEF TableIInv, WorkerInv, Strangers
  <2>4. Unshared'
        BY <1>3, <1>4 DEF Unshared
  <2> QED BY <2>2, <2>3, <2>4 DEF WorkerInv
<1> QED BY <1>3, <1>6, <1>7, <1>9 DEF TableIInv, TableInv

\* The socket of a handle is not the one that listens, and is still closed if
\* the acceptor has taken it for a child.
LEMMA OwnSlot ==
    ASSUME TableIInv, NEW w \in Worker, worker[w].task.pc # "free"
    PROVE  LET i == worker[w].slot
           IN  /\ i \in Slot /\ i # acceptor.listener
               /\ IsSock(table[i]) /\ table[i].state \in TcpState \ {"LISTEN"}
               /\ ~Listening => table[i].state = "CLOSED"
               /\ acceptor.pc = "setup" /\ i = acceptor.child =>
                    table[i].state = "CLOSED"
<1> DEFINE i == worker[w].slot
<1>1. i \in Slot
      BY DEF TableIInv, WorkerInv, Handles
<1>2. NoSlot \notin Slot
      BY TableAssumption DEF Slot, NoSlot
<1>3. i # acceptor.listener
  <2>1. CASE acceptor.pc = "open"
        BY <1>1, <1>2, <2>1 DEF TableIInv, TableInv, ListenerKept
  <2>2. CASE acceptor.pc # "open"
        BY <2>2 DEF TableIInv, WorkerInv, Strangers
  <2> QED BY <2>1, <2>2
<1> HIDE DEF i
<1>4. /\ IsSock(table[i]) /\ table[i].state \in TcpState \ {"LISTEN"}
      /\ ~Listening => table[i].state = "CLOSED"
      BY <1>1, <1>3 DEF TableIInv, TableInv, Rows, Alone, Early
<1>5. acceptor.pc = "setup" /\ i = acceptor.child => table[i].state = "CLOSED"
      BY <1>1, <1>2 DEF TableIInv, TableInv, ChildClosed
<1> QED BY <1>1, <1>3, <1>4, <1>5 DEF i

\* With the resources of the IP layer at hand the socket is the same.
LEMMA ReadySock ==
    ASSUME TableInv, NEW i \in Slot
    PROVE  Steady(table[i], Ready(i)) /\ IsSock(Ready(i))
<1>1. TxBufferSize + 4 \in Nat
      BY SizeAssumption
<1>2. IsSock(table[i])
      BY DEF TableInv, Rows
<1>3. Steady(table[i], Ready(i))
      BY <1>1, <1>2, Provided DEF Ready
<1> QED BY <1>3 DEF Steady, Shift

\* A worker opens a socket of its own.
LEMMA WorkerOpenKeeps ==
    ASSUME TableIInv, NEW w \in Worker, NEW type \in OpenTypes, WorkerOpen(w, type)
    PROVE  TableIInv'
<1> DEFINE h == [slot |-> SlotTaken, task |-> Returned("NO_ERROR")]
<1>1. /\ SlotTaken # NoSlot /\ TakeSlot(SlotTaken, type)
      /\ worker' = [worker EXCEPT ![w] = h] /\ acceptor' = acceptor
      BY DEF WorkerOpen
<1>2. /\ TableInv' /\ SlotTaken \in Slot /\ SlotTaken # acceptor.listener
      /\ table'[SlotTaken].type = type
      /\ \A j \in Slot \ {SlotTaken} : table'[j] = table[j]
      BY <1>1, TakeElsewhere DEF TableIInv
<1>3. type # "UNUSED"
      BY TableAssumption
<1>4. /\ DOMAIN h = {"slot", "task"} /\ h.slot = SlotTaken
      /\ IsTask(h.task) /\ h.task.pc = "ready"
      BY DEF Returned, Call, IsTask
<1> HIDE DEF h
<1>5. DOMAIN worker' = Worker /\ worker'[w] = h
      /\ \A v \in Worker \ {w} : worker'[v] = worker[v]
      BY <1>1 DEF TableIInv, WorkerInv, Handles
<1>6. Handles'
      BY <1>1, <1>2, <1>4, <1>5 DEF TableIInv, WorkerInv, Handles, TaskPc
<1>7. Strangers'
      BY <1>1, <1>2, <1>4, <1>5 DEF TableIInv, WorkerInv, Strangers
<1>8. Unshared'
  <2>1. ~Listening' => \A v \in Worker : worker'[v].task.pc \in {"free", "ready"}
        BY <1>1, <1>4, <1>5 DEF TableIInv, WorkerInv, Unshared, Listening
  <2>2. ASSUME acceptor.pc = "open", NEW v \in Worker, worker[v].slot # NoSlot
        PROVE  worker[v].slot # SlotTaken
    <3>1. table[worker[v].slot].type # "UNUSED"
          BY <2>2 DEF TableIInv, WorkerInv, Unshared
    <3>2. table[SlotTaken].state = "CLOSED"
          BY <1>2, <2>2 DEF TableIInv, TableInv, Early, Listening
    <3>3. table[SlotTaken].type = "UNUSED"
          BY <1>1, <3>2, TakenSlot
    <3> QED BY <3>1, <3>3
  <2>3. ASSUME acceptor.pc = "open", NEW v \in Worker, worker'[v].slot # NoSlot
        PROVE  /\ table'[worker'[v].slot].type # "UNUSED"
               /\ \A x \in Worker : worker'[x].slot = worker'[v].slot => x = v
    <3>1. CASE v = w
      <4>1. worker'[v].slot = SlotTaken
            BY <1>4, <1>5, <3>1
      <4>2. ASSUME NEW x \in Worker, worker'[x].slot = SlotTaken PROVE x = w
            BY <1>1, <1>5, <2>2, <2>3, <4>2
      <4> QED BY <1>2, <1>3, <3>1, <4>1, <4>2
    <3>2. CASE v # w
      <4>1. worker'[v] = worker[v] /\ worker[v].slot \in Slot \ {SlotTaken}
            BY <1>5, <2>2, <2>3, <3>2 DEF TableIInv, WorkerInv, Handles
      <4>2. /\ table'[worker[v].slot] = table[worker[v].slot]
            /\ table[worker[v].slot].type # "UNUSED"
            BY <1>2, <2>3, <4>1 DEF TableIInv, WorkerInv, Unshared
      <4>3. ASSUME NEW x \in Worker, worker'[x].slot = worker'[v].slot PROVE x = v
        <5>1. x # w
              BY <1>4, <1>5, <4>1, <4>3
        <5>2. worker'[x] = worker[x]
              BY <1>5, <5>1
        <5> QED BY <2>3, <4>1, <4>3, <5>2 DEF TableIInv, WorkerInv, Unshared
      <4> QED BY <4>1, <4>2, <4>3
    <3> QED BY <3>1, <3>2
  <2> QED BY <1>1, <2>1, <2>3 DEF Unshared
<1> QED BY <1>2, <1>6, <1>7, <1>8 DEF TableIInv, WorkerInv

\* A stretch of a call of a worker, once there are connections
LEMMA CallKeeps ==
    ASSUME TableIInv, NEW w \in Worker, worker[w].task.pc # "free", Listening,
           UNCHANGED acceptor,
           NEW s, Steady(table[worker[w].slot], s), NEW o, UserStep(s, o),
           Run(worker[w].slot, o.sock),
           worker' = [worker EXCEPT ![w].task = o.task]
    PROVE  TableIInv'
<1> DEFINE i == worker[w].slot
           u == o.sock
<1>1. /\ i \in Slot /\ i # acceptor.listener
      /\ IsSock(table[i]) /\ table[i].state \in TcpState \ {"LISTEN"}
      /\ acceptor.pc = "setup" /\ i = acceptor.child => table[i].state = "CLOSED"
      BY OwnSlot
<1>2. /\ IsSock(u) /\ u.type = table[i].type
      /\ \/ u.state = table[i].state
         \/ table[i].state = "ESTABLISHED" /\ u.state = "FIN_WAIT_1"
         \/ table[i].state = "CLOSE_WAIT" /\ u.state = "LAST_ACK"
      BY DEF UserStep, Steady, Shift
<1>3. Run(i, u)
      OBVIOUS
<1>4. IsTask(o.task) /\ o.task.pc \in TaskPc
      BY DEF UserStep
<1> HIDE DEF u
<1>5. u.state \in TcpState \ {"LISTEN"}
      BY <1>1, <1>2 DEF TcpState
<1>6. acceptor.pc = "setup" /\ i = acceptor.child => u.state = "CLOSED"
      BY <1>1, <1>2
<1>7. TableInv'
      BY <1>1, <1>2, <1>3, <1>5, <1>6, RunElsewhere DEF TableIInv
<1>8. /\ DOMAIN worker' = Worker /\ DOMAIN worker'[w] = {"slot", "task"}
      /\ worker'[w].slot = i /\ worker'[w].task = o.task
      /\ \A v \in Worker \ {w} : worker'[v] = worker[v]
      BY DEF TableIInv, WorkerInv, Handles
<1>9. i # NoSlot
      BY DEF TableIInv, WorkerInv, Handles
<1> HIDE DEF i
<1>10. Handles'
       BY <1>1, <1>4, <1>8, <1>9 DEF TableIInv, WorkerInv, Handles
<1>11. Strangers'
       BY <1>1, <1>8 DEF TableIInv, WorkerInv, Strangers
<1>12. Unshared'
       BY DEF Unshared, Listening
<1> QED BY <1>7, <1>10, <1>11, <1>12 DEF TableIInv, WorkerInv

\* Tcp_Shutdown of a connection
LEMMA ShutdownKeeps ==
    ASSUME TableIInv, NEW w \in Worker, Shutdown(w)
    PROVE  TableIInv'
<1> DEFINE i == worker[w].slot
           o == Tcp_Shutdown(Ready(i), {"SD_SEND"})
<1>1. /\ worker[w].task.pc # "free" /\ UNCHANGED acceptor
      /\ table[i].state # "CLOSED"
      /\ Run(i, o.sock) /\ worker' = [worker EXCEPT ![w].task = o.task]
      BY DEF Shutdown
<1>2. i \in Slot /\ Listening
      BY <1>1, OwnSlot
<1>3. Steady(table[i], Ready(i)) /\ UserStep(Ready(i), o)
      BY <1>2, ReadySock, ShutdownStep DEF TableIInv
<1> HIDE DEF o
<1> QED BY <1>1, <1>2, <1>3, CallKeeps

\* A blocked call goes on.
LEMMA WorkerWakeKeeps ==
    ASSUME TableIInv, NEW w \in Worker, WorkerWake(w)
    PROVE  TableIInv'
<1> DEFINE i == worker[w].slot
           s == [Ready(i) EXCEPT !.event = FALSE]
           o == Resume(s, worker[w].task)
<1>1. /\ worker[w].task.pc \in Blocked /\ UNCHANGED acceptor
      /\ Run(i, o.sock) /\ worker' = [worker EXCEPT ![w].task = o.task]
      BY DEF WorkerWake
<1>2. worker[w].task.pc \notin {"free", "ready"}
      BY <1>1 DEF Blocked
<1>3. i \in Slot
      BY <1>2, OwnSlot
<1>4. Listening
      BY <1>2 DEF TableIInv, WorkerInv, Unshared
<1>5. Steady(table[i], s)
  <2>1. Steady(table[i], Ready(i)) /\ IsSock(Ready(i))
        BY <1>3, ReadySock DEF TableIInv
  <2>2. Steady(Ready(i), s)
        BY <2>1, OtherField DEF SockField
  <2> QED BY <2>1, <2>2, SteadyThen DEF Steady, Shift
<1>6. IsTask(worker[w].task)
      BY DEF TableIInv, WorkerInv, Handles
<1> HIDE DEF s
<1>7. UserStep(s, o)
      BY <1>1, <1>5, <1>6, ResumeStep DEF Steady, Shift
<1> HIDE DEF o
<1> QED BY <1>1, <1>2, <1>4, <1>5, <1>7, CallKeeps

\* Socket_Close by any handle
LEMMA CloseKeeps ==
    ASSUME TableIInv, NEW w \in Worker, Close(w)
    PROVE  TableIInv'
<1> DEFINE i == worker[w].slot
           s == Ready(i)
           u == Socket_Close(s)
<1>1. /\ worker[w].task.pc # "free" /\ acceptor' = acceptor
      /\ Run(i, u) /\ worker' = [worker EXCEPT ![w] = Idle]
      BY DEF Close
<1>2. /\ i \in Slot /\ i # acceptor.listener
      /\ IsSock(table[i]) /\ table[i].state \in TcpState \ {"LISTEN"}
      /\ ~Listening => table[i].state = "CLOSED"
      /\ acceptor.pc = "setup" /\ i = acceptor.child => table[i].state = "CLOSED"
      BY <1>1, OwnSlot
<1>3. IsSock(s) /\ s.type = table[i].type /\ s.state = table[i].state
      BY <1>2, ReadySock DEF TableIInv, Steady, Shift
<1> HIDE DEF s
<1>4. /\ IsSock(u) /\ u.state \in {s.state, "CLOSED"}
      /\ u.type = "STREAM" => s.type = "STREAM"
  <2>1. CASE s.type = "STREAM"
    <3>1. u = Tcp_Abort(s)
          BY <2>1 DEF Socket_Close
    <3> HIDE DEF u
    <3> QED BY <1>3, <2>1, <3>1, AbortStep DEF GivenBack
  <2>2. CASE s.type = "DGRAM"
    <3>1. u = [s EXCEPT !.type = "UNUSED"]
          BY <2>2 DEF Socket_Close
    <3> HIDE DEF u
    <3> QED BY <1>3, <3>1 DEF IsSock, SockField, Numeric
  <2>3. CASE s.type \notin {"STREAM", "DGRAM"}
        BY <1>3, <2>3 DEF Socket_Close
  <2> QED BY <2>1, <2>2, <2>3
<1> HIDE DEF u
<1>5. u.state \in TcpState \ {"LISTEN"}
      BY <1>2, <1>3, <1>4 DEF TcpState
<1>6. /\ ~Listening => u.state = "CLOSED"
      /\ acceptor.pc = "setup" /\ i = acceptor.child => u.state = "CLOSED"
      /\ u.type = "STREAM" => table[i].type = "STREAM"
      BY <1>2, <1>3, <1>4
<1> HIDE DEF i
<1>7. TableInv' /\ \A j \in Slot \ {i} : table'[j] = table[j]
      BY <1>1, <1>2, <1>4, <1>5, <1>6, RunElsewhere DEF TableIInv
<1>8. /\ DOMAIN Idle = {"slot", "task"} /\ Idle.slot = NoSlot
      /\ IsTask(Idle.task) /\ Idle.task.pc = "free"
      BY DEF Idle, NoTask, Returned, Call, IsTask
<1>9. DOMAIN worker' = Worker /\ worker'[w] = Idle
      /\ \A v \in Worker \ {w} : worker'[v] = worker[v]
      BY <1>1 DEF TableIInv, WorkerInv, Handles
<1>10. Handles'
       BY <1>8, <1>9 DEF TableIInv, WorkerInv, Handles, TaskPc
<1>11. Strangers'
  <2>1. acceptor.pc # "open" => acceptor.listener # NoSlot
        BY TableAssumption DEF TableIInv, TableInv, ListenerKept, Slot, NoSlot
  <2> QED BY <1>1, <1>8, <1>9, <2>1 DEF TableIInv, WorkerInv, Strangers
<1>12. Unshared'
  <2>1. ~Listening' => \A v \in Worker : worker'[v].task.pc \in {"free", "ready"}
        BY <1>1, <1>8, <1>9 DEF TableIInv, WorkerInv, Unshared, Listening
  <2>2. ASSUME acceptor.pc = "open", NEW v \in Worker, worker'[v].slot # NoSlot
        PROVE  /\ table'[worker'[v].slot].type # "UNUSED"
               /\ \A x \in Worker : worker'[x].slot = worker'[v].slot => x = v
    <3>1. v # w /\ worker'[v] = worker[v]
          BY <1>8, <1>9, <2>2
    <3>2. worker[v].slot # NoSlot /\ worker[v].slot \in Slot
          BY <2>2, <3>1 DEF TableIInv, WorkerInv, Handles
    <3>3. /\ table[worker[v].slot].type # "UNUSED"
          /\ \A x \in Worker : worker[x].slot = worker[v].slot => x = v
          BY <2>2, <3>2 DEF TableIInv, WorkerInv, Unshared
    <3>4. worker[v].slot \in Slot \ {i}
          BY <3>1, <3>2, <3>3 DEF i
    <3>5. ASSUME NEW x \in Worker, worker'[x].slot = worker'[v].slot PROVE x = v
          BY <1>8, <1>9, <2>2, <3>1, <3>3, <3>5
    <3> QED BY <1>7, <3>1, <3>3, <3>4, <3>5
  <2> QED BY <1>1, <2>1, <2>2 DEF Unshared
<1> QED BY <1>7, <1>10, <1>11, <1>12 DEF TableIInv, WorkerInv

----------------------------------------------------------------------------
(* The receive path and the timer task *)

\* An incoming segment goes to the socket with its remote end if there is one,
\* and otherwise to the listening socket.
LEMMA ReceiveKeeps ==
    ASSUME TableIInv, NEW c \in Client, Segment(c)
    PROVE  TableIInv'
<1> DEFINE i == Min(Matching(c))
           s == Ready(i)
<1>1. Matching(c) # {} /\ acceptor' = acceptor /\ UNCHANGED worker
      BY DEF Segment
<1>2. i \in Matching(c)
  <2>1. Matching(c) \in SUBSET Nat
        BY DEF Matching, Bound, Slot
  <2> QED BY <1>1, <2>1, MinIsMember
<1>3. PICK seg \in Segments(table[i], c) : Run(i, tcpProcessSegment(s, seg))
      BY DEF Segment
<1> HIDE DEF i
<1>4. /\ i \in Bound /\ i \in Slot
      /\ \/ addr[i].remote = c
         \/ /\ table[i].state = "LISTEN"
            /\ \A j \in Bound : addr[j].remote # c
      BY <1>2 DEF Matching, Bound
<1>5. /\ IsSock(table[i]) /\ table[i].state \in TcpState /\ table[i].type = "STREAM"
      BY <1>4 DEF TableIInv, TableInv, Rows, Bound
<1>6. /\ IsSock(s) /\ s.type = table[i].type /\ s.state = table[i].state
      BY <1>4, ReadySock DEF TableIInv, Steady, Shift
<1>7. /\ IsSeg(seg) /\ seg.src = c
      /\ "SYN" \in seg.flags => seg.seqNum = 0
  <2>1. PICK x \in {<<{"SYN"}, 0>>, <<{"ACK"}, table[i].rcvNxt>>, <<{"FIN", "ACK"}, 1>>}
                   \cup {<<{"RST"}, table[i].rcvNxt>> :
                            state \in ResetIn \cap {table[i].state}} :
            seg = [flags |-> x[1], seqNum |-> x[2], window |-> 1, data |-> <<>>,
                   src |-> c,
                   ackNum |-> IF "ACK" \in x[1] THEN table[i].sndNxt ELSE 0]
        BY DEF Segments
  <2>2. table[i].sndNxt \in Int
        BY <1>5 DEF IsSock, Numeric
  <2> QED BY <2>1, <2>2 DEF IsSeg
<1> DEFINE u == tcpProcessSegment(s, seg)
<1>8. Run(i, u)
      BY <1>3
<1>9. NoClient \notin Client
      BY TableAssumption
<1>10. CASE table[i].state = "LISTEN"
  <2>1. Listening /\ i = acceptor.listener /\ table[i] = Listener
        BY <1>4, <1>10 DEF TableIInv, TableInv, Early, Alone, Listener
  <2>2. acceptor.pc # "open"
        BY <2>1 DEF Listening
  <2>3. \A j \in Bound : addr[j].remote # c
        BY <1>4, <1>9, <2>1, <2>2 DEF TableIInv, TableInv, ListenerKept
  <2>4. /\ s.retransmitQueue = <<>> /\ s.wndProbeInterval = 0
        /\ s.synQueue = Listener.synQueue /\ s.synQueueSize = Listener.synQueueSize
        /\ s.event = Listener.event /\ s.eventMask = Listener.eventMask
        /\ Listener.synQueue \in Seq(QueueItem)
        /\ Listener.synQueueSize \in Nat \ {0}
        /\ Len(Listener.synQueue) <= Listener.synQueueSize
    <3>1. /\ s.retransmitQueue = table[i].retransmitQueue
          /\ s.wndProbeInterval = table[i].wndProbeInterval
          /\ s.synQueue = table[i].synQueue /\ s.synQueueSize = table[i].synQueueSize
          /\ s.event = table[i].event /\ s.eventMask = table[i].eventMask
          BY <1>5 DEF IsSock, SockField, Ready
    <3> HIDE DEF s
    <3> QED BY <2>1, <3>1, ListenerFacts DEF TableIInv
  <2> DEFINE item == [src |-> c, isn |-> seg.seqNum]
  <2> HIDE DEF s
  <2>5. /\ Attends(s, u)
        /\ \/ u.synQueue = Listener.synQueue /\ u.event = Listener.event
           \/ /\ u.synQueue = Append(Listener.synQueue, item)
              /\ Listener.synQueue = <<>> \/
                    Len(Listener.synQueue) < Listener.synQueueSize
              /\ \A m \in DOMAIN Listener.synQueue : Listener.synQueue[m].src # c
              /\ "RX_READY" \in Listener.eventMask => u.event
              /\ "SYN" \in seg.flags
        BY <1>6, <1>7, <1>10, <2>4, ListenStep
  <2> DEFINE r == Leave(u)
  <2> HIDE DEF u
  <2>6. /\ IsSock(u) /\ u.state = "LISTEN" /\ u.type = "STREAM"
        /\ u.retransmitQueue = <<>> /\ u.wndProbeInterval = 0
        /\ u.synQueueSize = Listener.synQueueSize
        /\ u.eventMask = Listener.eventMask
        BY <1>5, <1>6, <1>10, <2>4, <2>5 DEF Attends
  <2>7. /\ table' = [table EXCEPT ![acceptor.listener] = r] /\ SameAddr
        /\ IsSock(r) /\ r.type = "STREAM" /\ r.state = "LISTEN"
        /\ r.retransmitQueue = <<>> /\ r.wndProbeInterval = 0
        /\ r.synQueue = u.synQueue /\ r.synQueueSize = Listener.synQueueSize
        /\ r.event = u.event /\ r.eventMask = Listener.eventMask
        BY <1>8, <2>1, <2>2, <2>6, RunAtListener DEF TableIInv
  <2> HIDE DEF r
  <2>8. acceptor.child # acceptor.listener /\ Listening' /\ acceptor' \in AcceptorState
        BY <1>1, <2>1, <2>2 DEF TableIInv, TableInv, ListenerKept, Listening
  <2>9. /\ Rows' /\ ListenerKept' /\ Early' /\ Alone'
        /\ Bound' = Bound /\ Listener' = r
        /\ \A j \in Slot \ {acceptor.listener} : table'[j] = table[j]
        BY <1>1, <2>1, <2>7, <2>8, AtListener, ListenerFacts DEF TableIInv
  <2>10. ChildClosed'
    <3>1. acceptor.child \in Slot \cup {NoSlot}
          BY DEF TableIInv, TableInv, AcceptorState
    <3> QED BY <1>1, <2>7, <2>8, <2>9, <3>1
            DEF TableIInv, TableInv, ChildClosed, SameAddr
  <2>11. Asked'
        BY <1>1, <2>7, <2>9 DEF TableIInv, TableInv, Asked
  <2>12. WorkerInv'
        BY <1>1, <2>2, <2>8, SameWorkers DEF TableIInv
  <2>13. InQueue' /\ TakenItemStays' /\ AcceptorWoken' /\ Distinct'
    <3>1. CASE u.synQueue = Listener.synQueue /\ u.event = Listener.event
      <4>1. InQueue'
            BY <2>4, <2>7, <2>9, <3>1 DEF InQueue
      <4>2. TakenItemStays' /\ AcceptorWoken'
            BY <1>1, <2>7, <2>9, <3>1
            DEF TableIInv, TableInv, TakenItemStays, AcceptorWoken
      <4>3. Distinct'
            BY <2>1, <2>7, <2>9, <3>1, SameDistinct DEF TableIInv, TableInv
      <4> QED BY <4>1, <4>2, <4>3
    <3>2. CASE /\ u.synQueue = Append(Listener.synQueue, item)
               /\ Listener.synQueue = <<>> \/
                    Len(Listener.synQueue) < Listener.synQueueSize
               /\ \A m \in DOMAIN Listener.synQueue : Listener.synQueue[m].src # c
               /\ "RX_READY" \in Listener.eventMask => u.event
               /\ "SYN" \in seg.flags
      <4> DEFINE q == Listener.synQueue
                 t == Append(q, item)
      <4>1. item \in QueueItem /\ item.src = c
        <5>1. 0 \in SeqNum
              BY SizeAssumption DEF SeqNum
        <5> QED BY <1>7, <3>2, <5>1 DEF QueueItem
      <4> HIDE DEF item
      <4>2. q \in Seq(QueueItem)
            BY <2>4
      <4>3. Len(q) < Listener.synQueueSize
        <5>1. q = <<>> => Len(q) = 0
              OBVIOUS
        <5>2. Listener.synQueueSize \in Nat \ {0}
              BY <2>4
        <5> QED BY <3>2, <5>1, <5>2
      <4>4. Listener'.synQueue = t /\ Listener'.synQueueSize = Listener.synQueueSize
            BY <2>7, <2>9, <3>2
      <4> HIDE DEF q
      <4>5. /\ t \in Seq(QueueItem) /\ t # <<>>
            /\ Len(q) \in Nat /\ Len(t) = Len(q) + 1
            /\ DOMAIN t = DOMAIN q \cup {Len(q) + 1} /\ Len(q) + 1 \notin DOMAIN q
            /\ \A m \in DOMAIN q : t[m] = q[m]
            /\ t[Len(q) + 1] = item
            /\ q # <<>> => Head(t) = Head(q)
        <5>1. Len(q) \in Nat /\ DOMAIN q = 1 .. Len(q)
              BY <4>2
        <5>2. t \in Seq(QueueItem) /\ Len(t) = Len(q) + 1
              BY <4>1, <4>2
        <5>3. t # <<>>
              BY <4>2
        <5>4. DOMAIN t = 1 .. Len(q) + 1
              BY <5>2
        <5>5. DOMAIN t = DOMAIN q \cup {Len(q) + 1} /\ Len(q) + 1 \notin DOMAIN q
              BY <5>1, <5>4
        <5>6. \A m \in DOMAIN q : t[m] = q[m]
              BY <4>2, <5>1
        <5>7. t[Len(q) + 1] = item
              BY <4>2, <5>1
        <5>8. q # <<>> => Head(t) = Head(q)
              BY <4>1, <4>2, <5>1, <5>2, <5>6
        <5> QED BY <5>1, <5>2, <5>3, <5>5, <5>6, <5>7, <5>8
      <4> HIDE DEF t
      <4>6. InQueue'
        <5>1. Len(t) <= Listener.synQueueSize
          <6>1. Listener.synQueueSize \in Nat
                BY <2>4
          <6> QED BY <4>3, <4>5, <6>1
        <5> QED BY <2>4, <4>4, <4>5, <5>1 DEF InQueue
      <4>7. TakenItemStays'
            BY <1>1, <4>4, <4>5 DEF TableIInv, TableInv, TakenItemStays, q
      <4>8. AcceptorWoken'
            BY <1>1, <2>7, <2>9, <3>2 DEF TableIInv, TableInv, Asked, AcceptorWoken
      <4>9. \A m \in DOMAIN q : q[m].src # c
            BY <3>2 DEF q
      <4>10. /\ \A j, n \in Bound : addr[j].remote \in Client
                    /\ addr[j].remote = addr[n].remote => j = n
             /\ \A m \in DOMAIN q, j \in Bound : addr[j].remote # q[m].src
             /\ \A m, n \in DOMAIN q : q[m].src = q[n].src => m = n
            BY <2>1 DEF TableIInv, TableInv, Distinct, q
      <4>11. \A j \in Bound : addr'[j] = addr[j]
            BY <2>7 DEF SameAddr, Bound
      <4>12. Distinct'
        <5>1. \A j, n \in Bound' : addr'[j].remote \in Client
                    /\ addr'[j].remote = addr'[n].remote => j = n
              BY <2>9, <4>10, <4>11
        <5>2. ASSUME NEW m \in DOMAIN t
              PROVE  /\ \A j \in Bound' : addr'[j].remote # t[m].src
                     /\ \A n \in DOMAIN t : t[m].src = t[n].src => m = n
          <6>1. CASE m \in DOMAIN q
                BY <2>9, <4>1, <4>5, <4>9, <4>10, <4>11, <6>1
          <6>2. CASE m = Len(q) + 1
                BY <2>3, <2>9, <4>1, <4>5, <4>9, <4>11, <6>2
          <6> QED BY <4>5, <6>1, <6>2
        <5> QED BY <4>4, <5>1, <5>2 DEF Distinct
      <4> QED BY <4>6, <4>7, <4>8, <4>12
    <3> QED BY <2>5, <3>1, <3>2
  <2> QED BY <2>8, <2>9, <2>10, <2>11, <2>12, <2>13 DEF TableIInv, TableInv
<1>11. CASE table[i].state # "LISTEN"
  <2>1. addr[i].remote = c
        BY <1>4, <1>11
  <2>2. Listening
        BY <1>4, <1>9, <2>1 DEF TableIInv, TableInv, Early
  <2>3. acceptor.pc # "open"
        BY <2>2 DEF Listening
  <2>4. i # acceptor.listener
        BY <1>9, <2>1, <2>3 DEF TableIInv, TableInv, ListenerKept
  <2> HIDE DEF s
  <2>5. LET t == tcpProcessSegment(s, seg)
        IN  \/ Steady(s, t)
            \/ s.state # "CLOSED" /\ Ends(s, t)
            \/ s.state = "TIME_WAIT" /\ ~s.ownedFlag /\ GivenBack(s, t)
            \/ \E new \in TcpState : <<s.state, new>> \in Advances
                                     /\ Shift(s, t, new)
        BY <1>5, <1>6, <1>7, <1>11, SegmentStep
  <2> HIDE DEF u
  <2>6. /\ IsSock(u) /\ u.state \in TcpState \ {"LISTEN"}
        /\ u.type \in {"STREAM", "UNUSED"}
        /\ s.state = "CLOSED" => u.state = "CLOSED"
    <3>1. CASE Steady(s, u)
          BY <1>5, <1>6, <1>11, <3>1 DEF Steady, Shift
    <3>2. CASE s.state # "CLOSED" /\ Ends(s, u)
          BY <1>5, <1>6, <3>2 DEF Ends, TcpState
    <3>3. CASE s.state = "TIME_WAIT" /\ ~s.ownedFlag /\ GivenBack(s, u)
          BY <3>3 DEF GivenBack, TcpState
    <3>4. CASE \E new \in TcpState : <<s.state, new>> \in Advances
                                     /\ Shift(s, u, new)
      <4>1. PICK new \in TcpState : <<s.state, new>> \in Advances /\ Shift(s, u, new)
            BY <3>4
      <4>2. new # "LISTEN" /\ s.state # "CLOSED"
            BY <4>1 DEF Advances
      <4> QED BY <1>5, <1>6, <4>1, <4>2 DEF Shift
    <3> QED BY <2>5, <3>1, <3>2, <3>3, <3>4 DEF u
  <2>7. acceptor.pc = "setup" /\ i = acceptor.child => u.state = "CLOSED"
    <3>1. NoSlot \notin Slot
          BY TableAssumption DEF Slot, NoSlot
    <3> QED BY <1>4, <1>6, <2>6, <3>1 DEF TableIInv, TableInv, ChildClosed
  <2>8. TableInv'
        BY <1>1, <1>4, <1>5, <1>8, <2>2, <2>4, <2>6, <2>7, RunElsewhere DEF TableIInv
  <2>9. WorkerInv'
    <3>1. Listening'
          BY <1>1, <2>2 DEF Listening
    <3> QED BY <1>1, <2>3, <3>1, SameWorkers DEF TableIInv
  <2> QED BY <2>8, <2>9 DEF TableIInv
<1> QED BY <1>10, <1>11

\* The timer handler finds nothing to do on the listening socket.
LEMMA TickKeeps ==
    ASSUME TableIInv, NEW i \in Slot, Tick(i)
    PROVE  TableIInv'
<1> DEFINE s == Ready(i)
<1>1. /\ table[i].type = "STREAM" /\ acceptor' = acceptor /\ UNCHANGED worker
      BY DEF Tick
<1>2. PICK elapsed \in (SUBSET (WatchedTimers(table[i]) \cap Timers)) \ {{}} :
        Run(i, tcpTick(s, elapsed))
      BY DEF Tick
<1>3. PICK timer \in WatchedTimers(table[i]) : TRUE
  <2>1. elapsed # {} /\ elapsed \subseteq WatchedTimers(table[i])
        OBVIOUS
  <2> QED BY <2>1
<1>4. /\ IsSock(table[i]) /\ table[i].state \in TcpState
      BY DEF TableIInv, TableInv, Rows
<1>5. /\ IsSock(s) /\ s.type = table[i].type /\ s.state = table[i].state
      BY ReadySock DEF TableIInv, Steady, Shift
<1> HIDE DEF s
<1>6. table[i].state # "CLOSED"
      BY <1>3 DEF WatchedTimers
<1>7. Listening
      BY <1>6 DEF TableIInv, TableInv, Early
<1>8. acceptor.pc # "open"
      BY <1>7 DEF Listening
<1>9. i # acceptor.listener
  <2> SUFFICES ASSUME i = acceptor.listener PROVE FALSE
      OBVIOUS
  <2>1. /\ table[i].state = "LISTEN" /\ table[i].retransmitQueue = <<>>
        /\ table[i].wndProbeInterval = 0
        BY <1>7, ListenerFacts DEF TableIInv, Listener
  <2> QED BY <1>3, <2>1 DEF WatchedTimers, RunningTimers, TcpTimerName
<1>10. table[i].state # "LISTEN"
      BY <1>9 DEF TableIInv, TableInv, Alone
<1> DEFINE u == tcpTick(s, elapsed)
<1>11. \/ Steady(s, u) \/ Ends(s, u)
       \/ s.state = "TIME_WAIT" /\ ~s.ownedFlag /\ GivenBack(s, u)
      BY <1>5, <1>6, TimerStep
<1>12. Run(i, u)
      BY <1>2
<1> HIDE DEF u
<1>13. /\ IsSock(u) /\ u.state \in TcpState \ {"LISTEN"}
      BY <1>4, <1>5, <1>10, <1>11 DEF Steady, Shift, Ends, GivenBack, TcpState
<1>14. ~(acceptor.pc = "setup" /\ i = acceptor.child)
  <2>1. NoSlot \notin Slot
        BY TableAssumption DEF Slot, NoSlot
  <2> QED BY <1>6, <2>1 DEF TableIInv, TableInv, ChildClosed
<1>15. TableInv'
      BY <1>1, <1>7, <1>9, <1>12, <1>13, <1>14, RunElsewhere DEF TableIInv
<1>16. WorkerInv'
  <2>1. Listening'
        BY <1>1, <1>7 DEF Listening
  <2> QED BY <1>1, <1>8, <2>1, SameWorkers DEF TableIInv
<1> QED BY <1>15, <1>16 DEF TableIInv

----------------------------------------------------------------------------
(* The theorems *)

\* An unused slot is a socket that is closed.
LEMMA UnusedSock ==
    IsSock(UnusedSocket) /\ UnusedSocket.state = "CLOSED"
    /\ UnusedSocket.type = "UNUSED"
BY DEF UnusedSocket, IsSock, SockField, Numeric

\* The table starts with free slots and those of tasks outside the model.
LEMMA TableStarts == Init => TableIInv
<1> SUFFICES ASSUME Init PROVE TableIInv
    OBVIOUS
<1>1. \A i \in Slot :
        /\ table[i] \in {OpenAs(UnusedSocket, "DGRAM"), UnusedSocket}
        /\ addr[i] \in {NewAddr, NoAddr}
      BY DEF Init
<1>2. \A t \in {OpenAs(UnusedSocket, "DGRAM"), UnusedSocket} :
        IsSock(t) /\ t.state = "CLOSED"
      BY UnusedSock, OpenAsStep
<1>3. \A a \in {NewAddr, NoAddr} : a \in Address /\ a.remote = NoClient
                                   /\ a.localPort # "server"
      BY DEF NewAddr, NoAddr, Address
<1>4. DOMAIN table = Slot /\ DOMAIN addr = Slot
      BY DEF Init
<1>5. Rows
      BY <1>1, <1>2, <1>3, <1>4 DEF Rows, TcpState
<1>6. /\ acceptor \in AcceptorState /\ acceptor.pc = "open"
      /\ acceptor.listener = NoSlot /\ acceptor.child = NoSlot
      BY DEF Init, AcceptorState
<1>7. ~Listening
      BY <1>6 DEF Listening
<1>8. ListenerKept /\ Early /\ Alone /\ InQueue /\ ChildClosed /\ Asked
      /\ TakenItemStays /\ AcceptorWoken
      BY <1>1, <1>2, <1>3, <1>6, <1>7
      DEF ListenerKept, Early, Alone, InQueue, ChildClosed, Asked,
          TakenItemStays, AcceptorWoken
<1>9. Distinct
      BY <1>1, <1>3, <1>7 DEF Distinct, Bound
<1>10. WorkerInv
  <2>1. /\ DOMAIN Idle = {"slot", "task"} /\ Idle.slot = NoSlot
        /\ IsTask(Idle.task) /\ Idle.task.pc = "free"
        BY DEF Idle, NoTask, Returned, Call, IsTask
  <2>2. DOMAIN worker = Worker /\ \A w \in Worker : worker[w] = Idle
        BY DEF Init
  <2> QED BY <1>6, <2>1, <2>2
          DEF WorkerInv, Handles, Strangers, Unshared, TaskPc
<1> QED BY <1>5, <1>6, <1>8, <1>9, <1>10 DEF TableIInv, TableInv

\* Every action keeps the invariant.
LEMMA TableKeeps == TableIInv /\ [Next]_vars => TableIInv'
<1> SUFFICES ASSUME TableIInv, [Next]_vars PROVE TableIInv'
    OBVIOUS
<1>1. CASE OpenListener BY <1>1, OpenListenerKeeps
<1>2. CASE Bind BY <1>2, BindKeeps
<1>3. CASE Listen BY <1>3, ListenKeeps
<1>4. CASE Accept BY <1>4, AcceptKeeps
<1>5. CASE AcceptWake BY <1>5, AcceptWakeKeeps
<1>6. CASE AcceptOpen BY <1>6, AcceptOpenKeeps
<1>7. CASE \E f \in TxFault : AcceptFinish(f) BY <1>7, AcceptFinishKeeps
<1>8. ASSUME NEW w \in Worker, HandOver(w) PROVE TableIInv'
      BY <1>8, HandOverKeeps
<1>9. ASSUME NEW w \in Worker, NEW type \in OpenTypes, WorkerOpen(w, type)
      PROVE  TableIInv'
      BY <1>9, WorkerOpenKeeps
<1>10. ASSUME NEW w \in Worker, Shutdown(w) PROVE TableIInv'
      BY <1>10, ShutdownKeeps
<1>11. ASSUME NEW w \in Worker, WorkerWake(w) PROVE TableIInv'
      BY <1>11, WorkerWakeKeeps
<1>12. ASSUME NEW w \in Worker, Close(w) PROVE TableIInv'
      BY <1>12, CloseKeeps
<1>13. ASSUME NEW c \in Client, Segment(c) PROVE TableIInv'
      BY <1>13, ReceiveKeeps
<1>14. ASSUME NEW i \in Slot, Tick(i) PROVE TableIInv'
      BY <1>14, TickKeeps
<1>15. CASE UNCHANGED vars
  <2>1. TableInv'
        BY <1>15
        DEF vars, TableIInv, TableInv, Rows, ListenerKept, Early, Alone, InQueue,
            ChildClosed, Asked, TakenItemStays, AcceptorWoken, Distinct,
            Listening, Listener, Bound
  <2>2. WorkerInv'
        BY <1>15 DEF vars, TableIInv, WorkerInv, Handles, Strangers, Unshared,
                     Listening
  <2> QED BY <2>1, <2>2 DEF TableIInv
<1> QED BY <1>1, <1>2, <1>3, <1>4, <1>5, <1>6, <1>7, <1>8, <1>9, <1>10, <1>11,
           <1>12, <1>13, <1>14, <1>15 DEF Next

\* The inductive invariant of the socket table holds throughout.
THEOREM TableInvariant == Spec => []TableIInv
BY TableStarts, TableKeeps, PTL DEF Spec

\* Socket_Listen's limit on the SYN queue is respected (tcpStateListen), and no
\* eviction and no stale handle reaches the listening socket.
THEOREM ListenerAlwaysListens == Spec => []TypeOK
<1>1. TableIInv => TypeOK
  <2> SUFFICES ASSUME TableIInv PROVE TypeOK
      OBVIOUS
  <2>1. acceptor \in AcceptorState
        BY DEF TableIInv, TableInv
  <2>2. \A i \in Slot : addr[i].remote \in Client \cup {NoClient}
        BY DEF TableIInv, TableInv, Rows, Address
  <2>3. Listening => /\ Listener.type = "STREAM" /\ Listener.state = "LISTEN"
                     /\ Len(Listener.synQueue) <= Listener.synQueueSize
        BY ListenerFacts DEF TableIInv
  <2> QED BY <2>1, <2>2, <2>3 DEF TypeOK
<1> QED BY <1>1, TableInvariant, PTL

\* While Tcp_Accept has given the mutex up to open a socket, the item it points
\* to stays the head of the queue.
THEOREM TakenItemAlwaysStays == Spec => []TakenItemStays
<1>1. TableIInv => TakenItemStays
      BY DEF TableIInv, TableInv
<1> QED BY <1>1, TableInvariant, PTL

\* A task that waits in Tcp_Accept has been signaled if a SYN is queued.
THEOREM AcceptorAlwaysWoken == Spec => []AcceptorWoken
<1>1. TableIInv => AcceptorWoken
      BY DEF TableIInv, TableInv
<1> QED BY <1>1, TableInvariant, PTL

\* A set whose members are all equal has at most one of them.
LEMMA AtMostOne ==
    ASSUME NEW S, \A x, y \in S : x = y
    PROVE  /\ Cardinality(S) \in {0, 1}
           /\ S = {} => Cardinality(S) = 0
<1>1. CASE S = {}
      BY <1>1, FS_EmptySet
<1>2. CASE S # {}
  <2>1. PICK x \in S : TRUE
        BY <1>2
  <2>2. S = {x}
        BY <2>1
  <2> QED BY <1>2, <2>2, FS_Singleton
<1> QED BY <1>1, <1>2

\* However often a SYN is repeated, and whatever happens between the critical
\* sections of Tcp_Accept, a client is queued or connected once at most.
THEOREM AlwaysOneConnectionPerClient == Spec => []OneConnectionPerClient
<1>1. TableIInv => OneConnectionPerClient
  <2> SUFFICES ASSUME TableIInv, Listening, NEW c \in Client
               PROVE  Cardinality({i \in Bound : addr[i].remote = c}) +
                      Cardinality({i \in DOMAIN Listener.synQueue :
                                    Listener.synQueue[i].src = c}) <= 1
      BY DEF OneConnectionPerClient
  <2> DEFINE A == {i \in Bound : addr[i].remote = c}
             B == {i \in DOMAIN Listener.synQueue : Listener.synQueue[i].src = c}
  <2>1. Distinct
        BY DEF TableIInv, TableInv
  <2>2. \A x, y \in A : x = y
        BY <2>1 DEF Distinct
  <2>3. \A x, y \in B : x = y
        BY <2>1 DEF Distinct
  <2>4. A = {} \/ B = {}
        BY <2>1 DEF Distinct
  <2> HIDE DEF A, B
  <2>5. /\ Cardinality(A) \in {0, 1} /\ Cardinality(B) \in {0, 1}
        /\ A = {} => Cardinality(A) = 0
        /\ B = {} => Cardinality(B) = 0
        BY <2>2, <2>3, AtMostOne
  <2>6. Cardinality(A) + Cardinality(B) <= 1
        BY <2>4, <2>5
  <2> QED BY <2>6 DEF A, B
<1> QED BY <1>1, TableInvariant, PTL

============================================================================
