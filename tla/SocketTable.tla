---------------------------- MODULE SocketTable ----------------------------
(***************************************************************************)
(* The socket table and the tasks that share it: an acceptor that listens  *)
(* on a port and calls Tcp_Accept in a loop, workers that get the accepted *)
(* sockets or open their own, the receive path that finds the socket a     *)
(* segment is for, and the timer task.  Every action is one critical       *)
(* section under the network mutex; Tcp_Accept has up to four of them, and *)
(* anything may happen in between.                                         *)
(***************************************************************************)
EXTENDS TcpInterface, FiniteSetsExt

CONSTANTS
    SlotCount,  \* SOCKET_MAX_COUNT
    Worker,     \* tasks that use connections
    Others,     \* how many slots tasks outside the model may hold for good
    NoClient,   \* the remote address of a socket that has none
    Backlog,    \* what the acceptor passes to Socket_Listen
    ResetIn,    \* states of a connection in which a client may reset it
    Timers,     \* timers that may elapse
    OpenTypes,  \* socket types the workers open themselves
    TxFault     \* [txRoom, fault] pairs: how memory and the IP layer behave

ASSUME TableAssumption ==
    /\ SlotCount \in Nat \ {0} /\ NoClient \notin Client
    /\ Backlog \in Nat /\ Others \subseteq Nat
    /\ Timers \subseteq TcpTimerName /\ ResetIn \subseteq TcpState
    /\ OpenTypes \subseteq {"STREAM", "DGRAM"}
    /\ TxFault \subseteq [txRoom : Nat,
                          fault : {"noMemory", "notSent", "noBuffer"}]

Slot == 1 .. SlotCount

NoSlot == 0

VARIABLES
    table,    \* socketTable
    addr,     \* the local port and the remote end of each socket
    others,   \* the slots that tasks outside the model hold
    older,    \* pairs of slots in TIME-WAIT: the 2MSL timer of the first one
              \* started earlier
    acceptor, \* where the acceptor is, its socket, the item and socket at hand
    worker    \* worker[w]: the handle of w and its call

vars == <<table, addr, others, older, acceptor, worker>>

Idle == [slot |-> NoSlot, task |-> NoTask]

\* The local port is an ephemeral one or the server's; remote stands for
\* S_Remote_Ip_Addr and S_Remote_Port.
NoAddr == [localPort |-> "none", remote |-> NoClient]

NewAddr == [localPort |-> "ephemeral", remote |-> NoClient]

AcceptorState ==
    [pc : {"open", "bind", "listen", "idle", "wait", "gap", "setup"},
     listener : Slot \cup {NoSlot}, child : Slot \cup {NoSlot},
     item : [src : Client, isn : SeqNum] \cup {NoClient}]

----------------------------------------------------------------------------
(* Socket_Open *)

Unused == {i \in Slot : table[i].type = "UNUSED"}

Lingers(s) == s.type = "STREAM" /\ s.state = "TIME_WAIT"

InTimeWait == {i \in Slot : Lingers(table[i])}

\* Tcp_Kill_Oldest_Connection looks for the earliest start time.
OldestInTimeWait ==
    {i \in InTimeWait : \A j \in InTimeWait \ {i} : <<i, j>> \in older}

\* Mutant: in a full table without TIME-WAIT the first slot is taken.
SlotTaken_Any == Min(IF Unused # {} THEN Unused ELSE Slot)

\* The slot Socket_Open takes, if there is one
SlotTaken ==
    IF Unused # {} THEN Min(Unused)
    ELSE IF OldestInTimeWait # {} THEN CHOOSE i \in OldestInTimeWait : TRUE
    ELSE NoSlot

OpenAs(s, type) ==
    [Socket_Open(IF s.type = "UNUSED" THEN s ELSE Tcp_Kill_Oldest_Connection(s))
        EXCEPT !.type = type]

\* The table becomes t and the addresses a; at most one 2MSL timer starts, and
\* is the youngest.
SetTable(t, a) ==
    /\ table' = t /\ addr' = a /\ UNCHANGED others
    /\ older' = {p \in Slot \X Slot :
                    /\ Lingers(table'[p[1]]) /\ Lingers(table'[p[2]])
                    /\ \/ p \in older
                       \/ p[1] \in InTimeWait /\ p[2] \notin InTimeWait}

\* Slot i is opened; nothing happens when no slot is left.
TakeSlot(i, type) ==
    IF i = NoSlot THEN UNCHANGED <<table, addr, others, older>>
    ELSE SetTable([table EXCEPT ![i] = OpenAs(@, type)],
                  [addr EXCEPT ![i] = NewAddr])

\* A slot that is given back
Vacant(s) == s.type = "UNUSED" /\ s.state = "CLOSED"

\* The end of a critical section on a socket.  In a slot that is given back only
\* what an old handle may still read is kept: Socket_Open sets the rest anew.
Leave(s) ==
    IF ~Vacant(s) THEN Settle(s)
    ELSE [Socket_Open(Settle(s)) EXCEPT
            !.type = "UNUSED", !.resetFlag = s.resetFlag,
            !.eventMask = s.eventMask, !.eventFlags = s.eventFlags]

LeaveAddr(s, a) == IF Vacant(s) THEN NoAddr ELSE a

\* A critical section on slot i ends with the socket s.
Run(i, s) ==
    \E u \in {s} : SetTable([table EXCEPT ![i] = Leave(u)],
                            [addr EXCEPT ![i] = LeaveAddr(u, @)])

\* Memory and the IP layer during a section: only Tcp_Accept meets failures
\* here (TcpEndpoint has them everywhere).
Under(f, i) == [table[i] EXCEPT !.txRoom = f.txRoom, !.fault = f.fault]

Ready(i) == [table[i] EXCEPT !.txRoom = TxBufferSize + 4]

Init ==
    /\ others \in {1 .. n : n \in Others}
    /\ table = [i \in Slot |-> IF i \in others THEN OpenAs(UnusedSocket, "DGRAM")
                               ELSE UnusedSocket]
    /\ addr = [i \in Slot |-> IF i \in others THEN NewAddr ELSE NoAddr]
    /\ older = {}
    /\ acceptor = [pc |-> "open", listener |-> NoSlot, item |-> NoClient,
                   child |-> NoSlot]
    /\ worker = [w \in Worker |-> Idle]

----------------------------------------------------------------------------
(* The acceptor *)

Listener == table[acceptor.listener]

OpenListener ==
    /\ acceptor.pc = "open" /\ SlotTaken # NoSlot
    /\ TakeSlot(SlotTaken, "STREAM")
    /\ acceptor' = [acceptor EXCEPT !.pc = "bind", !.listener = SlotTaken]
    /\ UNCHANGED worker

\* Socket_Bind does not take the mutex.
Bind ==
    /\ acceptor.pc = "bind"
    /\ addr' = [addr EXCEPT ![acceptor.listener].localPort = "server"]
    /\ acceptor' = [acceptor EXCEPT !.pc = "listen"]
    /\ UNCHANGED <<table, others, older, worker>>

Listen ==
    /\ acceptor.pc = "listen"
    /\ Run(acceptor.listener, Tcp_Listen(Listener, Backlog))
    /\ acceptor' = [acceptor EXCEPT !.pc = "idle"]
    /\ UNCHANGED worker

\* The top of the loop: with an empty queue the acceptor waits, otherwise it
\* points to the first item and gives the mutex up for Socket_Open.
LoopTop(s) ==
    IF s.synQueue = <<>>
    THEN [acceptor EXCEPT !.pc = "wait", !.item = NoClient, !.child = NoSlot]
    ELSE [acceptor EXCEPT !.pc = "gap", !.item = Head(s.synQueue),
                          !.child = NoSlot]

\* Mutant: the wait does not say which event it is for.
WaitForSyn_NoMask(s) ==
    IF s.synQueue = <<>> THEN [s EXCEPT !.event = FALSE] ELSE s

\* The events of the listening socket when the loop starts over
WaitForSyn(s) ==
    IF s.synQueue = <<>>
    THEN [s EXCEPT !.eventMask = {"RX_READY"}, !.event = FALSE]
    ELSE s

Accept ==
    /\ acceptor.pc = "idle" /\ acceptor.child = NoSlot
    /\ Run(acceptor.listener, WaitForSyn(Listener))
    /\ acceptor' = LoopTop(Listener)
    /\ UNCHANGED worker

\* Os_Wait_For_Event returns (the timeout of a listening socket is infinite
\* unless the user has set one).
AcceptWake ==
    /\ acceptor.pc = "wait" /\ Listener.event
    /\ Run(acceptor.listener, [Listener EXCEPT !.event = FALSE])
    /\ acceptor' = IF Listener.synQueue = <<>>
                   THEN [acceptor EXCEPT !.pc = "idle"]
                   ELSE LoopTop(Listener)
    /\ UNCHANGED worker

\* Mutant: the item is removed before the mutex is given up.
AcceptOpen_Removes ==
    /\ acceptor.pc = "gap"
    /\ SlotTaken # NoSlot
    /\ SetTable([table EXCEPT ![SlotTaken] = OpenAs(@, "STREAM"),
                              ![acceptor.listener].synQueue = Tail(@)],
                [addr EXCEPT ![SlotTaken] = NewAddr])
    /\ acceptor' = [acceptor EXCEPT !.pc = "setup", !.child = SlotTaken]
    /\ UNCHANGED worker

\* Socket_Open, in a critical section of its own
AcceptOpen ==
    /\ acceptor.pc = "gap"
    /\ TakeSlot(SlotTaken, "STREAM")
    /\ acceptor' = [acceptor EXCEPT !.pc = "setup", !.child = SlotTaken]
    /\ UNCHANGED worker

Addressed ==
    [localPort |-> addr[acceptor.listener].localPort, remote |-> acceptor.item.src]

\* The critical section ends with the new socket c, if there is one, and the
\* listening socket l.
SetChild(c, l) ==
    LET k == acceptor.child
        t == IF k = NoSlot THEN table ELSE [table EXCEPT ![k] = Leave(c)]
        a == IF k = NoSlot THEN addr
             ELSE [addr EXCEPT ![k] = LeaveAddr(c, Addressed)]
    IN  SetTable([t EXCEPT ![acceptor.listener] = l], a)

\* No socket, no buffer or no SYN ACK sent: the item is dropped, and the loop
\* starts over.
Refuse(c, l) ==
    /\ SetChild(c, WaitForSyn(l))
    /\ acceptor' = LoopTop(l)
    /\ UNCHANGED worker

\* Tcp_Accept returns the new socket.
Establish(c, l) ==
    /\ SetChild(c, tcpUpdateEvents(l))
    /\ acceptor' = [acceptor EXCEPT !.pc = "idle", !.item = NoClient]
    /\ UNCHANGED worker

\* The rest of Tcp_Accept, with the mutex held again
AcceptFinish(f) ==
    /\ acceptor.pc = "setup"
    /\ LET k == acceptor.child
           l == [Listener EXCEPT !.synQueue = Tail(@)]
       IN  \E c \in {IF k = NoSlot THEN UnusedSocket
                     ELSE AcceptChild(Under(f, k), acceptor.item.isn, 0)} :
            IF c.state = "SYN_RECEIVED" THEN Establish(c, l) ELSE Refuse(c, l)

----------------------------------------------------------------------------
(* The workers *)

\* The acceptor passes the accepted socket on.
HandOver(w) ==
    /\ acceptor.pc = "idle" /\ acceptor.child # NoSlot /\ worker[w] = Idle
    /\ worker' = [worker EXCEPT ![w] =
                    [slot |-> acceptor.child, task |-> Returned("NO_ERROR")]]
    /\ acceptor' = [acceptor EXCEPT !.child = NoSlot]
    /\ UNCHANGED <<table, addr, others, older>>

WorkerOpen(w, type) ==
    /\ worker[w] = Idle /\ SlotTaken # NoSlot
    /\ TakeSlot(SlotTaken, type)
    /\ worker' = [worker EXCEPT ![w] =
                    [slot |-> SlotTaken, task |-> Returned("NO_ERROR")]]
    /\ UNCHANGED acceptor

Shutdown(w) ==
    /\ worker[w].task.pc = "ready"
    /\ LET i == worker[w].slot
       IN  /\ table[i].state \in {"ESTABLISHED", "CLOSE_WAIT"}
           /\ \E o \in {Tcp_Shutdown(Ready(i), {"SD_SEND"})} :
                /\ Run(i, o.sock)
                /\ worker' = [worker EXCEPT ![w].task = o.task]
    /\ UNCHANGED acceptor

WorkerWake(w) ==
    /\ worker[w].task.pc \in Blocked
    /\ LET i == worker[w].slot
       IN  /\ table[i].event
           /\ \E o \in {Resume([Ready(i) EXCEPT !.event = FALSE],
                              worker[w].task)} :
                /\ Run(i, o.sock)
                /\ worker' = [worker EXCEPT ![w].task = o.task]
    /\ UNCHANGED acceptor

\* Socket_Close by a handle, which may have been overtaken by an eviction
Socket_Close(s) ==
    CASE s.type = "STREAM" -> Tcp_Abort(s)
      [] s.type = "DGRAM" -> [s EXCEPT !.type = "UNUSED"]
      [] OTHER -> s

Close(w) ==
    /\ worker[w].task.pc = "ready"
    /\ Run(worker[w].slot, Socket_Close(Ready(worker[w].slot)))
    /\ worker' = [worker EXCEPT ![w] = Idle]
    /\ UNCHANGED acceptor

----------------------------------------------------------------------------
(* The receive path and the timer *)

\* The sockets bound to the server's port
Bound == {i \in Slot : table[i].type = "STREAM" /\ addr[i].localPort = "server"}

\* Mutant: a listening socket is preferred for a SYN that may be new.
Matching_ListenFirst(c) ==
    LET listening == {i \in Bound : table[i].state = "LISTEN"}
    IN  IF listening # {} THEN listening ELSE {i \in Bound : addr[i].remote = c}

\* The candidates for a segment of client c: a socket with that remote end,
\* in whatever state, else one that listens (its remote port is 0)
Matching(c) ==
    LET own == {i \in Bound : addr[i].remote = c}
    IN  IF own # {} THEN own ELSE {i \in Bound : table[i].state = "LISTEN"}

\* The segments client c may send to a connection without data, in any order
\* and any number of times; its initial sequence number is always 0.
Segments(s, c) ==
    {[flags |-> x[1], seqNum |-> x[2], window |-> 1, data |-> <<>>, src |-> c,
      ackNum |-> IF "ACK" \in x[1] THEN s.sndNxt ELSE 0] :
        x \in {<<{"SYN"}, 0>>, <<{"ACK"}, s.rcvNxt>>, <<{"FIN", "ACK"}, 1>>}
              \cup {<<{"RST"}, s.rcvNxt>> : state \in ResetIn \cap {s.state}}}

Segment(c) ==
    /\ Matching(c) # {}
    /\ LET i == Min(Matching(c))
       IN  \E seg \in Segments(table[i], c) :
            Run(i, tcpProcessSegment(Ready(i), seg))
    /\ UNCHANGED <<acceptor, worker>>

Tick(i) ==
    /\ table[i].type = "STREAM"
    /\ \E elapsed \in (SUBSET (WatchedTimers(table[i]) \cap Timers)) \ {{}} :
        Run(i, tcpTick(Ready(i), elapsed))
    /\ UNCHANGED <<acceptor, worker>>

Next ==
    \/ OpenListener \/ Bind \/ Listen \/ Accept \/ AcceptWake \/ AcceptOpen
    \/ \E f \in TxFault : AcceptFinish(f)
    \/ \E w \in Worker :
        \/ HandOver(w)
        \/ \E type \in OpenTypes : WorkerOpen(w, type)
        \/ Shutdown(w) \/ WorkerWake(w) \/ Close(w)
    \/ \E c \in Client : Segment(c)
    \/ \E i \in Slot : Tick(i)

Spec == Init /\ [][Next]_vars

\* The acceptor is ready, or waits for an event that is signaled.
Runnable ==
    acceptor.pc \in {"gap", "setup"} \/ (acceptor.pc = "wait" /\ Listener.event)

\* A runnable task gets the processor: AcceptWake, AcceptOpen or
\* AcceptFinish is then enabled, and no other action moves the acceptor.
FairSpec == Spec /\ WF_acceptor(Runnable /\ acceptor' \in AcceptorState)

----------------------------------------------------------------------------
(* Properties *)

Listening == acceptor.pc \in {"idle", "wait", "gap", "setup"}

Queued(c) ==
    Listening /\ \E i \in DOMAIN Listener.synQueue : Listener.synQueue[i].src = c

\* Tcp_Accept has been called and has not returned.
Accepting == acceptor.pc \in {"wait", "gap", "setup"}

\* The acceptor, its listening socket and the SYN queue are in range: the
\* queue never holds more than Socket_Listen has asked for.
TypeOK ==
    /\ acceptor \in AcceptorState
    /\ \A i \in Slot : addr[i].remote \in Client \cup {NoClient}
    /\ Listening =>
        /\ Listener.type = "STREAM" /\ Listener.state = "LISTEN"
        /\ Len(Listener.synQueue) <= Listener.synQueueSize

\* A client has at most one connection to the server, waiting in the SYN queue
\* or set up, however often its SYN is repeated and whenever: while the
\* acceptor sets a socket up, and while an old connection is in TIME-WAIT or
\* closed but still held.
OneConnectionPerClient ==
    Listening =>
        \A c \in Client :
            Cardinality({i \in Bound : addr[i].remote = c}) +
            Cardinality({i \in DOMAIN Listener.synQueue :
                            Listener.synQueue[i].src = c}) <= 1

\* While Tcp_Accept has given the mutex up, the item it points to stays the
\* first of the queue: nobody else removes items, and SYNs go to the end.
TakenItemStays ==
    acceptor.pc \in {"gap", "setup"} =>
        Listener.synQueue # <<>> /\ Head(Listener.synQueue) = acceptor.item

\* An acceptor that waits is signaled as soon as a SYN is queued.
AcceptorWoken ==
    acceptor.pc = "wait" /\ Listener.synQueue # <<>> => Listener.event

\* Every slot in use can be given back: a task holds it, or its connection
\* lingers in TIME-WAIT without owner and the 2MSL timer runs.
SlotAccountedFor ==
    \A i \in Slot \ Unused :
        \/ i \in others \cup {acceptor.listener, acceptor.child}
        \/ \E w \in Worker : worker[w].slot = i
        \/ i \in InTimeWait /\ ~table[i].ownedFlag /\ table[i].timeWaitTimer

\* A SYN that is queued (by any one client: they are alike) while Tcp_Accept
\* runs is dealt with: set up, or dropped when there is no socket, no buffer or
\* no way to send; the call does not sleep on it.
SynServed ==
    LET c == CHOOSE x \in Client : TRUE
    IN  Accepting /\ Queued(c) ~> ~Accepting \/ ~Queued(c)

============================================================================
