--------------------------- MODULE TcpConnection ---------------------------
(***************************************************************************)
(* Two end points and the network between them.  Each runs the code of     *)
(* TcpInterface under its own network mutex; what one sends travels to the *)
(* other, may be lost, delivered twice, late and in any order.             *)
(*                                                                         *)
(* An active end connects; a passive one accepts a SYN that a listening    *)
(* socket of the same host has queued.  Each slot is opened once.          *)
(***************************************************************************)
EXTENDS TcpInterface

LOCAL INSTANCE SequencesExt

CONSTANTS
    Openings,       \* sets of ends that may connect; the others accept
    Iss,            \* initial sequence number of each end
    Stream,         \* the bytes each user writes, in order
    Volume,         \* bound: how many bytes each user writes
    SendFlags,      \* flag sets the users pass to send
    ShutdownFlags,  \* flag sets they pass to shutdown
    Calls,          \* the calls each user makes once connected
    MaxWire,        \* bound: segments on the way to each end
    MaxMishaps      \* bound: losses, repetitions, overtaking, early timeouts

Peer == {"client", "server"}

Other(p) == IF p = "client" THEN "server" ELSE "client"

ASSUME ConnectionAssumption ==
    /\ Openings \subseteq SUBSET Peer \ {{}} /\ Openings # {}
    /\ Calls \in [Peer -> SUBSET {"send", "receive", "shutdown", "abort"}]
    /\ Iss \in [Peer -> SeqNum]
    /\ Stream \in [Peer -> [SeqNum -> Byte]]
    /\ Volume \in [Peer -> Nat] /\ \A p \in Peer : Volume[p] + 4 < SeqSpace
    /\ SendFlags \cup ShutdownFlags \subseteq SUBSET CallFlag
    /\ MaxWire \in Nat \ {0} /\ MaxMishaps \in Nat

VARIABLES
    active, \* the ends that connect
    sock,   \* sock[p]: the socket at end p
    task,   \* task[p]: the user task at end p
    wire,   \* wire[p]: the segments on their way to end p, oldest first
    wrote,  \* history: the bytes accepted from the user at end p
    ended,  \* history: the user at end p has sent a FIN
    read,   \* history: the bytes given to the user at end p
    eof,    \* history: the user at end p has been told of the end
    mishaps \* how often the network or a timer has misbehaved

vars == <<active, sock, task, wire, wrote, ended, read, eof, mishaps>>

Init ==
    /\ active \in Openings
    /\ sock = [p \in Peer |-> UnusedSocket]
    /\ task = [p \in Peer |-> NoTask]
    /\ wire = [p \in Peer |-> <<>>]
    /\ wrote = [p \in Peer |-> <<>>]
    /\ ended = [p \in Peer |-> FALSE]
    /\ read = [p \in Peer |-> <<>>]
    /\ eof = [p \in Peer |-> FALSE]
    /\ mishaps = 0

----------------------------------------------------------------------------
\* The IP layer takes all the segments of one critical section.
Ready(s) == [s EXCEPT !.txRoom = TxBufferSize + RxBufferSize + 4]

\* The network carries the segments end p has sent, or loses one of them; left
\* are the segments still on their way to p.  The step's other mishaps are
\* counted in more.
Carry(p, sent, left, more) ==
    \E lost \in 0 .. Len(sent) :
        LET kept   == IF lost = 0 THEN sent ELSE RemoveAt(sent, lost)
            onWire == wire[Other(p)] \o kept
        IN  /\ Len(onWire) <= MaxWire
            /\ wire' = [wire EXCEPT ![Other(p)] = onWire, ![p] = left]
            /\ mishaps' = mishaps + more + (IF lost = 0 THEN 0 ELSE 1)
            /\ mishaps' <= MaxMishaps
            /\ UNCHANGED active

\* How many bytes of its call a sending task has put in the buffer
Accepted(s, t, u) ==
    IF t.pc = "send"
    THEN SeqSub(SeqAdd(u.sndNxt, u.sndUser), SeqAdd(s.sndNxt, s.sndUser))
    ELSE 0

\* End p runs a critical section from socket s and task t to outcome o.
Run(p, s, t, outcome, left, more) ==
    \E o \in {outcome} :
        /\ sock' = [sock EXCEPT ![p] = Settle(o.sock)]
        /\ task' = [task EXCEPT ![p] = o.task]
        /\ Carry(p, o.sock.out, left, more)
        /\ wrote' = [wrote EXCEPT ![p] =
                        @ \o SubSeq(t.data, 1, Accepted(s, t, o.sock))]
        /\ ended' = [ended EXCEPT ![p] =
                        \/ @
                        \/ /\ s.state \in {"ESTABLISHED", "CLOSE_WAIT"}
                           /\ o.sock.state \in {"FIN_WAIT_1", "LAST_ACK"}]
        /\ read' = [read EXCEPT ![p] = @ \o o.got]
        /\ eof' = [eof EXCEPT ![p] = @ \/ o.task.error = "END_OF_STREAM"]

\* The user task at end p runs
UserStep(p, t, o) == Run(p, sock[p], t, o, wire[p], 0)

Connect(p) ==
    /\ p \in active /\ sock[p] = UnusedSocket
    /\ UserStep(p, NoTask, Tcp_Connect(Ready(Socket_Open(sock[p])), Iss[p]))

\* A listening socket has queued the SYN; Tcp_Accept opens a socket for it.
Accept(p) ==
    /\ p \notin active /\ sock[p] = UnusedSocket
    /\ wire[p] # <<>> /\ Head(wire[p]).flags = {"SYN"}
    /\ LET c == AcceptChild(Ready(Socket_Open(sock[p])), Head(wire[p]).seqNum,
                            Iss[p])
       IN  Run(p, sock[p], NoTask, Outcome(c, Returned("NO_ERROR")),
               Tail(wire[p]), 0)

Send(p) ==
    /\ task[p].pc = "ready" /\ "send" \in Calls[p]
    /\ \E n \in 1 .. Volume[p] - Len(wrote[p]), flags \in SendFlags :
        LET data == [i \in 1 .. n |-> Stream[p][Len(wrote[p]) + i - 1]]
        IN  UserStep(p, Call("send", flags, data, 0),
                     Tcp_Send(Ready(sock[p]), data, flags))

Receive(p) ==
    /\ task[p].pc = "ready" /\ "receive" \in Calls[p] /\ ~eof[p]
    /\ UserStep(p, NoTask, Tcp_Receive(Ready(sock[p]), RxBufferSize, {}))

Shutdown(p) ==
    /\ task[p].pc = "ready" /\ "shutdown" \in Calls[p] /\ ~ended[p]
    /\ \E flags \in ShutdownFlags :
        UserStep(p, NoTask, Tcp_Shutdown(Ready(sock[p]), flags))

Close(p) ==
    /\ task[p].pc = "ready"
    /\ "abort" \in Calls[p] \/ sock[p].state \in {"TIME_WAIT", "CLOSED"}
    /\ UserStep(p, NoTask, Outcome(Tcp_Abort(Ready(sock[p])), NoTask))

Wake(p) ==
    /\ task[p].pc \in Blocked /\ sock[p].event
    /\ UserStep(p, task[p],
                Resume([Ready(sock[p]) EXCEPT !.event = FALSE], task[p]))

\* Where no socket matches, an active end has none at all and a passive end
\* has the listening one (a SYN it queues is taken by Accept).
Unclaimed(p, seg) ==
    LET listening == [Ready(UnusedSocket) EXCEPT !.state = "LISTEN"]
    IN  IF p \in active THEN tcpStateClosed(Ready(UnusedSocket), seg)
        ELSE tcpStateListen(listening, seg)

\* A segment reaches end p, perhaps before older ones, and may do so again
Deliver(p) ==
    \E i \in DOMAIN wire[p], again \in 0 .. 1 :
        LET seg  == wire[p][i]
            left == IF again = 1 THEN wire[p] ELSE RemoveAt(wire[p], i)
            more == again + (IF i > 1 THEN 1 ELSE 0)
        IN  IF sock[p].type = "STREAM"
            THEN Run(p, sock[p], NoTask,
                     Outcome(tcpProcessSegment(Ready(sock[p]), seg), task[p]),
                     left, more)
            ELSE /\ seg.flags # {"SYN"} \/ p \in active
                 /\ Carry(p, Unclaimed(p, seg).out, left, more)
                 /\ UNCHANGED <<sock, task, wrote, ended, read, eof>>

\* A timer elapses too early when something is still on the way.
Tick(p) ==
    /\ sock[p].type = "STREAM"
    /\ \E elapsed \in SUBSET WatchedTimers(sock[p]) \ {{}} :
        Run(p, sock[p], NoTask,
            Outcome(tcpTick(Ready(sock[p]), elapsed), task[p]), wire[p],
            IF \A q \in Peer : wire[q] = <<>> THEN 0 ELSE 1)

Next ==
    \E p \in Peer :
        \/ Connect(p) \/ Accept(p) \/ Send(p) \/ Receive(p) \/ Shutdown(p)
        \/ Close(p) \/ Wake(p) \/ Deliver(p) \/ Tick(p)

Spec == Init /\ [][Next]_vars

----------------------------------------------------------------------------
(* Refinement *)

Promise == INSTANCE ByteStream WITH Lost <- NoByte, MaxChunk <- TxBufferSize

\* Whatever the network loses, repeats or delays, the two users see a pair of
\* byte streams: each reads a prefix of what the other has written, and the
\* end of the stream only after all of it (a byte read from a released buffer
\* is Lost, see DataOnHandDelivered of TcpEndpoint).
ImplementsStream == Promise!StreamSpec

----------------------------------------------------------------------------
(* Agreement of the two ends *)

\* The bytes of the other end's stream that end p has received in order
Received(p) == Len(read[p]) + sock[p].rcvUser

\* A send with SOCKET_FLAG_WAIT_ACK or a shutdown that succeeds has put all
\* that was ever written in the peer's hands (unless the connection has been
\* closed meanwhile: then Tcp_Shutdown reports success all the same).
SuccessMeansReceived ==
    [][ \A p \in Peer :
          (/\ task[p].pc \in {"txAcked", "txShutdown"}
           /\ task'[p].pc = "ready" /\ task'[p].error = "NO_ERROR"
           /\ sock'[p].state # "CLOSED")
            => Received(Other(p)) = Len(wrote[p]) ]_vars

\* Nothing is on the way and nobody has anything to send or to repeat.
Quiet ==
    \A p \in Peer :
        /\ wire[p] = <<>>
        /\ sock[p].type = "STREAM" /\ sock[p].state # "CLOSED"
        /\ sock[p].retransmitQueue = <<>>

\* When everything has come to rest between two live sockets they agree on the
\* state of the connection and on how much has been transferred: neither a
\* lost acknowledgment nor a repeated FIN leaves them at odds.
RestInAgreement ==
    Quiet =>
        /\ {sock[p].state : p \in Peer} \in
            {{"ESTABLISHED"}, {"FIN_WAIT_2", "CLOSE_WAIT"}, {"TIME_WAIT"}}
        /\ \A p \in Peer : sock[p].sndNxt = sock[Other(p)].rcvNxt

============================================================================
