----------------------------- MODULE UdpSocket -----------------------------
(***************************************************************************)
(* A datagram socket (core/udp.c with the datagram half of Socket_Receive  *)
(* and Socket_Close in ada/socket_interface.adb): its receive queue, which *)
(* the net task fills and the receiving tasks empty.  A task that finds    *)
(* the queue empty releases the stack's mutex while it waits for the       *)
(* socket's event, and returns after one wait whatever it finds; several   *)
(* tasks may receive from one socket.                                      *)
(*                                                                         *)
(* Only the number of datagrams in the queue is kept.  The event is a      *)
(* binary semaphore, as in os_port_freertos.c.                             *)
(***************************************************************************)
EXTENDS Naturals

CONSTANTS Receiver,     \* tasks that receive from the socket
          RxQueueSize   \* UDP_RX_QUEUE_SIZE

ASSUME UdpAssumption == RxQueueSize \in Nat \ {0}

VARIABLES udp,      \* the socket: open, queued (receiveQueue), rxMask (eventMask), event
          receiver  \* what each task does in udpReceiveDatagram

udpVars == <<udp, receiver>>

UdpInit == /\ udp = [open |-> TRUE, queued |-> 0, rxMask |-> FALSE, event |-> FALSE]
           /\ receiver = [r \in Receiver |-> "idle"]

\* udpUpdateEvents.
udpUpdateEvents(u) == [u EXCEPT !.event = @ \/ (u.queued > 0 /\ u.rxMask)]

\* udpProcessDatagram: a datagram for the socket; it is dropped when the queue
\* is full or no buffer can be allocated.
udpProcessDatagram ==
    /\ udp.open /\ udp.queued < RxQueueSize
    /\ udp' = udpUpdateEvents([udp EXCEPT !.queued = @ + 1])
    /\ UNCHANGED receiver

\* The events are not updated when a datagram is taken.
Take_NoUpdate(u, peek) == IF peek THEN u ELSE [u EXCEPT !.queued = @ - 1]

\* The end of udpReceiveDatagram: the first datagram is read, and removed
\* unless the caller only peeks.
Take(u, peek) == udpUpdateEvents(IF peek THEN u ELSE [u EXCEPT !.queued = @ - 1])

\* udpReceiveDatagram up to the wait, or to its end when a datagram is there.
\* A call that may not wait and finds none changes nothing.
udpReceiveDatagram(r, peek) ==
    /\ udp.open /\ receiver[r] = "idle"
    /\ \/ /\ udp.queued > 0
          /\ udp' = Take(udp, peek)
          /\ UNCHANGED receiver
       \/ /\ udp.queued = 0
          /\ udp' = [udp EXCEPT !.rxMask = TRUE, !.event = FALSE]
          /\ receiver' = [receiver EXCEPT ![r] = "waiting"]

\* osWaitForEvent returns: it takes the event, or its timeout elapses.
EventTaken(r) ==
    /\ receiver[r] = "waiting" /\ udp.event
    /\ udp' = [udp EXCEPT !.event = FALSE]
    /\ receiver' = [receiver EXCEPT ![r] = "awake"]

WaitTimesOut(r) ==
    /\ receiver[r] = "waiting"
    /\ receiver' = [receiver EXCEPT ![r] = "awake"]
    /\ UNCHANGED udp

\* udpReceiveDatagram from the end of the wait, with the mutex again; without
\* a datagram it returns ERROR_TIMEOUT.
AfterWait(r, peek) ==
    /\ receiver[r] = "awake"
    /\ receiver' = [receiver EXCEPT ![r] = "idle"]
    /\ udp' = IF udp.queued > 0 THEN Take(udp, peek) ELSE udp

\* Socket_Close on a datagram socket: the queue is purged.
DatagramClose ==
    /\ udp.open
    /\ udp' = [udp EXCEPT !.open = FALSE, !.queued = 0]
    /\ UNCHANGED receiver

UdpNext ==
    \/ udpProcessDatagram
    \/ \E r \in Receiver, peek \in BOOLEAN : udpReceiveDatagram(r, peek)
    \/ \E r \in Receiver : EventTaken(r) \/ WaitTimesOut(r)
    \/ \E r \in Receiver, peek \in BOOLEAN : AfterWait(r, peek)
    \/ DatagramClose

UdpSpec == UdpInit /\ [][UdpNext]_udpVars

\* A task whose event is set is scheduled, and gets the mutex.
UdpFairness ==
    \A r \in Receiver :
        /\ WF_udpVars(EventTaken(r))
        /\ WF_udpVars(\E peek \in BOOLEAN : AfterWait(r, peek))

-----------------------------------------------------------------------------
\* No wakeup is lost among the tasks that share the one event of a socket:
\* while a datagram is queued and a task waits, the event is set or a task
\* that was woken has still to look at the queue, and will set it again.
ReceiverWoken ==
    udp.queued > 0 /\ (\E r \in Receiver : receiver[r] = "waiting") =>
        udp.event \/ \E r \in Receiver : receiver[r] = "awake"

\* The tasks that wait while datagrams are there are served one after another,
\* until the queue is empty or nobody waits, even without timeouts.
ReceiversServed ==
    (udp.queued > 0 /\ \E r \in Receiver : receiver[r] = "waiting") ~>
        (udp.queued = 0 \/ \A r \in Receiver : receiver[r] # "waiting")

=============================================================================
