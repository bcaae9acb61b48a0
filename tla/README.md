# TLA+ models of Http_Cyclone

The repository is CycloneTCP, a C TCP/IP stack for embedded systems, with its
socket interface and its TCP user functions rewritten in SPARK (`src/ada`). The
core is TCP: C functions for the state machine, the helpers and the timers
(`src/cyclone_tcp/core/tcp_fsm.c`, `tcp_misc.c`, `tcp_timer.c`), and Ada
procedures for what the user calls (`tcp_interface.adb`, `socket_interface.adb`),
tied together by SPARK contracts on the bindings (`*_binding.ads`). The contracts
are proved of the Ada code with the C code taken on trust; this project checks
both together, with the concurrency the contracts can only approximate, and adds
the services an IPv4 host needs around TCP.

## Inventory

| Part | State | Operations | Interacts with |
|---|---|---|---|
| TCP helpers (`tcp_misc.c`) | the control block in `struct _Socket`: sequence numbers, windows, congestion state, rings, retransmission queue, SACK blocks, event flags | send, reset, retransmit, check ACK, update windows, merge blocks, Nagle, change state, update events, wait | called by the next three with `netMutex` held |
| TCP state machine (`tcp_fsm.c`) | `state`, `closedFlag`, `resetFlag`, timers | one handler per state, called for each segment | wakes a blocked task through `tcpUpdateEvents` |
| TCP timers (`tcp_timer.c`) | five timers and two retry counters per socket | `tcpTick` | closes connections, gives slots back |
| TCP user functions (`tcp_interface.adb`) | where a blocked call is | connect, listen, accept, send, receive, shutdown, abort, kill oldest | release the mutex only inside `Tcp_Wait_For_Events` and between the parts of `Tcp_Accept` |
| Socket table (`socket_interface.adb`, `socket.c`) | type, owner and addresses of each slot | open, close and the calls above | `tcpTick`, `tcpStateTimeWait` and `Tcp_Kill_Oldest_Connection` also give slots back |
| SPARK contracts (`*.ads`) | the ghost `Model` of a socket | pre- and postconditions | assumed of the C code |
| UDP sockets (`udp.c`) | receive queue, event, table of callbacks, dynamic port | receive, process a datagram, close | tasks that share one event; DNS |
| ARP (`arp.c`) | cache entries with their waiting packets | resolve, tick, reply, flush | IP sends through it; Auto-IP and DHCP probe with it |
| Auto-IP (`auto_ip.c`) | state, address, retransmission counter | tick, conflict, link change, start, stop | ARP packets of the other stations |
| IPv4 reassembly (`ipv4_frag.c`) | partial datagrams, each with its list of holes | fragment, tick, flush | hands datagrams to IP |
| IGMP (`igmp.c`) | membership state and flag per group | join, leave, report, query, tick, link change | the other nodes and the router |
| DNS resolver (`dns_client.c`, `dns_cache.c`) | cache | resolve (a polling loop), tick, response | UDP callbacks, several tasks |
| DHCP client (`dhcp_client.c`) | state, transaction, lease | tick, offer, ack, nak, link change, start, stop | the interface's address |
| DHCP server (`dhcp_server.c`) | bindings | discover, request, decline, release, tick | clients |
| Everything else | | | see *Not modelled* |

What is hard: user tasks, receive path and timer handlers that interleave at
every release of the mutex; segments and messages lost, repeated, late and out of
order; sequence numbers that wrap, ports and transaction identifiers that come
round; timers that outlive the state they were started in; sends that fail half
way; tables, queues and rings that are full; slots and entries that are recycled
under somebody who still refers to them. What makes each part correct:

* helpers: nothing unacknowledged is forgotten, nothing unacknowledged or unread
  is overwritten, nothing is sent beyond the window, the user reads the peer's
  stream;
* state machine: only the transitions the contracts list, and one account (closed
  or reset) of how a connection ended;
* timers: whatever waits is retried a bounded number of times and then given up;
* user functions: a blocked call is woken, to a state it can handle;
* socket table: a slot is given back once, empty, and a client gets one connection;
* UDP, ARP, DNS, reassembly: nobody waits for ever, no buffer is lost, nothing is
  answered or handed over that was not asked for or is not whole;
* addresses (Auto-IP, DHCP): no address is used without a claim to it, and none by
  two hosts; groups (IGMP): the router forwards as long as somebody listens.

`PROJECT.json` lists the hazards line by line.

## Modules

| Module | Models |
|---|---|
| `TcpDefs` | types, configuration constants, sequence arithmetic modulo `SeqSpace` (`TCP_CMP_SEQ`) |
| `TcpMisc`, `TcpFsm`, `TcpTimer` | the three C files: each function an operator from a socket record to a socket record |
| `TcpInterface` | `tcp_interface.adb`, `Socket_Open`: one operator per stretch of a call between two waits |
| `TcpEndpoint` | one slot, its user task, the network and the timer handler |
| `TcpContract` | abstract: what the SPARK contracts allow of type, state, reset flag and owner; `TcpEndpoint` implements it |
| `TcpConnection` | two ends that run this code, and a network that loses, repeats and reorders |
| `ByteStream` | abstract: two streams of bytes, in order and with an end; `TcpConnection` implements it |
| `SocketTable` | several slots, an acceptor in `Tcp_Accept`, workers, clients, the timer task |
| `UdpSocket`, `ArpCache`, `AutoIp`, `IpReassembly`, `Igmp`, `DnsClient`, `DhcpClient`, `DhcpServer` | one service each |
| `MCTcpEndpoint`, `MCTcpConnection`, `MCSocketTable`, `MCServices` | values of the constants; the last one also puts the services side by side |
| `NumberLemmas` | arithmetic modulo a number, minima of sets, sequences |
| `TcpLemmas`, `TcpEndpointProofs`, `TcpWindowProofs` | the proofs about `TcpEndpoint` |
| `SocketTableProofs` | the proofs about `SocketTable` |
| `DatagramProofs`, `DhcpProofs` | the proofs about `UdpSocket` and `DnsClient`, `DhcpServer` and `DhcpClient` |
| `LinkProofs` | the proofs about `ArpCache`, `IpReassembly`, `Igmp` and `AutoIp` |

The operators named `..._NoTimer`, `..._Forever` and so on, each in front of the
definition it distorts, are faulty versions of the code used to make sure that
the properties notice.

**TCP.** `sock` is a record with the fields of the C structure. All code runs
with `netMutex` held, so one action is one critical section. In `TcpEndpoint`
`Open`, `Connect`, `Accept` (the child socket of `Tcp_Accept`), `Send`,
`Receive`, `Shutdown`, `Close` run a call to its first wait or its return; `Wake`
continues a blocked call when the event object is signaled or its timeout is
over; `Segment` hands `tcpProcessSegment` any segment near the expected numbers;
`Tick` runs the timer handler with any set of timers elapsed. `task` holds where a
call is blocked and what it still has to do; `delivered` is a history of what the
user has read. `TcpConnection` has the same for two ends, with the segments of
each one's critical sections on their way to the other. `SocketTable` has the
four critical sections of `Tcp_Accept` (wait, take an item, open a slot without
the mutex, set the connection up) and the search of `tcpProcessSegment` for the
socket by its addresses. There `table` is `socketTable` without the addresses, which
are in `addr`; `older` orders the slots in TIME-WAIT by the start of their 2MSL
timers, which is what `Tcp_Kill_Oldest_Connection` looks at when the table is full.

**Services.** Each handler is one action, as the code runs it under the mutex;
a call that releases the mutex (`dnsResolve` between polls, `udpReceiveDatagram`
in its wait) has one action per stretch. Messages that may be lost, late or
repeated are kept in a set of what has been sent, from which any may arrive.

**Abstractions.** Time: a running timer may have elapsed at any tick; where an
order of time stamps decides (oldest entry, 2MSL), the order is kept. Memory and
IP: before a critical section a value of `TxFault` says how many segments the IP
layer accepts and whether the next one fails before or after it is queued, or no
buffer can be had at all. In `TcpEndpoint` the peer is arbitrary, except that its
data bytes are those of one stream. Options, checksums, traces and MIB counters
are left out; the MSS is a constant. External: the router of `Igmp`, the clients
of `DhcpServer`, the servers of `DnsClient` and `DhcpClient`. The clients of
`DhcpServer` keep to the protocol; in particular a lease ends at the client no later
than at the server. `dhcp_client.c:1686` counts from the arrival of the DHCPACK, so
the repository's own client meets this only up to the time that message was under
way: for that long after a lease has run out at the server, `LeasesRemembered` says
nothing about it.

## Runs

Deadlock is not checked: a user who never calls, a slot that is used once, an
idle service may stop.

| Run | Shows |
|---|---|
| `lifecycle` | open to close against all flag combinations, every shutdown, stray segments and wait timeouts: `NoLostWakeup`, `EventFlagsFresh`, `WaitEndsWhereContracted`, `UnownedLingers`, `ClosedOnce`, `ImplementsContract`, `SlotReturned`, `TypeOK` |
| `sender` | four bytes through a buffer of three, windows that close and open, partial and duplicate ACKs, fast retransmit and both recoveries, all Nagle flags: `InFlightCovered`, `RetransmitsWrittenData`, `ZeroWindowProbed`, `SendsWithinWindow`, `CallsReturn` |
| `receiver` | out-of-order, overlapping and repeated segments, two SACK blocks, partial reads: `ReceiveBufferHolds`, `SackBlocksSound`, `DeliveredInOrder`, `InOrderDataAdvances`, `WindowNeverShrinks` |
| `faults` | allocation and transmission failures everywhere, connect again after a failure, the slot used again: `RetransmitTimerArmed`, `FreedBeforeReuse` |
| `connection` | two ends, one or both active, write, read and close: `ImplementsStream` (refinement of `ByteStream`), `SuccessMeansReceived`, `RestInAgreement` |
| `sockets` | three slots, an acceptor, a worker, two clients: `OneConnectionPerClient`, `TakenItemStays`, `AcceptorWoken`, `SlotAccountedFor`, `SynServed`, `TypeOK` |
| `services` | ARP `QueuedPacketsOwned`; DNS `ResolverSound`; DHCP client `UsedOnlyWhileLeased`, `RepliesToThisRound`; DHCP server `LeasesRemembered`; reassembly `HandedWhole`; UDP `ReceiverWoken`; IGMP `ListenersServed`; Auto-IP `LinkLocalUnique`; and of all `NothingWaitsForEver`, `TypeOK` |

`TypeOK` says that fields stay in their C or Ada types and counters within their
limits. `RetransmitsWrittenData` is about bytes from SND.UNA on: the code keeps a
partly acknowledged segment whole and does overwrite its acknowledged head, which
the peer ignores.

**Bounds.** Sequence numbers are modulo 16 and the own initial number is 14, so
that all sending wraps; buffers hold one to four bytes, segments one or two,
retries are limited to one. `MaxSent`, `MaxReceived`, `MaxDupAck`, `MaxQueue` bound
the exploration of `TcpEndpoint`: more bytes than the send buffer holds, one
duplicate ACK more than the threshold that so little data in flight leads to,
three segments in flight, out-of-order data up to the edge of a window of four,
which has room for two separate blocks. In `TcpConnection`, `MaxWire` segments
travel in each direction, and `MaxMishaps` counts what the network does wrong and
timers that elapse while a segment is still under way; one mishap at every
possible moment is explored. In `SocketTable`, `Others` slots are held by tasks
outside the model, `ResetIn` and `Timers` choose which resets and timers occur
there (the others are covered by `TcpEndpoint`). Tables of the services have two
slots, with more clients, names, addresses or datagrams than slots; `MaxCalls`
bounds calls of `dnsResolve`, `XidCount` how soon a transaction identifier comes
round, `MaxJoins` and `MaxQueue` joins and packets on the way, `MaxLost` lost ARP
packets (fewer than probes are lost: with more, two stations may keep one
address, and nothing is claimed). The services share no variable, so `MCServices`
explores them one at a time (`focus`): a behaviour of all of them is an
interleaving of behaviours of each, and each property is about one.

**Fairness.** The timer task runs for ever, so a timer whose handling has an
effect elapses and is handled; a task whose event is signaled, or whose polling
delay is over, is scheduled; ARP packets on the link arrive. All of it is weak
fairness (for `TcpEndpoint` written out, because TLC's `ENABLED` of these actions
is expensive; for the acceptor as WF of its runnable steps). Nothing is assumed of
the peer, of servers or of the user: `CallsReturn` and `NothingWaitsForEver` hold
because of the retry limits alone.

**Disagreements.** Five runs show where the code does not do what the repository
says; `PROJECT.json` quotes the lines.

| Run | Property | What happens |
|---|---|---|
| `leak` | `UnownedLingers` | the peer closes its window, both sides close, the user closes the socket in TIME-WAIT; the persist timer runs out of probes first and sets CLOSED without giving the slot back, and no tick looks at it again |
| `shutdown_contract` | `ShutdownWaitSeesReset` | between the wakeup of `Tcp_Shutdown` and its turn on the mutex TIME-WAIT ends: CLOSED without the reset flag the contract promises |
| `released_data` | `DataOnHandDelivered` | unread data is lost when the FIN leads to TIME-WAIT, which releases the receive buffer |
| `sack_wrap` | `InOrderDataAdvances` | MIN and MAX on sequence numbers beyond the wrap: the in-order segment is filed as out of order |
| `zero_window` | `ZeroWindowProbed` | a zero window in the handshake does not start the persist timer |

The passing runs that check the same definitions stay clear of these cases by
their constants: `lifecycle` has no zero window, `receiver` starts the peer at 0,
`sender` has no zero window in the handshake; `SlotReturned` excepts a socket that
is probing.

**Other observations.** Behaviour met while modelling that the models have and no
property denies:

* Tcp: a second `Tcp_Connect` after a failed one keeps `resetFlag` set, so the new
  connection is reported as reset however it ends (`AlwaysClosedOnce` below says
  that this is the only way to two reports).
* DHCP client: between a change of state and the first request of the new round a
  late OFFER or ACK with the old identifier is still accepted; after DHCPDECLINE
  it starts over at once although the comment asks for ten seconds; an address
  from a rapid commit or a renewal is used without probing; stopping the client or
  Auto-IP leaves the address VALID.
* DHCP server: a DISCOVER from a client that still uses its address, or a late
  RELEASE, gives the address away; a declined address is offered again.
* ARP: requests and probes share `retransmitCount`, which is cleared only when an
  entry is created.
* DNS: `udpGetDynamicPort` does not look whether a port is in use, so the model
  assumes a port is not drawn again while its query is pending (`PortRested`); a
  result may be evicted before the task that waits for it looks.
* IGMP: reports that cross clear both flags, so that nobody says goodbye; the
  router then learns of it only by asking.
* UDP: tasks share `eventMask`, and one that is woken for another's datagram
  returns `ERROR_TIMEOUT` early.

## Proofs

TLAPS proves, for every value of the constants that the named assumptions of the
modules allow (`SizeAssumption`, `EndpointAssumption`, `TableAssumption`,
`UdpAssumption`, `DnsAssumption`, `DhcpAssumption`, `DhcpServerAssumption`,
`ArpAssumption`, `FragAssumption`, `IgmpAssumption`, `AutoIpAssumption`: bounds are
naturals, sizes positive, model values distinct):

| Theorem | States | Inductive invariant |
|---|---|---|
| `RetransmitTimerAlwaysArmed` | `Spec => []RetransmitTimerArmed` | `Linked` |
| `FreedBeforeReuseAlways` | `Spec => []FreedBeforeReuse` | `Linked` |
| `ContractImplemented` | `Spec => ImplementsContract`: `TcpEndpoint` refines `TcpContract` | `Linked` |
| `NeverLostWakeup` | `Spec => []NoLostWakeup` | `Watching` |
| `EventFlagsAlwaysFresh` | `Spec => []EventFlagsFresh` | `Watching` |
| `WaitAlwaysEndsWhereContracted` | `Spec => []WaitEndsWhereContracted` | `Linked`, `Watching` |
| `AlwaysClosedOnce` | `Reconnect = FALSE /\ Spec => []ClosedOnce` | `Linked`, `Single` |
| `SendsWithinWindowAlways` | `Spec => SendsWithinWindow`, an action property | `Linked`, `Good` |
| `ZeroWindowAlwaysProbed` | `StartsOpen /\ Spec => []ZeroWindowProbed` | `Good` |
| `UnownedAlwaysLingers` | `StaysOpen /\ Spec => []UnownedLingers` | `Linked`, `Good`, `Lingering` |
| `ListenerAlwaysListens` | `Spec => []TypeOK` of `SocketTable` | `TableIInv` |
| `TakenItemAlwaysStays`, `AcceptorAlwaysWoken` | `Spec => []TakenItemStays`, `[]AcceptorWoken` | `TableIInv` |
| `AlwaysOneConnectionPerClient` | `Spec => []OneConnectionPerClient` | `TableIInv` |
| `ReceiverAlwaysWoken` | `UdpSpec => []ReceiverWoken` | `UdpInvariant` |
| `ResolverAlwaysSound` | `DnsSpec => []ResolverSound` | `DnsInvariant` |
| `LeasesAlwaysRemembered` | `LeaseSpec => []LeasesRemembered` | `LeaseInvariant` |
| `AlwaysUsedOnlyWhileLeased`, `AlwaysRepliesToThisRound` | `DhcpSpec => []UsedOnlyWhileLeased`, `[]RepliesToThisRound` | `DhcpInvariant` |
| `PacketsAlwaysOwned` | `ArpSpec => []QueuedPacketsOwned`, and queues within `MaxPending` | `ArpInvariant` |
| `AlwaysHandedWhole`, `HolesAlwaysExact` | `FragSpec => []HandedWhole`, `[]HolesExact` | `FragInvariant` |
| `ListenersAlwaysServed` | `IgmpSpec => []ListenersServed` | `IgmpInvariant` |
| `LinkLocalAlwaysUnique` | `AutoIpSpec => []LinkLocalUnique` | `AutoIpInvariant` |

**TCP.** None of the properties is inductive. That a tick cannot close an owned
slot rests on who owns it while a task holds a handle; that a closed slot is empty
rests on what was released on the way. `Linked` adds these links: the socket has
all its fields, and numbers where the code computes; a live connection is a stream
with its timer armed; an unused slot is closed and released; a task with a handle
owns the live connection behind it. `Watching` is about a blocked task: the event
flags are those of the present state, the event object is signaled if there are
any, and the state has been reached from the one the wait began in by moving on
only (`Leads`). `Single` adds to `ClosedOnce` that a socket that was never
connected has reported nothing.

The argument goes bottom up. `TcpLemmas` classifies what a helper may do to the
parts that matter: `Steady` (type, state, flags and owner stay, the timer stays
armed), `Shift` (the same but the state becomes a given one), `Ends`, `GivenBack`,
`Released`; each helper gets one lemma, and its last part composes them into one
lemma per state handler, timer and stretch of a call. A second part does the
same for the flags: an operator leaves alone what events depend on (`Unseen`), or
ends in `tcpUpdateEvents`, or (Nagle) moves bytes from the unsent to the sent part
of the buffer, which changes no event before the flags are computed again.
`TcpEndpointProofs` first says what each action does (`Called`, `Connected`,
`Accepted`, `Aborted`, `Driven`) and derives every theorem from that alone.

`TcpWindowProofs` does it once more for the send window. An operator leaves its
fields alone (`Quiet`, `Silent`), moves SND.UNA and the congestion window (`Calm`),
takes over the window of an acknowledgment (`Heard`) or sends what the window allows
(`Sends`: adding b octets modulo `SeqSpace` adds at most b to what is in flight).
`Careful(r, t)` says of a critical section from `r` to `t` that `Good` holds of `t`
and that SND.NXT stayed where it was or what is in flight fits. `Good` is the
invariant: SND.NXT is a sequence number; in SYN-SENT nothing is acknowledged, so
that the first window is always taken over; a window that is closed while data may
be sent has its persist timer running; TIME-WAIT has its timer running and nothing
left to retransmit. Two of the theorems need a hypothesis on the peer, and the runs
that violate the same property show that they do: `StartsOpen`, no zero window in
the handshake (`zero_window`), and `StaysOpen`, none at all (`leak`: the persist
timer closes a socket nobody owns). Under `StaysOpen` no probe interval is ever
set, so that of the five timers only 2MSL can act on a slot the user has left
(`Lingering`).

**Socket table.** The handlers' lemmas serve again, one slot at a time; what is new is
who may touch which slot, for any number of slots, workers, clients and outside
tasks. `TableIInv` says that only the acceptor's socket listens and does so from
`Socket_Listen` on (`Alone`, `ListenerKept`), that no worker has a handle of it
(`Strangers`), and that the clients in the queue and those of the sockets bound to
the server's port are all different (`Distinct`): a SYN is queued only if no socket
has that remote end, and the new socket gets its address in the critical section
that takes the item off the queue. The delicate point is eviction, which leaves two
tasks with one slot. Before the server listens, nothing can be in TIME-WAIT, so
nothing is evicted and no handle is shared (`Early`, `Unshared`); afterwards its
state protects the listening socket. The child that `Tcp_Accept` has just opened may
sit in a slot an older handle still refers to: that handle can close it, but not
give it a state or an address (`ChildClosed`). `Asked` and `AcceptorWoken` go
together: the acceptor waits only after it has set the event mask, and
`tcpStateListen` signals whoever waits for that event.

**Services.** `UdpInvariant` adds that a waiting task's event is asked for.
`DnsInvariant` adds that no two pending queries share a port and that a resolved
entry holds the address of its own name. `LeaseInvariant` is `LeasesRemembered`
with the types of the tables: an address offered is one that no binding holds, and
a binding is replaced only without a valid lease. `DhcpInvariant` adds that an
address under probe was confirmed, and that requests of the current transaction
were sent in the current state once the counter says one was (`WireInRound`).
`ArpInvariant` is `QueuedPacketsOwned` with the types; the slot for a new entry is
empty or has been emptied. `FragInvariant` says of each partial datagram that its
holes cover exactly the units no fragment has brought and do not touch; a case
analysis of how a fragment meets a hole shows that `Remains` keeps this, so that no
hole left means every unit there. `IgmpInvariant` follows the cause of a report: if
the router may stop forwarding, then for every listener a report is coming, or the
node is delaying one, or a query is the last thing it is going to hear.
`AutoIpInvariant` counts: of two running stations with one address, one has noticed
the other while it probes, or as many packets are lost as the one behind has sent
probes, or one less with the last probe or its answer still on the way. Once both
have finished, as many are lost as there are probes.

**Only model-checked.** Liveness under fairness (`CallsReturn`, `SlotReturned`,
`SynServed`, `NothingWaitsForEver`) is out of this prover's reach. So is induction
over data: what the prefix sums of `tcpRetransmitSegment` and the folds over SACK
blocks compute for every input (`InFlightCovered`, `RetransmitsWrittenData`,
`SackBlocksSound`, `InOrderDataAdvances`, and with them `ReceiveBufferHolds`,
`WindowNeverShrinks`, `DeliveredInOrder`); the proofs above use only that such an
operator picks a prefix or leaves other fields alone. `SlotAccountedFor` needs to
know of every slot which timer runs in it, under evictions and stale handles;
`RestInAgreement` relates two endpoints and the segments between them, and the
refinement of `ByteStream` the contents of both rings too; the type invariants of
`TcpEndpoint` and of the services together are proved as far as the inductive
invariants need them. These stay with TLC. `DataOnHandDelivered` and
`ShutdownWaitSeesReset` are false (see the disagreements).

## Not modelled

Drivers, Ethernet and the IP core (seen through their results), MIBs (tables of
counters), IPv6, NDP, MLD and DHCPv6 (parallel to the IPv4 services here), mDNS,
NetBIOS and LLMNR, application protocols (HTTP, FTP, SMTP, SNMP and others), raw
sockets and the BSD layer, the memory pool and the OS port: vendored code around
what the repository verifies, more than 300 000 lines, most of them drivers and
application protocols that no property here is about. Within the parts modelled:
checksums, header and option parsing, the estimate of the round-trip time, the
values of timeouts, `SOCKET_FLAG_BREAK_CHAR` of `Tcp_Receive`
(`tcp_interface.adb:868-903`), the error returns of `Tcp_Connect` when no source
address can be selected (`tcp_interface.adb:93-107`, before the control block is
touched), dynamic TCP ports, several tasks on one stream socket, `socketPoll`, the IGMPv1 router timer, the conflict counter of Auto-IP.
