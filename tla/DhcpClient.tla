----------------------------- MODULE DhcpClient -----------------------------
(***************************************************************************)
(* The DHCP client of one interface (dhcp/dhcp_client.c): the negotiation  *)
(* of a lease, the probing of the address, its renewal and its end.  The   *)
(* handlers of the tick, of the messages, of link changes and the user's   *)
(* start and stop run under the stack's mutex; each is one action.         *)
(*                                                                         *)
(* The network may lose, delay, repeat and reorder messages: any request   *)
(* that has been sent may be answered at any time, until its transaction   *)
(* identifier is drawn again.  Time is represented by phase, the part of   *)
(* the lease that has passed, and by the choice of when a timeout elapses. *)
(***************************************************************************)
EXTENDS Naturals, FiniteSetsExt

CONSTANTS Server,        \* DHCP servers
          Address,       \* the addresses they assign
          Unset,         \* the unspecified address
          XidCount,      \* transactions before an identifier is drawn again
          RequestMaxRc,  \* DHCP_CLIENT_REQUEST_MAX_RC
          ProbeNum,      \* DHCP_CLIENT_PROBE_NUM
          RapidCommit    \* settings.rapidCommit

ASSUME DhcpAssumption == /\ XidCount \in Nat \ {0, 1}
                         /\ RequestMaxRc \in Nat \ {0} /\ ProbeNum \in Nat
                         /\ RapidCommit \in BOOLEAN
                         /\ Unset \notin Server \cup Address

VARIABLES client,    \* the DhcpClientContext
          address,   \* the interface's entry of ipv4Context.addrList
          linkUp,    \* interface->linkState
          phase,     \* 0 before T1, 1 after T1, 2 after T2, 3 when the lease is over
          requests,    \* the requests servers may still answer
          inTime     \* the last reply acted upon was to a request of its round

dhcpVars == <<client, address, linkUp, phase, requests, inTime>>

Leased == {"BOUND", "RENEWING", "REBINDING"}
DhcpStates == Leased \cup {"INIT", "SELECTING", "REQUESTING", "INIT_REBOOT", "REBOOTING", "PROBING"}

Xid == 0..(XidCount - 1)

NoLease == [addr |-> Unset, state |-> "INVALID", conflict |-> FALSE]

DhcpInit ==
    /\ client = [state |-> "INIT", running |-> FALSE, xid |-> 0, retransmitCount |-> 0,
                 server |-> Unset, requested |-> Unset]
    /\ address = NoLease
    /\ linkUp = FALSE
    /\ phase = 0
    /\ requests = {}
    /\ inTime = TRUE

\* dhcpClientChangeState resets the counter and the timeout.
ChangedTo(c, state) == [c EXCEPT !.state = state, !.retransmitCount = 0]

\* The counter matters up to RequestMaxRc, which bounds it here.
Counted(c) == [c EXCEPT !.retransmitCount = Min({@ + 1, RequestMaxRc})]

-----------------------------------------------------------------------------
(* The user *)

\* The address of an earlier lease is left in place.
dhcpClientStart_KeepsAddress ==
    /\ client' = [client EXCEPT !.running = TRUE, !.state = "INIT"]
    /\ UNCHANGED <<address, linkUp, phase, requests, inTime>>

\* The conflict flag of the entry is not touched.
Invalid(a) == [a EXCEPT !.addr = Unset, !.state = "INVALID"]

dhcpClientStart ==
    /\ client' = [client EXCEPT !.running = TRUE, !.state = "INIT"]
    /\ address' = Invalid(address)
    /\ UNCHANGED <<linkUp, phase, requests, inTime>>

\* The address stays as it is.
dhcpClientStop ==
    /\ client' = [client EXCEPT !.running = FALSE, !.state = "INIT"]
    /\ UNCHANGED <<address, linkUp, phase, requests, inTime>>

\* netProcessLinkChange and dhcpClientLinkChangeEvent.
dhcpClientLinkChangeEvent ==
    /\ linkUp' = ~ linkUp
    /\ address' = IF client.running THEN Invalid(address) ELSE address
    /\ client' = [client EXCEPT !.state =
                     IF @ \in {"INIT", "SELECTING", "REQUESTING"} THEN "INIT" ELSE "INIT_REBOOT"]
    /\ UNCHANGED <<phase, requests, inTime>>

-----------------------------------------------------------------------------
(* The tick: one action for each state the machine may be in *)

\* One identifier for all rounds.
Round_SameXid(c) == c

\* The identifier of the first request of a round is a new one; what answered
\* its last user is off the wire.
Round(c) ==
    IF c.retransmitCount = 0 THEN [c EXCEPT !.xid = (@ + 1) % XidCount] ELSE c

\* The request a client sends: to whom, and for which address.
RequestOf(c) ==
    [xid |-> c.xid, from |-> c.state,
     server |-> IF c.state \in {"REQUESTING", "RENEWING"} THEN c.server ELSE Unset,
     addr |-> c.requested]

\* A message goes out, or its transmission fails; the code does not look.
Sends(works) ==
    \E c \in {Round(client)} :
        /\ client' = Counted(c)
        /\ \E old \in {{q \in requests : c.xid # client.xid /\ q.xid = c.xid}} :
              requests' = IF works THEN (requests \ old) \cup {RequestOf(c)} ELSE requests \ old
        /\ UNCHANGED <<address, linkUp, phase, inTime>>

\* dhcpClientStateInit and dhcpClientStateInitReboot.
StateInit ==
    /\ client.state \in {"INIT", "INIT_REBOOT"} /\ client.running /\ linkUp
    /\ client' = ChangedTo(client, IF client.state = "INIT" THEN "SELECTING" ELSE "REBOOTING")
    /\ UNCHANGED <<address, linkUp, phase, requests, inTime>>

dhcpClientStateSelecting(works) == client.state = "SELECTING" /\ Sends(works)

\* dhcpClientStateRequesting and dhcpClientStateRebooting: a bounded number of
\* requests, then the negotiation starts anew.
StateRequesting(works) ==
    /\ client.state \in {"REQUESTING", "REBOOTING"}
    /\ \/ client.retransmitCount < RequestMaxRc /\ Sends(works)
       \/ /\ client.retransmitCount >= RequestMaxRc
          /\ client' = ChangedTo(client, "INIT")
          /\ UNCHANGED <<address, linkUp, phase, requests, inTime>>

\* The address is declined on a conflict, and usable once it has been probed.
dhcpClientStateProbing ==
    /\ client.state = "PROBING"
    /\ \/ /\ address.conflict
          /\ client' = ChangedTo(client, "INIT")
          /\ UNCHANGED address
       \/ /\ ~ address.conflict /\ client.retransmitCount < ProbeNum
          /\ client' = Counted(client)
          /\ UNCHANGED address
       \/ /\ ~ address.conflict /\ client.retransmitCount >= ProbeNum
          /\ address' = [address EXCEPT !.state = "VALID"]
          /\ client' = ChangedTo(client, "BOUND")
    /\ UNCHANGED <<linkUp, phase, requests, inTime>>

dhcpClientStateBound ==
    /\ client.state = "BOUND" /\ phase >= 1
    /\ client' = ChangedTo(client, "RENEWING")
    /\ UNCHANGED <<address, linkUp, phase, requests, inTime>>

dhcpClientStateRenewing(works) ==
    /\ client.state = "RENEWING"
    /\ \/ phase < 2 /\ Sends(works)
       \/ /\ phase >= 2
          /\ client' = ChangedTo(client, "REBINDING")
          /\ UNCHANGED <<address, linkUp, phase, requests, inTime>>

dhcpClientStateRebinding(works) ==
    /\ client.state = "REBINDING"
    /\ \/ phase < 3 /\ Sends(works)
       \/ /\ phase >= 3
          /\ client' = ChangedTo(client, "INIT")
          /\ address' = Invalid(address)
          /\ UNCHANGED <<linkUp, phase, requests, inTime>>

dhcpClientTick(works) ==
    \/ StateInit
    \/ dhcpClientStateSelecting(works)
    \/ StateRequesting(works)
    \/ dhcpClientStateProbing
    \/ dhcpClientStateBound
    \/ dhcpClientStateRenewing(works)
    \/ dhcpClientStateRebinding(works)

\* Time passes; the phase is looked at only under a lease.
LeaseElapses == /\ client.state \in Leased \cup {"PROBING"} /\ phase < 3
                /\ phase' = phase + 1
                /\ UNCHANGED <<client, address, linkUp, requests, inTime>>

-----------------------------------------------------------------------------
(* Messages: q is the request that the message answers, server its author *)

MayAnswer(q, server) == q.xid = client.xid /\ q.server \in {Unset, server}

\* Whether q belongs to the round the client is in; before the first request
\* of the round nothing can.
Accepts(q) == inTime' = (client.retransmitCount > 0 => q.from = client.state)

dhcpClientParseOffer(q, server, addr) ==
    /\ MayAnswer(q, server) /\ q.from = "SELECTING"
    /\ client.state = "SELECTING"
    /\ client' = ChangedTo([client EXCEPT !.server = server, !.requested = addr], "REQUESTING")
    /\ Accepts(q)
    /\ UNCHANGED <<address, linkUp, phase, requests>>

\* The states in which an acknowledgement or refusal from server is heard.
Hears(server) ==
    \/ client.state \in {"REQUESTING", "RENEWING"} /\ server = client.server
    \/ client.state \in {"REBOOTING", "REBINDING"}

\* A server acknowledges the address it was asked for; with rapid commit it
\* may answer a DHCPDISCOVER with any address.
dhcpClientParseAck(q, server, addr) ==
    /\ MayAnswer(q, server)
    /\ \/ q.from # "SELECTING" /\ addr = q.addr /\ Hears(server)
       \/ /\ q.from = "SELECTING" /\ RapidCommit
          /\ client.state = "SELECTING" \/ Hears(server)
    /\ phase' = 0
    /\ \E c \in {[client EXCEPT !.server = server, !.requested = addr]} :
          \/ /\ client.state \in {"REQUESTING", "REBOOTING"}
             /\ address' = [addr |-> addr, state |-> "TENTATIVE", conflict |-> FALSE]
             /\ client' = ChangedTo(c, "PROBING")
          \/ /\ client.state \notin {"REQUESTING", "REBOOTING"}
             /\ address' = [address EXCEPT !.addr = addr, !.state = "VALID"]
             /\ client' = ChangedTo(c, "BOUND")
    /\ Accepts(q)
    /\ UNCHANGED <<linkUp, requests>>

dhcpClientParseNak(q, server) ==
    /\ MayAnswer(q, server) /\ q.from # "SELECTING" /\ Hears(server)
    /\ address' = Invalid(address)
    /\ client' = ChangedTo(client, "INIT")
    /\ Accepts(q)
    /\ UNCHANGED <<linkUp, phase, requests>>

\* arpProcessPacket: another host claims the address.
arpProcessClaim ==
    /\ address.state # "INVALID"
    /\ address' = [address EXCEPT !.conflict = TRUE]
    /\ UNCHANGED <<client, linkUp, phase, requests, inTime>>

DhcpNext ==
    \/ dhcpClientStart
    \/ dhcpClientStop
    \/ dhcpClientLinkChangeEvent
    \/ \E works \in BOOLEAN : dhcpClientTick(works)
    \/ LeaseElapses
    \/ \E q \in requests, server \in Server :
          \/ \E addr \in Address : dhcpClientParseOffer(q, server, addr)
          \/ \E addr \in Address : dhcpClientParseAck(q, server, addr)
          \/ dhcpClientParseNak(q, server)
    \/ arpProcessClaim

DhcpSpec == DhcpInit /\ [][DhcpNext]_dhcpVars

\* The net task calls dhcpClientTick periodically and every timeout elapses.
DhcpFairness == WF_dhcpVars(\E works \in BOOLEAN : dhcpClientTick(works))

-----------------------------------------------------------------------------
\* The context and the address entry are well formed.
DhcpTypeOK ==
    /\ client \in [state : DhcpStates, running : BOOLEAN, xid : Xid,
                   retransmitCount : 0..RequestMaxRc, server : Server \cup {Unset},
                   requested : Address \cup {Unset}]
    /\ address \in [addr : Address \cup {Unset}, conflict : BOOLEAN,
                    state : {"INVALID", "TENTATIVE", "VALID"}]
    /\ phase \in 0..3

\* While the client runs, the interface uses an address only under a lease
\* that is being kept up: no NAK, restart, link change or end of a lease in any
\* order leaves an address behind, and an address that is being probed or was
\* declined is not in use.
UsedOnlyWhileLeased ==
    client.running /\ address.state = "VALID" =>
        client.state \in Leased /\ address.addr = client.requested

\* A reply is matched with the round of requests the client is in: one to an
\* earlier round, which may name another server or start the lease anew, has
\* no effect once a request of this round has been sent.
RepliesToThisRound == inTime

\* A lease that is over is given up unless a server extends it, so that the
\* address can be assigned to another host.
LeaseEnds == (client.running /\ address.state = "VALID" /\ phase = 3) ~>
                 (address.state # "VALID" \/ phase # 3 \/ ~ client.running)

\* No negotiation waits for ever for a server that does not answer.
NegotiationMoves ==
    client.state \in {"REQUESTING", "REBOOTING", "PROBING"} ~>
        client.state \notin {"REQUESTING", "REBOOTING", "PROBING"}

=============================================================================
