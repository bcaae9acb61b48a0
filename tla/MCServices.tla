----------------------------- MODULE MCServices -----------------------------
(***************************************************************************)
(* The services around TCP: datagram sockets, the address resolution       *)
(* cache, the reassembly of datagrams, group membership, the DNS resolver, *)
(* the DHCP client and server, and link-local addresses.  They share no    *)
(* variable and each property is about one of them, so they are explored   *)
(* one at a time: focus says which one moves.                              *)
(***************************************************************************)
EXTENDS ArpCache, AutoIp, DnsClient, DhcpClient, DhcpServer, IpReassembly, Igmp, UdpSocket

VARIABLE focus

vars == <<arpVars, dnsVars, dhcpVars, leaseVars, fragVars, igmpVars, udpVars, autoVars, focus>>

Init == /\ ArpInit /\ DnsInit /\ DhcpInit /\ LeaseInit /\ FragInit /\ IgmpInit /\ UdpInit
        /\ AutoIpInit
        /\ focus \in {"arp", "dns", "dhcp", "lease", "frag", "igmp", "udp", "auto"}

Next ==
    /\ \/ focus = "arp" /\ ArpNext
       \/ focus # "arp" /\ UNCHANGED arpVars
    /\ \/ focus = "dns" /\ DnsNext
       \/ focus # "dns" /\ UNCHANGED dnsVars
    /\ \/ focus = "dhcp" /\ DhcpNext
       \/ focus # "dhcp" /\ UNCHANGED dhcpVars
    /\ \/ focus = "lease" /\ LeaseNext
       \/ focus # "lease" /\ UNCHANGED leaseVars
    /\ \/ focus = "frag" /\ FragNext
       \/ focus # "frag" /\ UNCHANGED fragVars
    /\ \/ focus = "igmp" /\ IgmpNext
       \/ focus # "igmp" /\ UNCHANGED igmpVars
    /\ \/ focus = "udp" /\ UdpNext
       \/ focus # "udp" /\ UNCHANGED udpVars
    /\ \/ focus = "auto" /\ AutoIpNext
       \/ focus # "auto" /\ UNCHANGED autoVars
    /\ UNCHANGED focus

Fairness == ArpFairness /\ DnsFairness /\ DhcpFairness /\ FragFairness /\ UdpFairness
            /\ AutoIpFairness

Spec == Init /\ [][Next]_vars /\ Fairness

\* The state of ARP, DNS and DHCP is well formed.
TypeOK == ArpTypeOK /\ DnsTypeOK /\ DhcpTypeOK

\* Nothing waits for ever: an address resolution succeeds or is given up, a DNS
\* query ends, an expired lease is given up and a negotiation goes on, partial
\* datagrams are handed over or dropped, a waiting receiver gets its datagram
\* and a shared link-local address is given up by one of its users.
NothingWaitsForEver ==
    /\ ResolutionEnds /\ ResolveReturns /\ LeaseEnds /\ NegotiationMoves
    /\ ReassemblyEnds /\ ReceiversServed /\ ConflictsResolved

\* A datagram that fits, one of the largest size, and one that is too long.
Lengths == [d \in Datagram |-> 1 + d]

=============================================================================
