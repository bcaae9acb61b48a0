------------------------------- MODULE AutoIp -------------------------------
(***************************************************************************)
(* Stations that give themselves link-local addresses (ipv4/auto_ip.c) and *)
(* watch the ARP packets of the link for conflicts (arpProcessPacket,      *)
(* arpProcessRequest).  Tick, packets, link changes, start and stop run    *)
(* under the mutex of the station; each is one action.                     *)
(*                                                                         *)
(* Packets reach the other stations long before a tick that follows, or    *)
(* are lost, up to MaxLost times.  The number of conflicts, which only     *)
(* slows the next attempt down, is left out.                               *)
(***************************************************************************)
EXTENDS Naturals

CONSTANTS Station,      \* the hosts on the link
          LinkLocal,    \* the addresses autoIpGenerateAddr draws from
          NoLinkLocal,  \* IPV4_UNSPECIFIED_ADDR
          AutoIpProbes, \* AUTO_IP_PROBE_NUM
          Announces,    \* AUTO_IP_ANNOUNCE_NUM
          MaxLost       \* bound: packets that are lost, not more than probes

ASSUME AutoIpAssumption == /\ {AutoIpProbes, Announces} \subseteq Nat \ {0}
                           /\ MaxLost \in 0..AutoIpProbes
                           /\ NoLinkLocal \notin LinkLocal

VARIABLES auto,   \* the AutoIpContext of each station
          own,    \* its entry of ipv4Context.addrList
          carrier,\* its interface->linkState
          arps,   \* ARP packets on the link, with the station each will reach
          lost    \* history: packets lost so far

autoVars == <<auto, own, carrier, arps, lost>>

NoClaim == [addr |-> NoLinkLocal, state |-> "INVALID", conflict |-> FALSE]

AutoIpInit ==
    /\ auto = [s \in Station |-> [running |-> FALSE, state |-> "INIT", retransmitCount |-> 0,
                                  linkLocalAddr |-> NoLinkLocal]]
    /\ own = [s \in Station |-> NoClaim]
    /\ carrier = [s \in Station |-> TRUE]
    /\ arps = {}
    /\ lost = 0

\* The ARP packets s sends to the others; a probe has no sender address.
Packets(s, op, spa, tpa) ==
    {[op |-> op, sha |-> s, spa |-> spa, tpa |-> tpa, to |-> r] :
        r \in {q \in Station \ {s} : carrier[q]}}

arpSendProbe(s) == arps' = Packets(s, "request", NoLinkLocal, auto[s].linkLocalAddr)

Announce(s) == arps' = Packets(s, "request", auto[s].linkLocalAddr, auto[s].linkLocalAddr)

autoIpChangeState(s, state) ==
    auto' = [auto EXCEPT ![s].state = state, ![s].retransmitCount = 0]

\* The address is given up and another one is drawn.
Renounce(s) ==
    /\ own' = [own EXCEPT ![s].addr = NoLinkLocal, ![s].state = "INVALID"]
    /\ \E a \in LinkLocal :
          auto' = [auto EXCEPT ![s].state = "INIT", ![s].retransmitCount = 0,
                               ![s].linkLocalAddr = a]
    /\ UNCHANGED arps

-----------------------------------------------------------------------------
\* autoIpTick, state by state.
TickInit(s) ==
    /\ auto[s].state = "INIT" /\ auto[s].running /\ carrier[s]
    /\ \E a \in IF auto[s].linkLocalAddr = NoLinkLocal THEN LinkLocal
                                                      ELSE {auto[s].linkLocalAddr} :
          /\ own' = [own EXCEPT ![s] = [addr |-> a, state |-> "TENTATIVE", conflict |-> FALSE]]
          /\ auto' = [auto EXCEPT ![s].state = "PROBING", ![s].retransmitCount = 0,
                                  ![s].linkLocalAddr = a]
    /\ UNCHANGED arps

TickProbing(s) ==
    /\ auto[s].state = "PROBING"
    /\ \/ /\ own[s].conflict
          /\ Renounce(s)
       \/ /\ ~ own[s].conflict /\ auto[s].retransmitCount < AutoIpProbes
          /\ arpSendProbe(s)
          /\ auto' = [auto EXCEPT ![s].retransmitCount = @ + 1]
          /\ UNCHANGED own
       \/ /\ ~ own[s].conflict /\ auto[s].retransmitCount = AutoIpProbes
          /\ own' = [own EXCEPT ![s].state = "VALID"]
          /\ autoIpChangeState(s, "ANNOUNCING")
          /\ UNCHANGED arps

\* A station has still to look at a conflict it has seen: ticks come much more
\* often than DEFEND_INTERVAL ends.
ConflictPending == \E s \in Station : own[s].conflict /\ auto[s].state # "INIT"

TickAnnouncing(s) ==
    /\ auto[s].state = "ANNOUNCING"
    /\ Announce(s)
    /\ \/ /\ auto[s].retransmitCount + 1 < Announces
          /\ auto' = [auto EXCEPT ![s].retransmitCount = @ + 1]
       \/ /\ auto[s].retransmitCount + 1 = Announces
          /\ autoIpChangeState(s, "CONFIGURED")
    /\ UNCHANGED own

TickConfigured(s) ==
    /\ auto[s].state = "CONFIGURED" /\ own[s].conflict
    /\ Announce(s)
    /\ own' = [own EXCEPT ![s].conflict = FALSE]
    /\ autoIpChangeState(s, "DEFENDING")

TickDefending(s) ==
    /\ auto[s].state = "DEFENDING"
    /\ \/ /\ own[s].conflict
          /\ Renounce(s)
       \/ /\ ~ ConflictPending
          /\ autoIpChangeState(s, "CONFIGURED")
          /\ UNCHANGED <<own, arps>>

autoIpTick(s) ==
    /\ arps = {}
    /\ \/ TickInit(s) \/ TickProbing(s) \/ TickAnnouncing(s)
       \/ TickConfigured(s) \/ TickDefending(s)
    /\ UNCHANGED <<carrier, lost>>

-----------------------------------------------------------------------------
\* arpProcessPacket: a packet with the station's address as its sender is a
\* conflict; a request for an address in use is answered.
Claims(s, p) == own[s].state # "INVALID" /\ own[s].addr = p.spa

\* Stations that probe at the same time do not notice each other.
Contends_Never(s, p) == FALSE

\* arpProcessRequest: while a station probes, another probe is a conflict.
Contends(s, p) == /\ own[s].state = "TENTATIVE" /\ own[s].addr = p.tpa
                  /\ p.op = "request" /\ p.spa = NoLinkLocal

Answers(s, p) == own[s].state = "VALID" /\ own[s].addr = p.tpa /\ p.op = "request"

arpProcessPacket(s, p) ==
    /\ p.to = s
    /\ own' = [own EXCEPT ![s].conflict = @ \/ Claims(s, p) \/ Contends(s, p)]
    /\ arps' = (arps \ {p}) \cup
               {q \in Packets(s, "reply", p.tpa, p.spa) :
                    q.to = p.sha /\ Answers(s, p) /\ ~ Claims(s, p)}
    /\ UNCHANGED <<auto, carrier, lost>>

LosePacket(p) ==
    /\ lost < MaxLost
    /\ lost' = lost + 1
    /\ arps' = arps \ {p}
    /\ UNCHANGED <<auto, own, carrier>>

\* netProcessLinkChange; packets to a station without link do not arrive.
autoIpLinkChangeEvent(s) ==
    /\ auto' = [auto EXCEPT ![s].state = "INIT"]
    /\ own' = IF auto[s].running
              THEN [own EXCEPT ![s].addr = NoLinkLocal, ![s].state = "INVALID"] ELSE own
    /\ carrier' = [carrier EXCEPT ![s] = ~ @]
    /\ arps' = {p \in arps : p.to # s}
    /\ UNCHANGED lost

autoIpStart(s) ==
    /\ auto' = [auto EXCEPT ![s].running = TRUE, ![s].state = "INIT"]
    /\ own' = [own EXCEPT ![s].addr = NoLinkLocal, ![s].state = "INVALID"]
    /\ UNCHANGED <<carrier, arps, lost>>

\* The address stays as it is.
autoIpStop(s) ==
    /\ auto' = [auto EXCEPT ![s].running = FALSE, ![s].state = "INIT"]
    /\ UNCHANGED <<own, carrier, arps, lost>>

AutoIpNext ==
    \/ \E s \in Station : \/ autoIpTick(s) \/ autoIpLinkChangeEvent(s)
                          \/ autoIpStart(s) \/ autoIpStop(s)
    \/ \E s \in Station, p \in arps : arpProcessPacket(s, p)
    \/ \E p \in arps : LosePacket(p)

AutoIpSpec == AutoIpInit /\ [][AutoIpNext]_autoVars

\* The tick handlers are called periodically; packets that are not lost arrive.
AutoIpFairness ==
    /\ \A s \in Station : WF_autoVars(autoIpTick(s))
    /\ WF_autoVars(\E s \in Station, p \in arps : arpProcessPacket(s, p))

-----------------------------------------------------------------------------
\* Two running stations use the same address.
AddressShared ==
    \E s, t \in Station :
        /\ s # t /\ own[s].addr = own[t].addr
        /\ \A q \in {s, t} : auto[q].running /\ own[q].state = "VALID"

\* As long as fewer packets are lost than there are probes, no two stations use
\* the same address, although they may probe at the same time, see the link go
\* and come, and be stopped and started while packets are on the way.
LinkLocalUnique == lost < AutoIpProbes => ~ AddressShared

\* Stations that have come to share an address, because as many packets were
\* lost as there are probes, do not share it for ever: the announcements that
\* arrive make each notice the other and one give it up.
ConflictsResolved == AddressShared ~> ~ AddressShared

=============================================================================
