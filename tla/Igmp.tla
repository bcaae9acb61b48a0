-------------------------------- MODULE Igmp --------------------------------
(***************************************************************************)
(* Membership of one multicast group (ipv4/igmp.c with the reference count *)
(* of ipv4JoinMulticastGroup and ipv4LeaveMulticastGroup): several nodes   *)
(* that run this code and the router (external), which forwards the group  *)
(* to the link as long as it believes that somebody listens.               *)
(*                                                                         *)
(* A node answers a query after a random delay unless it hears somebody    *)
(* else's report first, and only the last one that has reported says that  *)
(* it leaves.  Packets of the link reach everybody in the order in which   *)
(* they were sent, after any delay, and are lost only when a link is down. *)
(***************************************************************************)
EXTENDS Naturals, Sequences

CONSTANTS Node,      \* nodes on the link
          Router,    \* the router
          MaxJoins,  \* bound: refCount of an entry
          MaxQueue   \* bound: packets on the way to one receiver

ASSUME IgmpAssumption == {MaxJoins, MaxQueue} \subseteq Nat \ {0} /\ Router \notin Node

VARIABLES filter,    \* each node's multicastFilter entry for the group
          linkState, \* each node's interface->linkState
          packets,   \* the packets on the way to each receiver, oldest first
          router     \* whether it forwards, and whether it waits for reports

igmpVars == <<filter, linkState, packets, router>>

IgmpStates == {"NON_MEMBER", "DELAYING_MEMBER", "IDLE_MEMBER"}

IgmpInit == /\ filter = [n \in Node |-> [refCount |-> 0, flag |-> FALSE, state |-> "NON_MEMBER"]]
            /\ linkState = [n \in Node |-> TRUE]
            /\ packets = [r \in Node \cup {Router} |-> << >>]
            /\ router = [forwards |-> FALSE, waits |-> FALSE]

\* What is on the way after a packet is sent to receivers (those with a link).
Sent(wire, receivers, kind) ==
    [r \in DOMAIN wire |->
        IF r \in receivers /\ (r \in Node => linkState[r])
        THEN Append(wire[r], kind) ELSE wire[r]]

Room == \A r \in DOMAIN packets : Len(packets[r]) < MaxQueue

\* igmpSendReportMessage sends to the group: the other nodes and the router.
Reports(n) == packets' = Sent(packets, DOMAIN packets \ {n}, "report")

Delaying(e) == [e EXCEPT !.flag = TRUE, !.state = "DELAYING_MEMBER"]

IdleMember(e, flag) == [e EXCEPT !.flag = flag, !.state = "IDLE_MEMBER"]

\* ipv4JoinMulticastGroup; igmpJoinGroup for the first user of the group.
ipv4JoinMulticastGroup(n) ==
    /\ filter[n].refCount < MaxJoins
    /\ LET e == [filter[n] EXCEPT !.refCount = @ + 1]
       IN  \/ /\ filter[n].refCount > 0
              /\ filter' = [filter EXCEPT ![n] = e]
              /\ UNCHANGED packets
           \/ /\ filter[n].refCount = 0 /\ linkState[n]
              /\ filter' = [filter EXCEPT ![n] = Delaying(e)]
              /\ Reports(n)
           \/ /\ filter[n].refCount = 0 /\ ~ linkState[n]
              /\ filter' = [filter EXCEPT ![n] = IdleMember(e, FALSE)]
              /\ UNCHANGED packets
    /\ UNCHANGED <<linkState, router>>

\* ipv4LeaveMulticastGroup; igmpLeaveGroup for the last user of the group.
ipv4LeaveMulticastGroup(n) ==
    /\ filter[n].refCount > 0
    /\ \/ /\ filter[n].refCount > 1
          /\ filter' = [filter EXCEPT ![n].refCount = @ - 1]
          /\ UNCHANGED packets
       \/ /\ filter[n].refCount = 1
          /\ filter' = [filter EXCEPT ![n].refCount = 0, ![n].state = "NON_MEMBER"]
          /\ packets' = IF linkState[n] /\ filter[n].flag
                        THEN Sent(packets, {Router}, "leave") ELSE packets
    /\ UNCHANGED <<linkState, router>>

IsDelaying(n) == filter[n].refCount > 0 /\ filter[n].state = "DELAYING_MEMBER"

\* igmpTick: the delay of the entry has elapsed.
igmpTick(n) ==
    /\ IsDelaying(n)
    /\ filter' = [filter EXCEPT ![n] = IdleMember(@, TRUE)]
    /\ Reports(n)
    /\ UNCHANGED <<linkState, router>>

\* igmpLinkChangeEvent; packets to a node whose link goes down do not arrive.
igmpLinkChangeEvent(n) ==
    /\ linkState' = [linkState EXCEPT ![n] = ~ @]
    /\ \/ /\ filter[n].refCount = 0
          /\ UNCHANGED filter
       \/ /\ filter[n].refCount > 0
          /\ filter' = [filter EXCEPT ![n] = IF linkState[n] THEN IdleMember(@, FALSE)
                                                             ELSE Delaying(@)]
    /\ \/ /\ linkState[n]
          /\ packets' = [packets EXCEPT ![n] = << >>]
       \/ /\ ~ linkState[n] /\ filter[n].refCount > 0
          /\ Reports(n)
       \/ /\ ~ linkState[n] /\ filter[n].refCount = 0
          /\ UNCHANGED packets
    /\ UNCHANGED router

\* A query is answered only by those that have reported before.
Queried_ReportersOnly(e) ==
    IF e.refCount > 0 /\ e.state = "IDLE_MEMBER" /\ e.flag
    THEN [e EXCEPT !.state = "DELAYING_MEMBER"] ELSE e

\* igmpProcessQueryMessage: a delay that runs is kept or shortened.
Queried(e) == IF e.refCount > 0 /\ e.state = "IDLE_MEMBER"
              THEN [e EXCEPT !.state = "DELAYING_MEMBER"] ELSE e

\* igmpProcessReportMessage: somebody else has answered.
Reported(e) == IF e.refCount > 0 /\ e.state = "DELAYING_MEMBER"
               THEN IdleMember(e, FALSE) ELSE e

igmpProcessMessage(n) ==
    /\ packets[n] # << >>
    /\ filter' = [filter EXCEPT ![n] =
                     IF Head(packets[n]) = "query" THEN Queried(@) ELSE Reported(@)]
    /\ packets' = [packets EXCEPT ![n] = Tail(@)]
    /\ UNCHANGED <<linkState, router>>

\* The router: a report confirms the group, a leave makes it ask.
RouterReceives ==
    /\ packets[Router] # << >>
    /\ LET rest == [packets EXCEPT ![Router] = Tail(@)]
       IN  \/ /\ Head(packets[Router]) = "report"
              /\ router' = [forwards |-> TRUE, waits |-> FALSE]
              /\ packets' = rest
           \/ /\ Head(packets[Router]) = "leave" /\ router.forwards
              /\ router' = [router EXCEPT !.waits = TRUE]
              /\ packets' = Sent(rest, Node, "query")
           \/ /\ Head(packets[Router]) = "leave" /\ ~ router.forwards
              /\ packets' = rest
              /\ UNCHANGED router
    /\ UNCHANGED <<filter, linkState>>

RouterAsks ==
    /\ Room /\ router.forwards /\ ~ router.waits
    /\ router' = [router EXCEPT !.waits = TRUE]
    /\ packets' = Sent(packets, Node, "query")
    /\ UNCHANGED <<filter, linkState>>

\* Nobody has answered within the time the router gives, which is longer than
\* the delays of the nodes and of the packets.
RouterGivesUp ==
    /\ router.waits /\ \A r \in DOMAIN packets : packets[r] = << >>
    /\ \A n \in Node : ~ (linkState[n] /\ IsDelaying(n))
    /\ router' = [forwards |-> FALSE, waits |-> FALSE]
    /\ UNCHANGED <<filter, linkState, packets>>

IgmpNext ==
    \/ \E n \in Node :
          \/ Room /\ (\/ ipv4JoinMulticastGroup(n) \/ ipv4LeaveMulticastGroup(n)
                      \/ igmpTick(n) \/ igmpLinkChangeEvent(n))
          \/ igmpProcessMessage(n)
    \/ RouterReceives
    \/ RouterAsks
    \/ RouterGivesUp

IgmpSpec == IgmpInit /\ [][IgmpNext]_igmpVars

-----------------------------------------------------------------------------
\* While nodes listen to the group the router forwards it, unless a packet is
\* on the way or a node is about to report, although nodes keep quiet when they
\* hear each other: no order of joins, leaves, queries, link changes and reports
\* that cross leaves a listener without its packets.
ListenersServed ==
    \A n \in Node : linkState[n] /\ filter[n].refCount > 0 =>
        \/ router.forwards
        \/ \E r \in DOMAIN packets : packets[r] # << >>
        \/ \E m \in Node : linkState[m] /\ IsDelaying(m)

=============================================================================
