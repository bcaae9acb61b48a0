----------------------------- MODULE LinkProofs -----------------------------
(***************************************************************************)
(* Proofs about the services below the sockets: group membership, the      *)
(* reassembly of datagrams, the ARP cache and link-local addresses, for    *)
(* any number of nodes, descriptors, entries and stations.                 *)
(***************************************************************************)
EXTENDS ArpCache, AutoIp, IpReassembly, Igmp, NumberLemmas, TLAPS

-----------------------------------------------------------------------------
(* Group membership *)

\* A report the router has not seen yet
ReportComing == \E k \in DOMAIN packets[Router] : packets[Router][k] = "report"

\* Node n will report: the last it is going to hear is a query, or it has heard
\* all that was sent to it and its delay runs.
WillReport(n) ==
    \/ packets[n] # << >> /\ packets[n][Len(packets[n])] = "query"
    \/ packets[n] = << >> /\ filter[n].state = "DELAYING_MEMBER"

PacketKind == {"query", "report", "leave"}

FilterEntry == [refCount : Nat, flag : BOOLEAN, state : IgmpStates]

\* The entries and the packets are well formed, and a counted entry has a state.
IgmpTyped ==
    /\ filter \in [Node -> FilterEntry]
    /\ linkState \in [Node -> BOOLEAN]
    /\ packets \in [Node \cup {Router} -> Seq(PacketKind)]
    /\ router \in [forwards : BOOLEAN, waits : BOOLEAN]
    /\ \A n \in Node : filter[n].refCount > 0 => filter[n].state # "NON_MEMBER"

\* What ListenersServed needs to be inductive: unless the router forwards and
\* does not doubt it, a report is coming or every listener is going to report.
\* A report that silences a listener has been sent to the router as well.
ListenersWillReport ==
    \A n \in Node : linkState[n] /\ filter[n].refCount > 0 =>
        \/ router.forwards /\ ~ router.waits
        \/ ReportComing
        \/ WillReport(n)

IgmpInvariant == IgmpTyped /\ ListenersWillReport

\* What the operations make of an entry.
LEMMA EntryChanges ==
    ASSUME NEW e \in FilterEntry, NEW c \in Nat, NEW b \in BOOLEAN
    PROVE  /\ [e EXCEPT !.refCount = c] \in FilterEntry
           /\ [e EXCEPT !.refCount = c].refCount = c
           /\ [e EXCEPT !.refCount = c].state = e.state
           /\ Delaying(e) \in FilterEntry /\ Delaying(e).refCount = e.refCount
           /\ Delaying(e).state = "DELAYING_MEMBER"
           /\ IdleMember(e, b) \in FilterEntry /\ IdleMember(e, b).refCount = e.refCount
           /\ IdleMember(e, b).state = "IDLE_MEMBER"
           /\ [e EXCEPT !.state = "DELAYING_MEMBER"] \in FilterEntry
           /\ [e EXCEPT !.state = "NON_MEMBER"] \in FilterEntry
  BY DEF FilterEntry, Delaying, IdleMember, IgmpStates

LEMMA MessageChanges ==
    ASSUME NEW e \in FilterEntry, e.refCount > 0 => e.state # "NON_MEMBER"
    PROVE  /\ Queried(e) \in FilterEntry /\ Queried(e).refCount = e.refCount
           /\ e.refCount > 0 => Queried(e).state = "DELAYING_MEMBER"
           /\ Reported(e) \in FilterEntry /\ Reported(e).refCount = e.refCount
           /\ e.refCount > 0 => Reported(e).state # "NON_MEMBER"
  BY EntryChanges DEF Queried, Reported, FilterEntry, IgmpStates

\* An entry is replaced.
LEMMA FilterUpdate ==
    ASSUME IgmpTyped, NEW n \in Node, NEW e \in FilterEntry,
           e.refCount > 0 => e.state # "NON_MEMBER",
           filter' = [filter EXCEPT ![n] = e]
    PROVE  /\ filter' \in [Node -> FilterEntry]
           /\ filter'[n] = e /\ \A m \in Node : m # n => filter'[m] = filter[m]
           /\ \A m \in Node : filter'[m].refCount > 0 => filter'[m].state # "NON_MEMBER"
  <1>1. filter \in [Node -> FilterEntry]
    BY DEF IgmpTyped
  <1>2. /\ filter' \in [Node -> FilterEntry]
        /\ filter'[n] = e /\ \A m \in Node : m # n => filter'[m] = filter[m]
    BY <1>1
  <1> QED
    BY <1>2 DEF IgmpTyped

\* What a packet changes: the queues of its receivers grow at the end.
LEMMA SentAppends ==
    ASSUME NEW wire \in [Node \cup {Router} -> Seq(PacketKind)],
           NEW receivers, NEW kind \in PacketKind
    PROVE  /\ Sent(wire, receivers, kind) \in [Node \cup {Router} -> Seq(PacketKind)]
           /\ \A n \in Node : Sent(wire, receivers, kind)[n] =
                 IF n \in receivers /\ linkState[n] THEN Append(wire[n], kind) ELSE wire[n]
           /\ Sent(wire, receivers, kind)[Router] =
                 IF Router \in receivers THEN Append(wire[Router], kind) ELSE wire[Router]
  <1>1. \A r \in Node \cup {Router} : Append(wire[r], kind) \in Seq(PacketKind)
    OBVIOUS
  <1> QED
    BY <1>1, IgmpAssumption DEF Sent

\* The end of a queue that has grown.
LEMMA Appended ==
    ASSUME NEW q \in Seq(PacketKind), NEW kind \in PacketKind
    PROVE  /\ Append(q, kind) # << >>
           /\ Append(q, kind)[Len(Append(q, kind))] = kind
           /\ Len(Append(q, kind)) \in DOMAIN Append(q, kind)
           /\ \A k \in DOMAIN q : k \in DOMAIN Append(q, kind) /\ Append(q, kind)[k] = q[k]
  OBVIOUS

\* A report reaches the router.
LEMMA ReportsReach ==
    ASSUME IgmpTyped, NEW n \in Node, Reports(n)
    PROVE  packets' \in [Node \cup {Router} -> Seq(PacketKind)] /\ ReportComing'
  <1>1. /\ packets \in [Node \cup {Router} -> Seq(PacketKind)]
        /\ Router \in DOMAIN packets \ {n} /\ "report" \in PacketKind
    BY IgmpAssumption DEF IgmpTyped, PacketKind
  <1>2. /\ packets' \in [Node \cup {Router} -> Seq(PacketKind)]
        /\ packets'[Router] = Append(packets[Router], "report")
    BY <1>1, SentAppends DEF Reports
  <1>3. packets[Router] \in Seq(PacketKind)
    BY <1>1
  <1>4. /\ Len(packets'[Router]) \in DOMAIN packets'[Router]
        /\ packets'[Router][Len(packets'[Router])] = "report"
    BY <1>1, <1>2, <1>3, Appended
  <1> QED
    BY <1>2, <1>4 DEF ReportComing

\* A query reaches every node with a link, as the last it is going to hear.
LEMMA QueryReaches ==
    ASSUME NEW wire \in [Node \cup {Router} -> Seq(PacketKind)],
           packets' = Sent(wire, Node, "query")
    PROVE  /\ packets' \in [Node \cup {Router} -> Seq(PacketKind)]
           /\ \A n \in Node : linkState[n] => WillReport(n)'
  <1>1. "query" \in PacketKind
    BY DEF PacketKind
  <1>2. packets' \in [Node \cup {Router} -> Seq(PacketKind)]
    BY <1>1, SentAppends
  <1>3. ASSUME NEW n \in Node, linkState[n] PROVE WillReport(n)'
    <2>1. packets'[n] = Append(wire[n], "query") /\ wire[n] \in Seq(PacketKind)
      BY <1>1, <1>3, SentAppends
    <2> QED
      BY <1>1, <2>1, Appended DEF WillReport
  <1> QED
    BY <1>2, <1>3

\* A step after which a report is coming satisfies every listener.
LEMMA ReportComingSuffices == ReportComing' => ListenersWillReport'
  BY DEF ListenersWillReport

\* A packet leaves the head of a queue.
LEMMA TailOf ==
    ASSUME NEW q \in Seq(PacketKind), q # << >>
    PROVE  /\ Tail(q) \in Seq(PacketKind) /\ Len(Tail(q)) = Len(q) - 1
           /\ Head(q) \in PacketKind /\ Head(q) = q[1]
           /\ \A k \in DOMAIN q : k # 1 => k - 1 \in DOMAIN Tail(q) /\ Tail(q)[k - 1] = q[k]
           /\ Tail(q) # << >> => Tail(q)[Len(Tail(q))] = q[Len(q)]
           /\ Tail(q) = << >> => Len(q) = 1
  <1>1. /\ Tail(q) \in Seq(PacketKind) /\ Len(Tail(q)) = Len(q) - 1 /\ Len(q) \in Nat \ {0}
        /\ DOMAIN q = 1 .. Len(q) /\ DOMAIN Tail(q) = 1 .. Len(q) - 1
        /\ Head(q) \in PacketKind /\ Head(q) = q[1]
    OBVIOUS
  <1>2. \A k \in 1 .. Len(q) - 1 : Tail(q)[k] = q[k + 1]
    OBVIOUS
  <1>3. Tail(q) # << >> => Len(q) - 1 \in 1 .. Len(q) - 1
    BY <1>1
  <1> QED
    BY <1>1, <1>2, <1>3

\* The first user of a group makes the node report, if it has a link.
LEMMA JoinKeeps ==
    ASSUME IgmpInvariant, NEW n \in Node, ipv4JoinMulticastGroup(n)
    PROVE  IgmpInvariant'
  <1> DEFINE e == [filter[n] EXCEPT !.refCount = @ + 1]
             d == [filter[n] EXCEPT !.refCount = filter[n].refCount + 1]
  <1>1. /\ filter[n] \in FilterEntry /\ filter[n].refCount \in Nat
        /\ filter[n].refCount > 0 => filter[n].state # "NON_MEMBER"
        /\ filter[n].refCount + 1 \in Nat
    BY DEF IgmpInvariant, IgmpTyped, FilterEntry
  <1>2. e = d /\ e \in FilterEntry /\ e.refCount = filter[n].refCount + 1
        /\ e.state = filter[n].state
    BY <1>1, EntryChanges
  <1>3. UNCHANGED <<linkState, router>>
    BY DEF ipv4JoinMulticastGroup
  <1> HIDE DEF d
  <1>4. CASE filter[n].refCount > 0
    <2>5. filter[n].refCount # 0
      BY <1>1, <1>4
    <2>1. filter' = [filter EXCEPT ![n] = e] /\ packets' = packets
      BY <2>5, Zenon DEF ipv4JoinMulticastGroup
    <2> HIDE DEF e
    <2>2. /\ filter' \in [Node -> FilterEntry]
          /\ filter'[n] = e /\ \A m \in Node : m # n => filter'[m] = filter[m]
          /\ \A m \in Node : filter'[m].refCount > 0 => filter'[m].state # "NON_MEMBER"
      BY <1>1, <1>2, <1>4, <2>1, FilterUpdate DEF IgmpInvariant
    <2>3. \A m \in Node : /\ filter'[m].state = filter[m].state
                          /\ filter'[m].refCount > 0 => filter[m].refCount > 0
      BY <1>2, <1>4, <2>2
    <2>4. IgmpTyped'
      BY <1>3, <2>1, <2>2 DEF IgmpInvariant, IgmpTyped
    <2> QED
      BY <1>3, <2>1, <2>3, <2>4 DEF IgmpInvariant, ListenersWillReport, WillReport, ReportComing
  <1>5. CASE filter[n].refCount = 0 /\ linkState[n]
    <2>1. filter' = [filter EXCEPT ![n] = Delaying(e)] /\ Reports(n)
      BY <1>5 DEF ipv4JoinMulticastGroup
    <2> HIDE DEF e
    <2>2. Delaying(e) \in FilterEntry /\ Delaying(e).state # "NON_MEMBER"
      BY <1>2, EntryChanges
    <2>3. /\ filter' \in [Node -> FilterEntry]
          /\ \A m \in Node : filter'[m].refCount > 0 => filter'[m].state # "NON_MEMBER"
      BY <2>1, <2>2, FilterUpdate DEF IgmpInvariant
    <2> QED
      BY <1>3, <2>1, <2>3, ReportsReach, ReportComingSuffices DEF IgmpInvariant, IgmpTyped
  <1>6. CASE filter[n].refCount = 0 /\ ~ linkState[n]
    <2>5. ~ (filter[n].refCount > 0)
      BY <1>1, <1>6
    <2>1. filter' = [filter EXCEPT ![n] = IdleMember(e, FALSE)] /\ packets' = packets
      BY <1>6, <2>5, Zenon DEF ipv4JoinMulticastGroup
    <2> HIDE DEF e
    <2>2. IdleMember(e, FALSE) \in FilterEntry /\ IdleMember(e, FALSE).state # "NON_MEMBER"
      BY <1>2, EntryChanges
    <2>3. /\ filter' \in [Node -> FilterEntry]
          /\ \A m \in Node : m # n => filter'[m] = filter[m]
          /\ \A m \in Node : filter'[m].refCount > 0 => filter'[m].state # "NON_MEMBER"
      BY <2>1, <2>2, FilterUpdate DEF IgmpInvariant
    <2>4. IgmpTyped'
      BY <1>3, <2>1, <2>3 DEF IgmpInvariant, IgmpTyped
    <2> QED
      BY <1>3, <1>6, <2>1, <2>3, <2>4
      DEF IgmpInvariant, ListenersWillReport, WillReport, ReportComing
  <1> QED
    BY <1>1, <1>4, <1>5, <1>6

\* A node that leaves is no listener any more, and its message is no report.
LEMMA LeaveKeeps ==
    ASSUME IgmpInvariant, NEW n \in Node, ipv4LeaveMulticastGroup(n)
    PROVE  IgmpInvariant'
  <1>1. /\ filter[n] \in FilterEntry /\ filter[n].refCount \in Nat \ {0}
        /\ filter[n].state # "NON_MEMBER" /\ filter \in [Node -> FilterEntry]
    BY DEF IgmpInvariant, IgmpTyped, FilterEntry, ipv4LeaveMulticastGroup
  <1>2. UNCHANGED <<linkState, router>>
    BY DEF ipv4LeaveMulticastGroup
  <1>3. CASE filter[n].refCount > 1
    <2> DEFINE e == [filter[n] EXCEPT !.refCount = filter[n].refCount - 1]
    <2>1. filter' = [filter EXCEPT ![n] = e] /\ packets' = packets
      BY <1>1, <1>3 DEF ipv4LeaveMulticastGroup
    <2>2. filter[n].refCount - 1 \in Nat
      BY <1>1
    <2>3. /\ e \in FilterEntry /\ e.refCount = filter[n].refCount - 1
          /\ e.state = filter[n].state
      BY <1>1, <2>2, EntryChanges
    <2> HIDE DEF e
    <2>4. /\ filter' \in [Node -> FilterEntry]
          /\ filter'[n] = e /\ \A m \in Node : m # n => filter'[m] = filter[m]
          /\ \A m \in Node : filter'[m].refCount > 0 => filter'[m].state # "NON_MEMBER"
      BY <1>1, <2>1, <2>3, FilterUpdate DEF IgmpInvariant
    <2>5. \A m \in Node : /\ filter'[m].state = filter[m].state
                          /\ filter'[m].refCount > 0 => filter[m].refCount > 0
      BY <1>1, <2>3, <2>4
    <2>6. IgmpTyped'
      BY <1>2, <2>1, <2>4 DEF IgmpInvariant, IgmpTyped
    <2> QED
      BY <1>2, <2>1, <2>5, <2>6 DEF IgmpInvariant, ListenersWillReport, WillReport, ReportComing
  <1>4. CASE filter[n].refCount = 1
    <2> DEFINE d == [filter[n] EXCEPT !.refCount = 0]
               e == [d EXCEPT !.state = "NON_MEMBER"]
    <2>9. filter' = [filter EXCEPT ![n].refCount = 0, ![n].state = "NON_MEMBER"]
      BY <1>1, <1>4 DEF ipv4LeaveMulticastGroup
    <2>1. filter' = [filter EXCEPT ![n] = e]
      BY <1>1, <2>9
    <2>8. packets' = packets \/ packets' = Sent(packets, {Router}, "leave")
      BY <1>1, <1>4 DEF ipv4LeaveMulticastGroup
    <2>10. d \in FilterEntry /\ d.refCount = 0
      <3>1. 0 \in Nat
        OBVIOUS
      <3> QED
        BY <1>1, <3>1, EntryChanges, Zenon
    <2>2. e \in FilterEntry /\ e.refCount = 0 /\ ~ (e.refCount > 0)
      <3> HIDE DEF d
      <3>1. e \in FilterEntry
        BY <2>10, EntryChanges
      <3>2. e.refCount = d.refCount
        BY <2>10 DEF FilterEntry
      <3> QED
        BY <2>10, <3>1, <3>2
    <2> HIDE DEF d
    <2> HIDE DEF e
    <2>3. /\ filter' \in [Node -> FilterEntry]
          /\ filter'[n] = e /\ \A m \in Node : m # n => filter'[m] = filter[m]
          /\ \A m \in Node : filter'[m].refCount > 0 => filter'[m].state # "NON_MEMBER"
      BY <2>1, <2>2, FilterUpdate DEF IgmpInvariant
    <2>4. packets \in [Node \cup {Router} -> Seq(PacketKind)] /\ "leave" \in PacketKind
      BY DEF IgmpInvariant, IgmpTyped, PacketKind
    <2>5. /\ packets' \in [Node \cup {Router} -> Seq(PacketKind)]
          /\ packets'[Router] \in {packets[Router], Append(packets[Router], "leave")}
          /\ \A m \in Node : packets'[m] = packets[m]
      <3>1. CASE packets' = packets
        BY <2>4, <3>1
      <3>2. CASE packets' = Sent(packets, {Router}, "leave")
        <4>1. \A m \in Node : m \notin {Router}
          BY IgmpAssumption
        <4>2. packets' \in [Node \cup {Router} -> Seq(PacketKind)]
          BY <2>4, <3>2, SentAppends
        <4>3. packets'[Router] = Append(packets[Router], "leave")
          BY <2>4, <3>2, SentAppends
        <4>4. ASSUME NEW m \in Node PROVE packets'[m] = packets[m]
          <5>1. m # Router /\ m \in DOMAIN packets
            BY <2>4, <4>1
          <5> QED
            BY <3>2, <5>1 DEF Sent
        <4> QED
          BY <4>2, <4>3, <4>4
      <3> QED
        BY <2>8, <3>1, <3>2
    <2>6. ReportComing => ReportComing'
      <3>1. packets[Router] \in Seq(PacketKind)
        BY <2>4
      <3>2. \A k \in DOMAIN packets[Router] :
               k \in DOMAIN packets'[Router] /\ packets'[Router][k] = packets[Router][k]
        BY <2>4, <2>5, <3>1, Appended
      <3> QED
        BY <3>2 DEF ReportComing
    <2>7. IgmpTyped'
      BY <1>2, <2>3, <2>5 DEF IgmpInvariant, IgmpTyped
    <2> QED
      BY <1>2, <2>2, <2>3, <2>5, <2>6, <2>7 DEF IgmpInvariant, ListenersWillReport, WillReport
  <1> QED
    BY <1>1, <1>3, <1>4

LEMMA DelayKeeps ==
    ASSUME IgmpInvariant, NEW n \in Node, igmpTick(n)
    PROVE  IgmpInvariant'
  <1>1. filter[n] \in FilterEntry
    BY DEF IgmpInvariant, IgmpTyped
  <1>2. filter' = [filter EXCEPT ![n] = IdleMember(filter[n], TRUE)]
    BY DEF igmpTick
  <1>3. IdleMember(filter[n], TRUE) \in FilterEntry
        /\ IdleMember(filter[n], TRUE).state # "NON_MEMBER"
    BY <1>1, EntryChanges
  <1>4. /\ filter' \in [Node -> FilterEntry]
        /\ \A m \in Node : filter'[m].refCount > 0 => filter'[m].state # "NON_MEMBER"
    BY <1>2, <1>3, FilterUpdate DEF IgmpInvariant
  <1> QED
    BY <1>4, ReportsReach, ReportComingSuffices DEF igmpTick, IgmpInvariant, IgmpTyped

\* A link that comes up makes a listener report, one that goes down makes it
\* none that could be served.
LEMMA LinkChangeKeeps ==
    ASSUME IgmpInvariant, NEW n \in Node, igmpLinkChangeEvent(n)
    PROVE  IgmpInvariant'
  <1>1. /\ linkState \in [Node -> BOOLEAN] /\ filter \in [Node -> FilterEntry]
        /\ packets \in [Node \cup {Router} -> Seq(PacketKind)]
        /\ filter[n] \in FilterEntry /\ filter[n].refCount \in Nat
        /\ filter[n].refCount > 0 => filter[n].state # "NON_MEMBER"
    BY DEF IgmpInvariant, IgmpTyped, FilterEntry
  <1>2. /\ linkState' = [linkState EXCEPT ![n] = ~ linkState[n]] /\ router' = router
        /\ linkState' \in [Node -> BOOLEAN]
        /\ linkState'[n] = ~ linkState[n]
        /\ \A m \in Node : m # n => linkState'[m] = linkState[m]
    BY <1>1 DEF igmpLinkChangeEvent
  <1>3. /\ filter' \in [Node -> FilterEntry]
        /\ \A m \in Node : m # n => filter'[m] = filter[m]
        /\ \A m \in Node : filter'[m].refCount > 0 => filter'[m].state # "NON_MEMBER"
        /\ filter'[n].refCount = filter[n].refCount
    <2>1. CASE filter[n].refCount = 0
      BY <1>1, <2>1 DEF igmpLinkChangeEvent, IgmpInvariant, IgmpTyped
    <2>2. CASE filter[n].refCount > 0 /\ linkState[n]
      <3>3. filter[n].refCount # 0
        BY <1>1, <2>2
      <3>1. filter' = [filter EXCEPT ![n] = IdleMember(filter[n], FALSE)]
        BY <2>2, <3>3, Zenon DEF igmpLinkChangeEvent
      <3>2. /\ IdleMember(filter[n], FALSE) \in FilterEntry
            /\ IdleMember(filter[n], FALSE).state # "NON_MEMBER"
            /\ IdleMember(filter[n], FALSE).refCount = filter[n].refCount
        BY <1>1, EntryChanges
      <3> QED
        BY <3>1, <3>2, FilterUpdate DEF IgmpInvariant
    <2>3. CASE filter[n].refCount > 0 /\ ~ linkState[n]
      <3>1. filter' = [filter EXCEPT ![n] = Delaying(filter[n])]
        BY <1>1, <2>3 DEF igmpLinkChangeEvent
      <3>2. /\ Delaying(filter[n]) \in FilterEntry
            /\ Delaying(filter[n]).state # "NON_MEMBER"
            /\ Delaying(filter[n]).refCount = filter[n].refCount
        BY <1>1, EntryChanges
      <3> QED
        BY <3>1, <3>2, FilterUpdate DEF IgmpInvariant
    <2> QED
      BY <1>1, <2>1, <2>2, <2>3
  <1>4. CASE linkState[n]
    <2>1. packets' = [packets EXCEPT ![n] = << >>]
      BY <1>4 DEF igmpLinkChangeEvent
    <2>2. << >> \in Seq(PacketKind)
      OBVIOUS
    <2>3. /\ packets' \in [Node \cup {Router} -> Seq(PacketKind)]
          /\ packets'[Router] = packets[Router]
          /\ \A m \in Node : m # n => packets'[m] = packets[m]
      BY <1>1, <2>1, <2>2, IgmpAssumption
    <2>4. IgmpTyped'
      BY <1>2, <1>3, <2>3 DEF IgmpInvariant, IgmpTyped
    <2>5. ~ linkState'[n]
      BY <1>2, <1>4
    <2>6. ReportComing <=> ReportComing'
      BY <2>3 DEF ReportComing
    <2>7. \A m \in Node : m # n => (WillReport(m) <=> WillReport(m)')
      BY <1>3, <2>3 DEF WillReport
    <2>8. ListenersWillReport'
      BY <1>2, <1>3, <2>5, <2>6, <2>7 DEF IgmpInvariant, ListenersWillReport
    <2> QED
      BY <2>4, <2>8 DEF IgmpInvariant
  <1>5. CASE ~ linkState[n] /\ filter[n].refCount > 0
    <2>1. Reports(n)
      BY <1>5 DEF igmpLinkChangeEvent
    <2> QED
      BY <1>2, <1>3, <2>1, ReportsReach, ReportComingSuffices DEF IgmpInvariant, IgmpTyped
  <1>6. CASE ~ linkState[n] /\ filter[n].refCount = 0
    <2>1. packets' = packets
      BY <1>6 DEF igmpLinkChangeEvent
    <2>2. IgmpTyped'
      BY <1>2, <1>3, <2>1 DEF IgmpInvariant, IgmpTyped
    <2> QED
      BY <1>2, <1>3, <1>6, <2>1, <2>2
      DEF IgmpInvariant, ListenersWillReport, WillReport, ReportComing
  <1> QED
    BY <1>1, <1>4, <1>5, <1>6

\* A query that is heard last leaves the node delaying.
LEMMA MessageKeeps ==
    ASSUME IgmpInvariant, NEW n \in Node, igmpProcessMessage(n)
    PROVE  IgmpInvariant'
  <1> DEFINE q == packets[n]
             e == IF Head(q) = "query" THEN Queried(filter[n]) ELSE Reported(filter[n])
  <1>1. /\ q \in Seq(PacketKind) /\ q # << >> /\ packets' = [packets EXCEPT ![n] = Tail(q)]
        /\ packets \in [Node \cup {Router} -> Seq(PacketKind)]
        /\ filter' = [filter EXCEPT ![n] = e]
        /\ UNCHANGED <<linkState, router>>
    BY DEF igmpProcessMessage, IgmpInvariant, IgmpTyped
  <1>2. filter[n] \in FilterEntry /\ (filter[n].refCount > 0 => filter[n].state # "NON_MEMBER")
    BY DEF IgmpInvariant, IgmpTyped
  <1>3. /\ e \in FilterEntry /\ e.refCount = filter[n].refCount
        /\ e.refCount > 0 => e.state # "NON_MEMBER"
        /\ e.refCount > 0 /\ Head(q) = "query" => e.state = "DELAYING_MEMBER"
    BY <1>2, MessageChanges
  <1> HIDE DEF e
  <1>4. /\ filter' \in [Node -> FilterEntry]
        /\ filter'[n] = e /\ \A m \in Node : m # n => filter'[m] = filter[m]
        /\ \A m \in Node : filter'[m].refCount > 0 => filter'[m].state # "NON_MEMBER"
    BY <1>1, <1>3, FilterUpdate DEF IgmpInvariant
  <1>5. Tail(q) \in Seq(PacketKind)
    BY <1>1, TailOf
  <1>6. /\ packets' \in [Node \cup {Router} -> Seq(PacketKind)]
        /\ packets'[n] = Tail(q) /\ packets'[Router] = packets[Router]
        /\ \A m \in Node : m # n => packets'[m] = packets[m]
    BY <1>1, <1>5, IgmpAssumption
  <1>7. WillReport(n) /\ filter[n].refCount > 0 => WillReport(n)'
    <2> SUFFICES ASSUME WillReport(n), filter[n].refCount > 0 PROVE WillReport(n)'
      OBVIOUS
    <2>1. q[Len(q)] = "query"
      BY <1>1 DEF WillReport
    <2> HIDE DEF q
    <2>2. CASE Tail(q) # << >>
      BY <1>1, <1>6, <2>1, <2>2, TailOf DEF WillReport
    <2>3. CASE Tail(q) = << >>
      <3>1. Head(q) = "query"
        BY <1>1, <2>1, <2>3, TailOf
      <3> QED
        BY <1>3, <1>4, <1>6, <2>3, <3>1 DEF WillReport
    <2> QED
      BY <2>2, <2>3
  <1>8. \A m \in Node : m # n => (WillReport(m) <=> WillReport(m)')
    BY <1>4, <1>6 DEF WillReport
  <1>9. ReportComing <=> ReportComing'
    BY <1>6 DEF ReportComing
  <1>10. IgmpTyped'
    BY <1>1, <1>4, <1>6 DEF IgmpInvariant, IgmpTyped
  <1> HIDE DEF q
  <1> QED
    BY <1>1, <1>3, <1>4, <1>7, <1>8, <1>9, <1>10 DEF IgmpInvariant, ListenersWillReport

\* A report settles the matter; after a leave the router asks, if it forwards.
LEMMA RouterKeeps ==
    ASSUME IgmpInvariant, RouterReceives
    PROVE  IgmpInvariant'
  <1> DEFINE q == packets[Router]
             rest == [packets EXCEPT ![Router] = Tail(q)]
  <1>1. /\ q \in Seq(PacketKind) /\ q # << >> /\ UNCHANGED <<filter, linkState>>
        /\ packets \in [Node \cup {Router} -> Seq(PacketKind)]
        /\ router \in [forwards : BOOLEAN, waits : BOOLEAN]
    BY DEF RouterReceives, IgmpInvariant, IgmpTyped
  <1>2. Tail(q) \in Seq(PacketKind)
    BY <1>1, TailOf
  <1>3. /\ rest \in [Node \cup {Router} -> Seq(PacketKind)]
        /\ rest[Router] = Tail(q) /\ \A n \in Node : rest[n] = packets[n]
    BY <1>1, <1>2, IgmpAssumption
  <1>4. CASE Head(q) = "report"
    <2>1. router' = [forwards |-> TRUE, waits |-> FALSE] /\ packets' = rest
      BY <1>4 DEF RouterReceives
    <2> QED
      BY <1>1, <1>3, <2>1 DEF ListenersWillReport, IgmpInvariant, IgmpTyped
  <1>5. CASE Head(q) = "leave" /\ router.forwards
    <2>1. router' = [router EXCEPT !.waits = TRUE] /\ packets' = Sent(rest, Node, "query")
      BY <1>5 DEF RouterReceives
    <2>2. router' \in [forwards : BOOLEAN, waits : BOOLEAN]
      BY <1>1, <2>1
    <2> HIDE DEF rest
    <2>3. /\ packets' \in [Node \cup {Router} -> Seq(PacketKind)]
          /\ \A n \in Node : linkState[n] => WillReport(n)'
      BY <1>3, <2>1, QueryReaches
    <2> QED
      BY <1>1, <2>2, <2>3 DEF ListenersWillReport, IgmpInvariant, IgmpTyped
  <1>6. CASE Head(q) = "leave" /\ ~ router.forwards
    <2>1. router' = router /\ packets' = rest
      BY <1>6 DEF RouterReceives
    <2>2. ReportComing => ReportComing'
      <3> SUFFICES ASSUME NEW k \in DOMAIN q, q[k] = "report" PROVE ReportComing'
        BY DEF ReportComing
      <3>1. k # 1 /\ packets'[Router] = Tail(q)
        BY <1>1, <1>3, <1>6, <2>1, TailOf
      <3>2. k - 1 \in DOMAIN packets'[Router] /\ packets'[Router][k - 1] = "report"
        BY <1>1, <3>1, TailOf
      <3> QED
        BY <3>2 DEF ReportComing
    <2>3. \A n \in Node : WillReport(n) => WillReport(n)'
      BY <1>1, <1>3, <2>1 DEF WillReport
    <2>4. IgmpTyped'
      BY <1>1, <1>3, <2>1 DEF IgmpInvariant, IgmpTyped
    <2> QED
      BY <1>1, <2>1, <2>2, <2>3, <2>4 DEF ListenersWillReport, IgmpInvariant
  <1> QED
    BY <1>4, <1>5, <1>6 DEF RouterReceives

\* Every step of the nodes and of the router keeps the invariant.
LEMMA IgmpStep == IgmpInvariant /\ [IgmpNext]_igmpVars => IgmpInvariant'
  <1> SUFFICES ASSUME IgmpInvariant, [IgmpNext]_igmpVars PROVE IgmpInvariant'
    OBVIOUS
  <1>1. CASE RouterAsks
    <2>1. /\ router' = [router EXCEPT !.waits = TRUE]
          /\ packets' = Sent(packets, Node, "query") /\ UNCHANGED <<filter, linkState>>
      BY <1>1 DEF RouterAsks
    <2>2. /\ router' \in [forwards : BOOLEAN, waits : BOOLEAN]
          /\ packets \in [Node \cup {Router} -> Seq(PacketKind)]
      BY <2>1 DEF IgmpInvariant, IgmpTyped
    <2>3. /\ packets' \in [Node \cup {Router} -> Seq(PacketKind)]
          /\ \A n \in Node : linkState[n] => WillReport(n)'
      BY <2>1, <2>2, QueryReaches
    <2> QED
      BY <2>1, <2>2, <2>3 DEF IgmpInvariant, IgmpTyped, ListenersWillReport
  <1>2. CASE RouterGivesUp
    <2>1. \A n \in Node : ~ (linkState[n] /\ filter[n].refCount > 0)
      <3> SUFFICES ASSUME NEW n \in Node, linkState[n], filter[n].refCount > 0 PROVE FALSE
        OBVIOUS
      <3>1. packets[n] = << >> /\ packets[Router] = << >>
        BY <1>2 DEF RouterGivesUp, IgmpInvariant, IgmpTyped
      <3>2. ~ ReportComing /\ router.waits
        BY <1>2, <3>1 DEF ReportComing, RouterGivesUp
      <3>3. filter[n].state = "DELAYING_MEMBER"
        BY <3>1, <3>2 DEF IgmpInvariant, ListenersWillReport, WillReport
      <3> QED
        BY <1>2, <3>3 DEF RouterGivesUp, IsDelaying
    <2> QED
      BY <1>2, <2>1 DEF RouterGivesUp, IgmpInvariant, IgmpTyped, ListenersWillReport
  <1>3. CASE UNCHANGED igmpVars
    BY <1>3
    DEF igmpVars, IgmpInvariant, IgmpTyped, ListenersWillReport, WillReport, ReportComing
  <1> QED
    BY <1>1, <1>2, <1>3, JoinKeeps, LeaveKeeps, DelayKeeps, LinkChangeKeeps, MessageKeeps,
       RouterKeeps DEF IgmpNext

\* ListenersServed for any number of nodes, users of a group and packets on the
\* way: no node that igmpProcessReportMessage silences loses the group.
THEOREM ListenersAlwaysServed == IgmpSpec => []ListenersServed
  <1>1. IgmpInit => IgmpInvariant
    BY DEF IgmpInit, IgmpInvariant, IgmpTyped, ListenersWillReport, IgmpStates, FilterEntry
  <1>2. IgmpInvariant => ListenersServed
    <2> SUFFICES ASSUME IgmpInvariant, NEW n \in Node, linkState[n], filter[n].refCount > 0
                 PROVE  \/ router.forwards
                        \/ \E r \in DOMAIN packets : packets[r] # << >>
                        \/ \E m \in Node : linkState[m] /\ IsDelaying(m)
      BY DEF ListenersServed
    <2>1. CASE ReportComing
      <3>1. packets[Router] # << >> /\ Router \in DOMAIN packets
        BY <2>1 DEF ReportComing, IgmpInvariant, IgmpTyped
      <3> QED
        BY <3>1
    <2>2. CASE WillReport(n)
      <3>1. n \in DOMAIN packets
        BY DEF IgmpInvariant, IgmpTyped
      <3> QED
        BY <2>2, <3>1 DEF WillReport, IsDelaying
    <2> QED
      BY <2>1, <2>2 DEF IgmpInvariant, ListenersWillReport
  <1> QED
    BY <1>1, <1>2, IgmpStep, PTL DEF IgmpSpec

-----------------------------------------------------------------------------
(* Reassembly *)

Hole == [first : Nat, last : Nat]

Covers(h, u) == h.first <= u /\ u < h.last

\* Holes are not empty and do not touch.
Apart(holes) ==
    /\ \A h \in holes : h.first < h.last
    /\ \A g, h \in holes : g # h => g.last < h.first \/ h.last < g.first

\* What is missing of a datagram that ends at end is what the holes cover.
Exact(holes, received, end) ==
    \A u \in Nat : (\E h \in holes : Covers(h, u)) <=> u < end /\ u \notin received

Remaining(holes, first, last, more) == UNION {Remains(h, first, last, more) : h \in holes}

Descriptor == [id : Datagram \cup {NoDatagram}, dataLen : Nat, holes : SUBSET Hole,
               received : SUBSET Nat, last : BOOLEAN]

\* A descriptor in use, as ipv4ReassembleDatagram keeps it: the last unit of a
\* datagram arrives with its last fragment.
Consistent(e) ==
    /\ e.received \subseteq Units(0, Length[e.id])
    /\ Apart(e.holes)
    /\ e.last => e.dataLen = Length[e.id] /\ Exact(e.holes, e.received, Length[e.id])
    /\ ~ e.last => /\ e.dataLen <= Length[e.id] /\ Length[e.id] - 1 \notin e.received
                   /\ Exact(e.holes, e.received, Infinity)

\* What HandedWhole needs to be inductive.
FragInvariant ==
    /\ frags \in [FragSlot -> Descriptor]
    /\ \A i \in FragSlot : frags[i].id # NoDatagram => Consistent(frags[i])
    /\ \A i, j \in FragSlot : frags[i].id = frags[j].id /\ i # j => frags[i].id = NoDatagram
    /\ HandedWhole

\* What Remains leaves of a hole that the fragment meets, and of another.
LEMMA RemainsOf ==
    ASSUME NEW h \in Hole, NEW first \in Nat, NEW last \in Nat, NEW more \in BOOLEAN,
           NEW g \in Remains(h, first, last, more)
    PROVE  /\ g \in Hole
           /\ \/ g = h /\ ~ (first < h.last /\ last > h.first)
              \/ /\ first < h.last /\ last > h.first /\ first > h.first
                 /\ g.first = h.first /\ g.last = first
              \/ /\ first < h.last /\ last > h.first /\ last < h.last /\ more
                 /\ g.first = last /\ g.last = h.last
  BY DEF Remains, Hole

LEMMA RemainsHas ==
    ASSUME NEW h \in Hole, NEW first \in Nat, NEW last \in Nat, NEW more \in BOOLEAN
    PROVE  /\ ~ (first < h.last /\ last > h.first) => h \in Remains(h, first, last, more)
           /\ first < h.last /\ last > h.first /\ first > h.first =>
                 [first |-> h.first, last |-> first] \in Remains(h, first, last, more)
           /\ first < h.last /\ last > h.first /\ last < h.last /\ more =>
                 [first |-> last, last |-> h.last] \in Remains(h, first, last, more)
  BY DEF Remains, Hole

\* Every hole that remains is a part of a hole, and lies outside the fragment.
LEMMA RemainingOf ==
    ASSUME NEW holes \in SUBSET Hole, NEW first \in Nat, NEW last \in Nat, NEW more \in BOOLEAN,
           NEW g \in Remaining(holes, first, last, more)
    PROVE  g \in Hole /\ \E h \in holes : g \in Remains(h, first, last, more)
  BY RemainsOf DEF Remaining

\* The holes that remain do not touch.
LEMMA RemainingApart ==
    ASSUME NEW holes \in SUBSET Hole, NEW first \in Nat, NEW last \in Nat, NEW more \in BOOLEAN,
           first < last, Apart(holes)
    PROVE  /\ Remaining(holes, first, last, more) \in SUBSET Hole
           /\ Apart(Remaining(holes, first, last, more))
  <1> DEFINE rest == Remaining(holes, first, last, more)
  <1>1. ASSUME NEW g \in rest
        PROVE  \E h \in holes : /\ g \in Remains(h, first, last, more) /\ g \in Hole
                                /\ h.first <= g.first /\ g.last <= h.last /\ g.first < g.last
    <2>1. PICK h \in holes : g \in Remains(h, first, last, more)
      BY RemainingOf
    <2>2. h \in Hole /\ h.first \in Nat /\ h.last \in Nat /\ h.first < h.last
      BY DEF Apart, Hole
    <2> QED
      BY <2>1, <2>2, RemainsOf
  <1>2. ASSUME NEW g \in rest, NEW f \in rest, g # f
        PROVE  g.last < f.first \/ f.last < g.first
    <2>1. PICK h \in holes : /\ g \in Remains(h, first, last, more) /\ g \in Hole
                             /\ h.first <= g.first /\ g.last <= h.last /\ g.first < g.last
      BY <1>1
    <2>2. PICK k \in holes : /\ f \in Remains(k, first, last, more) /\ f \in Hole
                             /\ k.first <= f.first /\ f.last <= k.last /\ f.first < f.last
      BY <1>1
    <2>3. /\ {g.first, g.last, f.first, f.last, h.first, h.last, k.first, k.last} \subseteq Nat
          /\ h \in Hole /\ k \in Hole
      BY <2>1, <2>2 DEF Hole
    <2>4. CASE h # k
      <3>1. h.last < k.first \/ k.last < h.first
        BY <2>4 DEF Apart
      <3> QED
        BY <2>1, <2>2, <2>3, <3>1
    <2>5. CASE h = k
      <3>1. f \in Remains(h, first, last, more)
        BY <2>2, <2>5
      <3>2. g.first # f.first \/ g.last # f.last
        BY <1>2, <2>1, <2>2 DEF Hole
      <3>3. \/ g = h /\ ~ (first < h.last /\ last > h.first)
            \/ /\ first < h.last /\ last > h.first /\ first > h.first
               /\ g.first = h.first /\ g.last = first
            \/ /\ first < h.last /\ last > h.first /\ last < h.last
               /\ g.first = last /\ g.last = h.last
        BY <2>1, <2>3, RemainsOf
      <3>4. \/ f = h /\ ~ (first < h.last /\ last > h.first)
            \/ /\ first < h.last /\ last > h.first /\ first > h.first
               /\ f.first = h.first /\ f.last = first
            \/ /\ first < h.last /\ last > h.first /\ last < h.last
               /\ f.first = last /\ f.last = h.last
        BY <3>1, <2>3, RemainsOf
      <3> QED
        BY <2>3, <3>2, <3>3, <3>4
    <2> QED
      BY <2>4, <2>5
  <1> QED
    BY <1>1, <1>2 DEF Apart

\* A fragment with more behind it: exactly its units are no longer missing.
LEMMA RemainingExact ==
    ASSUME NEW holes \in SUBSET Hole, NEW received \in SUBSET Nat, NEW end \in Nat,
           NEW first \in Nat, NEW last \in Nat, first < last, NEW more \in BOOLEAN \ {FALSE},
           Exact(holes, received, end)
    PROVE  Exact(Remaining(holes, first, last, more), received \cup Units(first, last), end)
  <1> DEFINE rest == Remaining(holes, first, last, more)
  <1>4. \A u \in Nat : u \in Units(first, last) <=> first <= u /\ u < last
    BY DEF Units
  <1> SUFFICES ASSUME NEW u \in Nat
               PROVE  (\E g \in rest : Covers(g, u)) <=>
                      u < end /\ u \notin received \cup Units(first, last)
    BY Zenon DEF Exact
  <1>1. (\E h \in holes : Covers(h, u)) <=> u < end /\ u \notin received
    BY DEF Exact
  <1>2. ASSUME NEW g \in rest, Covers(g, u)
        PROVE  u < end /\ u \notin received /\ ~ (first <= u /\ u < last)
    <2>1. PICK h \in holes : g \in Remains(h, first, last, more)
      BY RemainingOf
    <2>2. h \in Hole /\ g \in Hole /\ {h.first, h.last, g.first, g.last} \subseteq Nat
      BY <2>1, RemainsOf DEF Hole
    <2>3. Covers(h, u) /\ ~ (first <= u /\ u < last)
      BY <1>2, <2>1, <2>2, RemainsOf DEF Covers
    <2> QED
      BY <1>1, <2>3
  <1>3. ASSUME u < end, u \notin received, ~ (first <= u /\ u < last)
        PROVE  \E g \in rest : Covers(g, u)
    <2>1. PICK h \in holes : Covers(h, u)
      BY <1>1, <1>3
    <2>2. h \in Hole /\ h.first \in Nat /\ h.last \in Nat
      BY DEF Hole
    <2> DEFINE front == [first |-> h.first, last |-> first]
               back == [first |-> last, last |-> h.last]
    <2>3. \A g : g \in Remains(h, first, last, more) => g \in rest
      BY DEF Remaining
    <2>4. CASE ~ (first < h.last /\ last > h.first)
      BY <2>1, <2>2, <2>3, <2>4, RemainsHas
    <2>5. CASE first < h.last /\ last > h.first /\ u < first
      <3>3. first > h.first
        BY <2>1, <2>2, <2>5 DEF Covers
      <3>1. front \in rest
        BY <2>2, <2>3, <2>5, <3>3, RemainsHas, Zenon
      <3>2. Covers(front, u)
        BY <2>1, <2>2, <2>5 DEF Covers
      <3> QED
        BY <3>1, <3>2
    <2>6. CASE first < h.last /\ last > h.first /\ last <= u
      <3>3. last < h.last
        BY <2>1, <2>2, <2>6 DEF Covers
      <3>4. more
        BY Zenon
      <3>1. back \in rest
        BY <2>2, <2>3, <2>6, <3>3, <3>4, RemainsHas, Zenon
      <3>2. Covers(back, u)
        BY <2>1, <2>2, <2>6 DEF Covers
      <3> QED
        BY <3>1, <3>2
    <2>7. u < first \/ last <= u
      BY <1>3
    <2> QED
      BY <2>2, <2>4, <2>5, <2>6, <2>7, Zenon
  <1> QED
    BY <1>2, <1>3, <1>4

\* While the last fragment has not arrived, the hole behind the end of the
\* datagram begins before it: the last fragment meets it.
LEMMA HoleAtTheEnd ==
    ASSUME NEW holes \in SUBSET Hole, NEW received \in SUBSET Nat, NEW len \in Nat \ {0},
           Apart(holes), Exact(holes, received, Infinity), len < Infinity,
           \A u \in received : u < len - 1,
           NEW h \in holes, NEW u \in Nat, Covers(h, u), len <= u
    PROVE  h.first < len
  <1>1. Infinity \in Nat /\ len - 1 \in Nat
    BY FragAssumption
  <1>2. PICK g \in holes : Covers(g, len - 1)
    BY <1>1 DEF Exact
  <1>3. {g.first, g.last, h.first, h.last} \subseteq Nat
    BY DEF Hole
  <1>4. SUFFICES ASSUME g # h, g.last < h.first PROVE FALSE
    <2>1. CASE g = h
      BY <1>1, <1>2, <1>3, <2>1 DEF Covers
    <2>2. CASE g # h /\ h.last < g.first
      BY <1>1, <1>2, <1>3, <2>2 DEF Covers
    <2> QED
      BY <1>4, <2>1, <2>2 DEF Apart
  <1>5. u < Infinity
    BY DEF Exact
  <1>6. g.last \in Nat /\ len <= g.last /\ g.last < Infinity /\ g.last \notin received
    BY <1>1, <1>2, <1>3, <1>4, <1>5 DEF Covers
  <1>7. PICK k \in holes : Covers(k, g.last)
    BY <1>6 DEF Exact
  <1>8. k.first \in Nat /\ k.last \in Nat
    BY DEF Hole
  <1>9. k # g /\ (k.last < g.first \/ g.last < k.first)
    BY <1>3, <1>7 DEF Covers, Apart
  <1> QED
    BY <1>2, <1>3, <1>7, <1>8, <1>9 DEF Covers

\* The last fragment: nothing is missing behind it.
LEMMA RemainingExactLast ==
    ASSUME NEW holes \in SUBSET Hole, NEW received \in SUBSET Nat, NEW end \in Nat,
           NEW first \in Nat, NEW len \in Nat \ {0}, first < len, len <= end,
           NEW more \in BOOLEAN, ~ more,
           Exact(holes, received, end),
           \A h \in holes : \A u \in Nat : Covers(h, u) /\ len <= u => h.first < len
    PROVE  Exact(Remaining(holes, first, len, more), received \cup Units(first, len), len)
  <1> DEFINE rest == Remaining(holes, first, len, more)
  <1>4. \A u \in Nat : u \in Units(first, len) <=> first <= u /\ u < len
    BY DEF Units
  <1> SUFFICES ASSUME NEW u \in Nat
               PROVE  (\E g \in rest : Covers(g, u)) <=>
                      u < len /\ u \notin received \cup Units(first, len)
    BY Zenon DEF Exact
  <1>1. (\E h \in holes : Covers(h, u)) <=> u < end /\ u \notin received
    BY DEF Exact
  <1>2. ASSUME NEW g \in rest, Covers(g, u)
        PROVE  u < len /\ u \notin received /\ ~ (first <= u /\ u < len)
    <2>1. PICK h \in holes : g \in Remains(h, first, len, more)
      BY RemainingOf
    <2>2. h \in Hole /\ g \in Hole /\ {h.first, h.last, g.first, g.last} \subseteq Nat
      BY <2>1, RemainsOf DEF Hole
    <2>3. \/ g = h /\ ~ (first < h.last /\ len > h.first)
          \/ first < h.last /\ g.first = h.first /\ g.last = first
      BY <2>1, <2>2, RemainsOf
    <2>4. Covers(h, u)
      BY <1>2, <2>2, <2>3 DEF Covers
    <2>5. u < first
      BY <1>2, <2>2, <2>3, <2>4 DEF Covers
    <2> QED
      BY <1>1, <2>4, <2>5
  <1>3. ASSUME u < len, u \notin received, ~ (first <= u /\ u < len)
        PROVE  \E g \in rest : Covers(g, u)
    <2>1. PICK h \in holes : Covers(h, u)
      BY <1>1, <1>3
    <2>2. h \in Hole /\ h.first \in Nat /\ h.last \in Nat
      BY DEF Hole
    <2> DEFINE front == [first |-> h.first, last |-> first]
    <2>3. \A g : g \in Remains(h, first, len, more) => g \in rest
      BY DEF Remaining
    <2>4. CASE ~ (first < h.last /\ len > h.first)
      BY <2>1, <2>2, <2>3, <2>4, RemainsHas
    <2>5. CASE first < h.last /\ len > h.first
      <3>3. first > h.first
        BY <1>3, <2>1, <2>2, <2>5 DEF Covers
      <3>1. front \in rest
        BY <2>2, <2>3, <2>5, <3>3, RemainsHas, Zenon
      <3>2. Covers(front, u)
        BY <1>3, <2>1, <2>2, <2>5 DEF Covers
      <3> QED
        BY <3>1, <3>2
    <2> QED
      BY <2>4, <2>5
  <1> QED
    BY <1>2, <1>3, <1>4

\* The larger of two numbers.
LEMMA MaxOfTwo ==
    ASSUME NEW a \in Nat, NEW b \in Nat
    PROVE  Max({a, b}) = IF a >= b THEN a ELSE b
  BY DEF Max

\* A fragment keeps a descriptor consistent.
LEMMA FilledConsistent ==
    ASSUME NEW d \in Datagram, NEW e \in Descriptor, e.id = d, Consistent(e),
           NEW first \in 0..(Length[d] - 1), NEW last \in (first + 1)..Length[d]
    PROVE  LET f == Filled(e, first, last, last < Length[d])
           IN  f \in Descriptor /\ f.id = d /\ Consistent(f)
  <1> DEFINE more == last < Length[d]
             f == Filled(e, first, last, more)
             len == Length[d]
             rest == Remaining(e.holes, first, last, more)
  <1>1. /\ len \in Nat \ {0} /\ Infinity \in Nat /\ len < Infinity
        /\ first \in Nat /\ last \in Nat /\ first < last /\ last <= len /\ more \in BOOLEAN
    BY FragAssumption
  <1>2. /\ e.holes \in SUBSET Hole /\ e.received \in SUBSET Nat /\ e.dataLen \in Nat
        /\ e.last \in BOOLEAN
    BY DEF Descriptor
  <1> HIDE DEF more, rest, len
  <1>3. /\ f.id = d /\ f.dataLen = Max({e.dataLen, last}) /\ f.holes = rest
        /\ f.received = e.received \cup Units(first, last) /\ f.last = (e.last \/ ~ more)
    BY DEF Filled, Descriptor, rest, Remaining
  <1>4. Apart(e.holes) /\ e.received \subseteq Units(0, len) /\ e.dataLen <= len
    BY <1>1, <1>2 DEF Consistent, len
  <1>5. rest \in SUBSET Hole /\ Apart(rest)
    BY <1>1, <1>2, <1>4, RemainingApart DEF rest
  <1>6. f.dataLen = (IF e.dataLen >= last THEN e.dataLen ELSE last) /\ f.dataLen \in Nat
    BY <1>1, <1>2, <1>3, MaxOfTwo
  <1>7. Units(first, last) \subseteq Nat /\ Units(first, last) \subseteq Units(0, len)
    BY <1>1 DEF Units
  <1>8. f \in Descriptor
    <2>1. f.received \in SUBSET Nat /\ f.last \in BOOLEAN /\ f.holes \in SUBSET Hole
      BY <1>2, <1>3, <1>5, <1>7
    <2> QED
      BY <1>3, <1>6, <2>1 DEF Filled, Descriptor
  <1>9. f.received \subseteq Units(0, len) /\ Apart(f.holes)
    BY <1>3, <1>4, <1>5, <1>7
  <1>10. CASE e.last /\ more
    <2>1. e.dataLen = len /\ Exact(e.holes, e.received, len)
      BY <1>10 DEF Consistent, len
    <2>2. Exact(rest, f.received, len)
      <3>1. more \in BOOLEAN \ {FALSE}
        BY <1>1, <1>10
      <3>2. /\ first \in Nat /\ last \in Nat /\ first < last
            /\ len \in Nat /\ Infinity \in Nat
        BY <1>1
      <3>3. f.received = e.received \cup Units(first, last)
        BY <1>3
      <3> HIDE DEF f
      <3>4. Exact(rest, e.received \cup Units(first, last), len)
        BY <1>2, <2>1, <3>1, <3>2, RemainingExact, Zenon DEF rest
      <3> QED
        BY <3>3, <3>4, Zenon
    <2> QED
      BY <1>1, <1>3, <1>6, <1>8, <1>9, <1>10, <2>1, <2>2 DEF Consistent, len, more
  <1>11. CASE ~ e.last /\ more
    <2>1. /\ e.dataLen <= len /\ len - 1 \notin e.received
          /\ Exact(e.holes, e.received, Infinity)
      BY <1>11 DEF Consistent, len
    <2>2. Exact(rest, f.received, Infinity)
      <3>1. more \in BOOLEAN \ {FALSE}
        BY <1>1, <1>11
      <3>2. /\ first \in Nat /\ last \in Nat /\ first < last
            /\ len \in Nat /\ Infinity \in Nat
        BY <1>1
      <3>3. f.received = e.received \cup Units(first, last)
        BY <1>3
      <3> HIDE DEF f
      <3>4. Exact(rest, e.received \cup Units(first, last), Infinity)
        BY <1>2, <2>1, <3>1, <3>2, RemainingExact, Zenon DEF rest
      <3> QED
        BY <3>3, <3>4, Zenon
    <2>3. len - 1 \notin f.received
      BY <1>1, <1>3, <1>11, <2>1 DEF Units, more, len
    <2> QED
      BY <1>1, <1>3, <1>6, <1>8, <1>9, <1>11, <2>1, <2>2, <2>3 DEF Consistent, len, more
  <1>12. CASE ~ more
    <2>1. last = len
      BY <1>1, <1>12 DEF more, len
    <2>2. Exact(rest, f.received, len)
      <3>1. CASE e.last
        <4>1. Exact(e.holes, e.received, len)
          BY <3>1 DEF Consistent, len
        <4>2. \A h \in e.holes : \A u \in Nat : Covers(h, u) /\ len <= u => h.first < len
          BY <1>1, <4>1 DEF Exact
        <4> QED
          BY <1>1, <1>2, <1>3, <1>12, <2>1, <4>1, <4>2, RemainingExactLast DEF rest
      <3>2. CASE ~ e.last
        <4>1. Exact(e.holes, e.received, Infinity) /\ len - 1 \notin e.received
          BY <3>2 DEF Consistent, len
        <4>2. \A u \in e.received : u < len - 1
          BY <1>1, <1>2, <1>4, <4>1 DEF Units
        <4>3. \A h \in e.holes : \A u \in Nat : Covers(h, u) /\ len <= u => h.first < len
          BY <1>1, <1>2, <1>4, <4>1, <4>2, HoleAtTheEnd
        <4> QED
          BY <1>1, <1>2, <1>3, <1>12, <2>1, <4>1, <4>3, RemainingExactLast DEF rest
      <3> QED
        BY <1>2, <3>1, <3>2
    <2>3. f.dataLen = len
      BY <1>1, <1>2, <1>4, <1>6, <2>1
    <2> QED
      BY <1>3, <1>8, <1>9, <1>12, <2>2, <2>3 DEF Consistent, len, more
  <1> QED
    BY <1>2, <1>10, <1>11, <1>12 DEF more

\* A descriptor without holes holds the whole datagram.
LEMMA CompleteIsWhole ==
    ASSUME NEW e \in Descriptor, e.id \in Datagram, Consistent(e), Complete(e)
    PROVE  e.received = Units(0, Length[e.id]) /\ e.dataLen = Length[e.id]
  <1> DEFINE len == Length[e.id]
  <1>1. len \in Nat \ {0} /\ Infinity \in Nat /\ len < Infinity /\ e.last \in BOOLEAN
    BY FragAssumption DEF Descriptor
  <1>2. e.last
    <2> SUFFICES ASSUME ~ e.last PROVE FALSE
      BY <1>1
    <2>1. Exact(e.holes, e.received, Infinity) /\ e.received \subseteq Units(0, len)
      BY DEF Consistent
    <2>2. len \notin e.received
      BY <1>1, <2>1 DEF Units
    <2> QED
      BY <1>1, <2>1, <2>2 DEF Exact, Complete
  <1>3. /\ Exact(e.holes, e.received, len) /\ e.received \subseteq Units(0, len)
        /\ e.dataLen = len
    BY <1>2 DEF Consistent
  <1>4. \A u \in Nat : u < len => u \in e.received
    BY <1>3 DEF Exact, Complete
  <1>5. Units(0, len) \subseteq e.received
    BY <1>1, <1>4 DEF Units
  <1> QED
    BY <1>3, <1>5

LEMMA FreshConsistent ==
    ASSUME NEW d \in Datagram
    PROVE  Fresh(d) \in Descriptor /\ Fresh(d).id = d /\ Consistent(Fresh(d))
  <1>1. Length[d] \in Nat \ {0} /\ Infinity \in Nat /\ Length[d] < Infinity
    BY FragAssumption
  <1> DEFINE h == [first |-> 0, last |-> Infinity]
  <1>2. /\ Fresh(d).id = d /\ Fresh(d).dataLen = 0 /\ Fresh(d).holes = {h}
        /\ Fresh(d).received = {} /\ Fresh(d).last = FALSE
    BY DEF Fresh, Released
  <1>4. h \in Hole /\ h.first = 0 /\ h.last = Infinity
    BY <1>1 DEF Hole
  <1>5. Fresh(d) \in Descriptor
    BY <1>4 DEF Fresh, Released, Descriptor
  <1> HIDE DEF h
  <1>3. Exact({h}, {}, Infinity) /\ Apart({h})
    BY <1>1, <1>4 DEF Exact, Apart, Covers
  <1> QED
    BY <1>1, <1>2, <1>3, <1>5 DEF Consistent

LEMMA ReleasedTyped == Released \in Descriptor /\ Released.id = NoDatagram
  BY DEF Released, Descriptor

\* Every fragment, timeout and link change keeps the invariant.
LEMMA FragStep == FragInvariant /\ [FragNext]_fragVars => FragInvariant'
  <1> SUFFICES ASSUME FragInvariant, [FragNext]_fragVars PROVE FragInvariant'
    OBVIOUS
  <1>1. ASSUME NEW d \in Datagram, NEW memory \in BOOLEAN,
               NEW first \in 0..(Length[d] - 1), NEW last \in (first + 1)..Length[d],
               ipv4ReassembleDatagram(d, first, last, memory)
        PROVE  FragInvariant'
    <2>1. PICK i \in ipv4SearchFragQueue(d) :
             LET e == IF frags[i].id = d THEN frags[i] ELSE Fresh(d)
                 f == Filled(e, first, last, last < Length[d])
             IN  \/ frags' = [frags EXCEPT ![i] = Released] /\ UNCHANGED handed
                 \/ ~ Complete(f) /\ frags' = [frags EXCEPT ![i] = f] /\ UNCHANGED handed
                 \/ /\ Complete(f)
                    /\ frags' = [frags EXCEPT ![i] = Released]
                    /\ handed' = handed \cup {[id |-> d, dataLen |-> f.dataLen,
                                               received |-> f.received]}
      BY <1>1 DEF ipv4ReassembleDatagram
    <2>2. /\ i \in FragSlot /\ d # NoDatagram
          /\ frags[i].id = d \/ \A j \in FragSlot : frags[j].id # d
      <3>1. {j \in FragSlot : frags[j].id = NoDatagram} \in SUBSET Nat
        BY FragAssumption DEF FragSlot
      <3> QED
        BY <3>1, MinIsMember, FragAssumption DEF ipv4SearchFragQueue
    <2> DEFINE e == IF frags[i].id = d THEN frags[i] ELSE Fresh(d)
               f == Filled(e, first, last, last < Length[d])
    <2>3. e \in Descriptor /\ e.id = d /\ Consistent(e)
      BY <2>2, FreshConsistent DEF FragInvariant
    <2> HIDE DEF e
    <2>4. f \in Descriptor /\ f.id = d /\ Consistent(f)
      BY <2>3, FilledConsistent
    <2>5. \/ frags' = [frags EXCEPT ![i] = Released] /\ UNCHANGED handed
          \/ ~ Complete(f) /\ frags' = [frags EXCEPT ![i] = f] /\ UNCHANGED handed
          \/ /\ Complete(f)
             /\ frags' = [frags EXCEPT ![i] = Released]
             /\ handed' = handed \cup {[id |-> d, dataLen |-> f.dataLen,
                                        received |-> f.received]}
      BY <2>1 DEF e
    <2> HIDE DEF f
    <2>6. frags \in [FragSlot -> Descriptor]
      BY DEF FragInvariant
    <2>7. CASE frags' = [frags EXCEPT ![i] = Released]
      <3>1. /\ frags' \in [FragSlot -> Descriptor] /\ frags'[i] = Released
            /\ \A j \in FragSlot : j # i => frags'[j] = frags[j]
        BY <2>2, <2>6, <2>7, ReleasedTyped
      <3>2. \A h \in handed' : h \in handed \/
               (Complete(f) /\ h = [id |-> d, dataLen |-> f.dataLen, received |-> f.received])
        BY <2>5
      <3>3. Complete(f) => f.received = Units(0, Length[d]) /\ f.dataLen = Length[d]
        BY <2>4, CompleteIsWhole
      <3>4. HandedWhole'
        BY <3>2, <3>3 DEF HandedWhole, FragInvariant
      <3>5. \A j \in FragSlot : frags'[j].id # NoDatagram => j # i
        BY <3>1, ReleasedTyped
      <3> QED
        BY <3>1, <3>4, <3>5, ReleasedTyped DEF FragInvariant
    <2>8. CASE frags' = [frags EXCEPT ![i] = f] /\ UNCHANGED handed
      <3>1. /\ frags' \in [FragSlot -> Descriptor] /\ frags'[i] = f
            /\ \A j \in FragSlot : j # i => frags'[j] = frags[j]
        BY <2>2, <2>4, <2>6, <2>8
      <3>2. HandedWhole'
        BY <2>8 DEF HandedWhole, FragInvariant
      <3>3. \A j \in FragSlot : j # i => frags[j].id # d
        BY <2>2 DEF FragInvariant
      <3>4. \A j \in FragSlot : frags'[j].id # NoDatagram => Consistent(frags'[j])
        BY <2>4, <3>1 DEF FragInvariant
      <3>5. \A j, k \in FragSlot : frags'[j].id = frags'[k].id /\ j # k => frags'[j].id = NoDatagram
        BY <2>4, <3>1, <3>3 DEF FragInvariant
      <3> QED
        BY <3>1, <3>2, <3>4, <3>5 DEF FragInvariant
    <2> QED
      BY <2>5, <2>7, <2>8
  <1>2. ASSUME NEW due \in SUBSET FragSlot, ipv4FragTick(due) PROVE FragInvariant'
    <2>1. /\ frags' \in [FragSlot -> Descriptor]
          /\ \A i \in FragSlot : frags'[i] \in {Released, frags[i]}
      BY <1>2, ReleasedTyped DEF ipv4FragTick, FragInvariant
    <2>2. HandedWhole'
      BY <1>2 DEF ipv4FragTick, HandedWhole, FragInvariant
    <2> QED
      BY <2>1, <2>2, ReleasedTyped DEF FragInvariant
  <1>3. CASE ipv4FlushFragQueue
    <2>1. frags' \in [FragSlot -> Descriptor] /\ \A i \in FragSlot : frags'[i] = Released
      BY <1>3, ReleasedTyped DEF ipv4FlushFragQueue
    <2>2. HandedWhole'
      BY <1>3 DEF ipv4FlushFragQueue, HandedWhole, FragInvariant
    <2> QED
      BY <2>1, <2>2, ReleasedTyped DEF FragInvariant
  <1>4. CASE UNCHANGED fragVars
    BY <1>4 DEF fragVars, FragInvariant, HandedWhole
  <1> QED
    BY <1>1, <1>2, <1>3, <1>4 DEF FragNext

LEMMA FragInvariantHolds == FragSpec => []FragInvariant
  <1>1. FragInit => FragInvariant
    BY ReleasedTyped DEF FragInit, FragInvariant, HandedWhole
  <1> QED
    BY <1>1, FragStep, PTL DEF FragSpec

\* HandedWhole for any lengths, any number of descriptors and any cuts into
\* fragments, which may overlap: ipv4ReassembleDatagram hands over whole
\* datagrams only.
THEOREM AlwaysHandedWhole == FragSpec => []HandedWhole
  <1>1. FragInvariant => HandedWhole
    BY DEF FragInvariant
  <1> QED
    BY <1>1, FragInvariantHolds, PTL

\* HolesExact: the hole list ipv4ReassembleDatagram keeps in the gaps of the
\* datagram always describes exactly what has not arrived.
THEOREM HolesAlwaysExact == FragSpec => []HolesExact
  <1>1. FragInvariant => HolesExact
    <2> SUFFICES ASSUME FragInvariant PROVE HolesExact
      OBVIOUS
    <2>1. ASSUME NEW i \in FragSlot, frags[i].id # NoDatagram
          PROVE  LET e == frags[i]
                     end == IF e.last THEN Length[e.id] ELSE Infinity
                 IN  /\ UNION {Units(h.first, h.last) : h \in e.holes} = Units(0, end) \ e.received
                     /\ \A h \in e.holes : h.first < h.last
                     /\ \A g, h \in e.holes : g # h => g.last < h.first \/ h.last < g.first
      <3> DEFINE e == frags[i]
                 end == IF e.last THEN Length[e.id] ELSE Infinity
      <3>1. e \in Descriptor /\ e.id \in Datagram /\ Consistent(e)
        BY <2>1 DEF FragInvariant, Descriptor
      <3>2. end \in Nat /\ e.holes \in SUBSET Hole /\ e.last \in BOOLEAN
        BY <3>1, FragAssumption DEF Descriptor
      <3>3. Exact(e.holes, e.received, end) /\ Apart(e.holes)
        BY <3>1, <3>2 DEF Consistent
      <3> HIDE DEF e, end
      <3>4. \A u : u \in UNION {Units(h.first, h.last) : h \in e.holes} <=>
                   u \in Nat /\ \E h \in e.holes : Covers(h, u)
        <4>1. \A h \in e.holes : h.first \in Nat /\ h.last \in Nat
          BY <3>2 DEF Hole
        <4>2. \A h \in e.holes : \A u : u \in Units(h.first, h.last) <=> u \in Nat /\ Covers(h, u)
          BY <4>1 DEF Units, Covers
        <4> QED
          BY <4>2
      <3>5. \A u : u \in Units(0, end) <=> u \in Nat /\ u < end
        BY <3>2 DEF Units
      <3>6. UNION {Units(h.first, h.last) : h \in e.holes} = Units(0, end) \ e.received
        BY <3>3, <3>4, <3>5 DEF Exact
      <3> QED
        BY <3>3, <3>6 DEF Apart, e, end
    <2> QED
      BY <2>1 DEF HolesExact, FragInvariant
  <1> QED
    BY <1>1, FragInvariantHolds, PTL

-----------------------------------------------------------------------------
(* The ARP cache *)

ArpEntry == [state : ArpStates, ipAddr : Addr \cup {NoAddr}, macAddr : Mac \cup {NoAddr},
             retransmitCount : Nat, queue : Seq(Addr \cup {NoAddr})]

\* An entry and the number of buffers allocated for its queue fit.
Owned(e, count) ==
    /\ count = Len(e.queue) /\ Len(e.queue) <= MaxPending
    /\ e.queue # << >> => e.state = "INCOMPLETE"
    /\ \A k \in DOMAIN e.queue : e.queue[k] = e.ipAddr

\* No neighbour has two entries.
OneEntryEach ==
    \A i, j \in ArpSlot :
        arp[i].state # "NONE" /\ arp[j].state # "NONE" /\ arp[i].ipAddr = arp[j].ipAddr => i = j

ArpInvariant ==
    /\ arp \in [ArpSlot -> ArpEntry] /\ buffers \in [ArpSlot -> Nat]
    /\ \A i \in ArpSlot : Owned(arp[i], buffers[i])
    /\ OneEntryEach

\* Fields of an entry are set.
LEMMA ArpEntryFields ==
    ASSUME NEW e \in ArpEntry
    PROVE  /\ \A x \in ArpStates : /\ [e EXCEPT !.state = x] \in ArpEntry
                                   /\ [e EXCEPT !.state = x].state = x
                                   /\ [e EXCEPT !.state = x].ipAddr = e.ipAddr
                                   /\ [e EXCEPT !.state = x].queue = e.queue
           /\ \A x \in Nat : /\ [e EXCEPT !.retransmitCount = x] \in ArpEntry
                             /\ [e EXCEPT !.retransmitCount = x].state = e.state
                             /\ [e EXCEPT !.retransmitCount = x].ipAddr = e.ipAddr
                             /\ [e EXCEPT !.retransmitCount = x].queue = e.queue
           /\ [e EXCEPT !.queue = << >>] \in ArpEntry
           /\ [e EXCEPT !.queue = << >>].state = e.state
           /\ [e EXCEPT !.queue = << >>].ipAddr = e.ipAddr
           /\ [e EXCEPT !.queue = << >>].queue = << >>
  <1>1. << >> \in Seq(Addr \cup {NoAddr})
    OBVIOUS
  <1> QED
    BY <1>1 DEF ArpEntry

\* What arpSendQueuedPackets and arpFlushQueuedPackets free is the whole queue.
LEMMA QueuedIsAll ==
    ASSUME NEW e \in ArpEntry, NEW count, Owned(e, count)
    PROVE  Queued(e) = count /\ count \in Nat
  <1>1. e.queue \in Seq(Addr \cup {NoAddr})
    BY DEF ArpEntry
  <1>2. e.queue = << >> => Len(e.queue) = 0
    OBVIOUS
  <1> QED
    BY <1>1, <1>2 DEF Queued, Owned

\* An entry without queue owns no buffer.
LEMMA EmptyOwned ==
    ASSUME NEW e, e.queue = << >>
    PROVE  Owned(e, 0)
  BY ArpAssumption DEF Owned

\* arpEnqueuePacket makes room before it adds a packet.
LEMMA EnqueueOwned ==
    ASSUME NEW e \in ArpEntry, NEW count, Owned(e, count), e.state = "INCOMPLETE",
           NEW allocated \in BOOLEAN
    PROVE  /\ Enqueue(e, allocated) \in ArpEntry
           /\ Owned(Enqueue(e, allocated), Queued(Enqueue(e, allocated)))
           /\ Enqueue(e, allocated).state = "INCOMPLETE"
           /\ Enqueue(e, allocated).ipAddr = e.ipAddr
  <1> DEFINE room == IF Len(e.queue) >= MaxPending THEN Tail(e.queue) ELSE e.queue
             queue == IF allocated THEN Append(room, e.ipAddr) ELSE room
             Same(q) == \A k \in DOMAIN q : q[k] = e.ipAddr
  <1>1. /\ e.queue \in Seq(Addr \cup {NoAddr}) /\ e.ipAddr \in Addr \cup {NoAddr}
        /\ MaxPending \in Nat \ {0} /\ Len(e.queue) <= MaxPending /\ Same(e.queue)
    BY ArpAssumption DEF ArpEntry, Owned
  <1>2. room \in Seq(Addr \cup {NoAddr}) /\ Len(room) < MaxPending /\ Same(room)
    <2>1. CASE Len(e.queue) >= MaxPending
      <3>1. Len(e.queue) = MaxPending /\ e.queue # << >> /\ room = Tail(e.queue)
        BY <1>1, <2>1
      <3>2. /\ Tail(e.queue) \in Seq(Addr \cup {NoAddr})
            /\ Len(Tail(e.queue)) = Len(e.queue) - 1
            /\ DOMAIN Tail(e.queue) = 1 .. Len(e.queue) - 1
            /\ \A k \in 1 .. Len(e.queue) - 1 : Tail(e.queue)[k] = e.queue[k + 1]
        BY <1>1, <3>1
      <3>3. \A k \in 1 .. Len(e.queue) - 1 : k + 1 \in DOMAIN e.queue
        BY <1>1
      <3>4. Same(Tail(e.queue))
        BY <1>1, <3>2, <3>3
      <3> QED
        BY <1>1, <3>1, <3>2, <3>4
    <2>2. CASE ~ (Len(e.queue) >= MaxPending)
      BY <1>1, <2>2
    <2> QED
      BY <2>1, <2>2
  <1> HIDE DEF room
  <1>3. queue \in Seq(Addr \cup {NoAddr}) /\ Len(queue) <= MaxPending /\ Same(queue)
    <2>1. CASE allocated
      BY <1>1, <1>2, <2>1
    <2>2. CASE ~ allocated
      BY <1>1, <1>2, <2>2
    <2> QED
      BY <2>1, <2>2
  <1>4. Enqueue(e, allocated) = [e EXCEPT !.queue = queue]
    BY DEF Enqueue, room
  <1> HIDE DEF queue
  <1>5. /\ Enqueue(e, allocated) \in ArpEntry /\ Enqueue(e, allocated).queue = queue
        /\ Enqueue(e, allocated).state = "INCOMPLETE"
        /\ Enqueue(e, allocated).ipAddr = e.ipAddr
    BY <1>3, <1>4 DEF ArpEntry
  <1> HIDE DEF Same
  <1>6. Queued(Enqueue(e, allocated)) = Len(queue)
    BY <1>5 DEF Queued
  <1> QED
    BY <1>3, <1>5, <1>6 DEF Owned, Same

\* One entry and its buffers change; the entry belongs to the same neighbour as
\* before or to one that has none.
LEMMA SlotChanges ==
    ASSUME ArpInvariant, NEW i, NEW e \in ArpEntry, NEW count \in Nat, Owned(e, count),
           arp' = [arp EXCEPT ![i] = e], buffers' = [buffers EXCEPT ![i] = count],
           \/ e.state = "NONE"
           \/ i \in ArpSlot /\ arp[i].state # "NONE" /\ e.ipAddr = arp[i].ipAddr
           \/ \A j \in ArpSlot : arp[j].state = "NONE" \/ arp[j].ipAddr # e.ipAddr
    PROVE  ArpInvariant'
  <1>1. arp \in [ArpSlot -> ArpEntry] /\ buffers \in [ArpSlot -> Nat]
    BY DEF ArpInvariant
  <1>2. /\ arp' \in [ArpSlot -> ArpEntry] /\ buffers' \in [ArpSlot -> Nat]
        /\ \A j \in ArpSlot : j # i => arp'[j] = arp[j] /\ buffers'[j] = buffers[j]
        /\ i \in ArpSlot => arp'[i] = e /\ buffers'[i] = count
    BY <1>1
  <1>3. \A j \in ArpSlot : Owned(arp'[j], buffers'[j])
    BY <1>2 DEF ArpInvariant
  <1>4. OneEntryEach'
    <2> SUFFICES ASSUME NEW j \in ArpSlot, NEW k \in ArpSlot, arp'[j].state # "NONE",
                        arp'[k].state # "NONE", arp'[j].ipAddr = arp'[k].ipAddr, j # k
                 PROVE  FALSE
      BY DEF OneEntryEach
    <2>1. CASE j # i /\ k # i
      BY <1>2, <2>1 DEF ArpInvariant, OneEntryEach
    <2>2. CASE j = i \/ k = i
      BY <1>2, <2>2 DEF ArpInvariant, OneEntryEach
    <2> QED
      BY <2>1, <2>2
  <1> QED
    BY <1>2, <1>3, <1>4 DEF ArpInvariant

\* A new entry, in a free slot or in the place of the oldest one.
LEMMA ResolveNewKeeps ==
    ASSUME ArpInvariant, NEW addr \in Addr, NEW allocated \in BOOLEAN,
           arpFindEntry(addr) = {}, ResolveNew(addr, allocated)
    PROVE  ArpInvariant'
  <1> DEFINE i == arpCreateEntry
             f == [Cleared EXCEPT !.state = "INCOMPLETE", !.ipAddr = addr]
             e == Enqueue(f, allocated)
  <1>1. /\ arp' = [arp EXCEPT ![i] = e]
        /\ buffers' = [buffers EXCEPT ![i] = (@ - Queued(arp[i])) + Queued(e)]
    BY DEF ResolveNew
  <1>2. f \in ArpEntry /\ f.queue = << >> /\ f.state = "INCOMPLETE" /\ f.ipAddr = addr
    <2> DEFINE g == [Cleared EXCEPT !.state = "INCOMPLETE"]
    <2>1. << >> \in Seq(Addr \cup {NoAddr})
      OBVIOUS
    <2>2. Cleared \in ArpEntry /\ Cleared.queue = << >>
      BY <2>1 DEF Cleared, ArpEntry, ArpStates
    <2>3. "INCOMPLETE" \in ArpStates
      BY DEF ArpStates
    <2>4. g \in ArpEntry /\ g.queue = << >> /\ g.state = "INCOMPLETE"
      BY <2>2, <2>3, ArpEntryFields
    <2>5. f = [g EXCEPT !.ipAddr = addr]
      OBVIOUS
    <2> HIDE DEF g, f
    <2> QED
      BY <2>4, <2>5 DEF ArpEntry
  <1> HIDE DEF f, i
  <1>3. Owned(f, 0)
    BY <1>2, EmptyOwned
  <1>4. e \in ArpEntry /\ Owned(e, Queued(e)) /\ e.ipAddr = addr
    BY <1>2, <1>3, EnqueueOwned
  <1> HIDE DEF e
  <1>5. Queued(e) \in Nat
    BY <1>4, QueuedIsAll
  <1>6. buffers' = [buffers EXCEPT ![i] = Queued(e)]
    <2>1. buffers \in [ArpSlot -> Nat]
      BY DEF ArpInvariant
    <2>2. CASE i \in ArpSlot
      <3>1. Queued(arp[i]) = buffers[i]
        BY <2>2, QueuedIsAll DEF ArpInvariant
      <3>2. (buffers[i] - Queued(arp[i])) + Queued(e) = Queued(e)
        BY <1>5, <2>1, <2>2, <3>1
      <3> QED
        BY <1>1, <3>2
    <2>3. CASE i \notin ArpSlot
      BY <1>1, <2>1, <2>3
    <2> QED
      BY <2>2, <2>3
  <1>7. \A j \in ArpSlot : arp[j].state = "NONE" \/ arp[j].ipAddr # e.ipAddr
    BY <1>4 DEF arpFindEntry
  <1> QED
    BY <1>1, <1>4, <1>5, <1>6, <1>7, SlotChanges

\* A packet for a neighbour that is known.
LEMMA ResolveKnownKeeps ==
    ASSUME ArpInvariant, NEW i \in ArpSlot, arp[i].state # "NONE", NEW allocated \in BOOLEAN,
           ResolveKnown(i, allocated)
    PROVE  ArpInvariant'
  <1>1. arp[i] \in ArpEntry /\ Owned(arp[i], buffers[i]) /\ buffers[i] \in Nat
        /\ Queued(arp[i]) = buffers[i]
        /\ arp \in [ArpSlot -> ArpEntry] /\ buffers \in [ArpSlot -> Nat]
    BY QueuedIsAll DEF ArpInvariant
  <1>2. CASE arp[i].state = "INCOMPLETE"
    <2> DEFINE e == Enqueue(arp[i], allocated)
    <2>1. /\ arp' = [arp EXCEPT ![i] = e]
          /\ buffers' = [buffers EXCEPT ![i] = (@ - Queued(arp[i])) + Queued(arp'[i])]
      BY <1>2 DEF ResolveKnown
    <2>2. e \in ArpEntry /\ Owned(e, Queued(e)) /\ e.ipAddr = arp[i].ipAddr
      BY <1>1, <1>2, EnqueueOwned
    <2> HIDE DEF e
    <2>3. Queued(e) \in Nat /\ arp'[i] = e
      BY <1>1, <2>1, <2>2, QueuedIsAll
    <2>4. (buffers[i] - Queued(arp[i])) + Queued(arp'[i]) = Queued(e)
      BY <1>1, <2>3
    <2>5. buffers' = [buffers EXCEPT ![i] = Queued(e)]
      BY <2>1, <2>4
    <2> QED
      BY <2>1, <2>2, <2>3, <2>5, SlotChanges
  <1>3. CASE arp[i].state = "STALE"
    <2> DEFINE e == [arp[i] EXCEPT !.state = "DELAY"]
    <2>1. arp' = [arp EXCEPT ![i] = e] /\ buffers' = buffers
      BY <1>3 DEF ResolveKnown
    <2>2. /\ e \in ArpEntry /\ e.ipAddr = arp[i].ipAddr /\ e.queue = arp[i].queue
          /\ arp[i].queue = << >>
      BY <1>1, <1>3 DEF ArpEntry, ArpStates, Owned
    <2> HIDE DEF e
    <2>3. buffers[i] = 0 /\ buffers' = [buffers EXCEPT ![i] = 0]
      BY <1>1, <2>1, <2>2 DEF Owned
    <2>4. Owned(e, 0) /\ 0 \in Nat
      BY <2>2, EmptyOwned
    <2> QED
      BY <2>1, <2>2, <2>3, <2>4, SlotChanges
  <1>4. CASE UNCHANGED arpVars
    BY <1>4 DEF arpVars, ArpInvariant, OneEntryEach
  <1> QED
    BY <1>2, <1>3, <1>4 DEF ResolveKnown

\* What arpTick makes of an entry whose timeout has elapsed.
LEMMA ExpireOwned ==
    ASSUME NEW e \in ArpEntry, NEW count, Owned(e, count)
    PROVE  /\ Expire(e) \in ArpEntry /\ Expire(e).ipAddr = e.ipAddr
           /\ e.state = "NONE" => Expire(e).state = "NONE"
           /\ IF e.state = "INCOMPLETE" /\ e.retransmitCount + 1 >= MaxRequests
              THEN Expire(e).queue = << >>
              ELSE Owned(Expire(e), count)
  <1>1. e.retransmitCount \in Nat /\ MaxRequests \in Nat /\ MaxProbes \in Nat
    BY ArpAssumption DEF ArpEntry
  <1>2. e.state # "INCOMPLETE" => e.queue = << >>
    BY DEF Owned
  <1>3. CASE e.state = "INCOMPLETE" /\ e.retransmitCount + 1 < MaxRequests
    <2>1. Expire(e) = [e EXCEPT !.retransmitCount = @ + 1]
      BY <1>3 DEF Expire
    <2> QED
      BY <1>1, <1>3, <2>1 DEF ArpEntry, Owned
  <1>4. CASE e.state = "INCOMPLETE" /\ ~ (e.retransmitCount + 1 < MaxRequests)
    <2>1. Expire(e) = [e EXCEPT !.retransmitCount = @ + 1, !.state = "NONE", !.queue = << >>]
      BY <1>4 DEF Expire
    <2> DEFINE f == [e EXCEPT !.retransmitCount = e.retransmitCount + 1]
               g == [f EXCEPT !.state = "NONE"]
    <2>2. /\ e.retransmitCount + 1 >= MaxRequests /\ e.retransmitCount + 1 \in Nat
          /\ "NONE" \in ArpStates
      BY <1>1, <1>4 DEF ArpStates
    <2>4. Expire(e) = [g EXCEPT !.queue = << >>]
      BY <2>1
    <2>5. f \in ArpEntry /\ f.ipAddr = e.ipAddr
      BY <2>2, ArpEntryFields
    <2> HIDE DEF f
    <2>6. g \in ArpEntry /\ g.ipAddr = e.ipAddr
      BY <2>2, <2>5, ArpEntryFields
    <2> HIDE DEF g
    <2>3. Expire(e) \in ArpEntry /\ Expire(e).queue = << >> /\ Expire(e).ipAddr = e.ipAddr
      BY <2>4, <2>6, ArpEntryFields
    <2> QED
      BY <1>4, <2>2, <2>3
  <1>5. CASE e.state # "INCOMPLETE"
    <2>1. /\ Expire(e) \in ArpEntry /\ Expire(e).ipAddr = e.ipAddr
          /\ e.state = "NONE" => Expire(e).state = "NONE"
          /\ Expire(e).queue = e.queue
      <3> DEFINE f == [e EXCEPT !.retransmitCount = e.retransmitCount + 1]
      <3>1. /\ "STALE" \in ArpStates /\ "PROBE" \in ArpStates /\ "NONE" \in ArpStates
            /\ e.retransmitCount + 1 \in Nat
        BY <1>1 DEF ArpStates
      <3>2. f \in ArpEntry /\ f.ipAddr = e.ipAddr /\ f.queue = e.queue
        BY <3>1, ArpEntryFields
      <3>3. CASE e.state = "REACHABLE"
        <4>1. Expire(e) = [e EXCEPT !.state = "STALE"]
          BY <3>3 DEF Expire
        <4>2. e.state # "NONE"
          BY <3>3
        <4>3. /\ [e EXCEPT !.state = "STALE"] \in ArpEntry
              /\ [e EXCEPT !.state = "STALE"].ipAddr = e.ipAddr
              /\ [e EXCEPT !.state = "STALE"].queue = e.queue
          BY <3>1, ArpEntryFields, Zenon
        <4> QED
          BY <4>1, <4>2, <4>3
      <3>4. CASE e.state = "DELAY"
        <4>1. Expire(e) = [e EXCEPT !.state = "PROBE"]
          BY <3>4 DEF Expire
        <4>2. e.state # "NONE"
          BY <3>4
        <4>3. /\ [e EXCEPT !.state = "PROBE"] \in ArpEntry
              /\ [e EXCEPT !.state = "PROBE"].ipAddr = e.ipAddr
              /\ [e EXCEPT !.state = "PROBE"].queue = e.queue
          BY <3>1, ArpEntryFields, Zenon
        <4> QED
          BY <4>1, <4>2, <4>3
      <3>5. CASE e.state = "PROBE"
        <4>1. Expire(e) = f \/ Expire(e) = [f EXCEPT !.state = "NONE"]
          BY <3>5 DEF Expire
        <4> HIDE DEF f
        <4>2. CASE Expire(e) = f
          BY <3>2, <3>5, <4>2
        <4>3. CASE Expire(e) = [f EXCEPT !.state = "NONE"]
          <5>1. /\ [f EXCEPT !.state = "NONE"] \in ArpEntry
                /\ [f EXCEPT !.state = "NONE"].ipAddr = f.ipAddr
                /\ [f EXCEPT !.state = "NONE"].queue = f.queue
                /\ [f EXCEPT !.state = "NONE"].state = "NONE"
            BY <3>1, <3>2, ArpEntryFields, Zenon
          <5> QED
            BY <3>2, <4>3, <5>1
        <4> QED
          BY <4>1, <4>2, <4>3
      <3>6. CASE e.state \in {"NONE", "STALE"}
        <4>1. Expire(e) = e
          BY <3>6 DEF Expire
        <4> QED
          BY <3>6, <4>1
      <3>7. e.state \in ArpStates
        BY DEF ArpEntry
      <3> QED
        BY <1>5, <3>3, <3>4, <3>5, <3>6, <3>7 DEF ArpStates
    <2>2. count = 0 /\ Owned(Expire(e), 0)
      BY <1>2, <1>5, <2>1, EmptyOwned DEF Owned
    <2> QED
      BY <1>5, <2>1, <2>2
  <1> QED
    BY <1>3, <1>4, <1>5

\* Every slot keeps its neighbour, or is free afterwards.
LEMMA AllSlotsChange ==
    ASSUME ArpInvariant, arp' \in [ArpSlot -> ArpEntry], buffers' \in [ArpSlot -> Nat],
           \A i \in ArpSlot : /\ Owned(arp'[i], buffers'[i])
                              /\ arp'[i].ipAddr = arp[i].ipAddr
                              /\ arp[i].state = "NONE" => arp'[i].state = "NONE"
    PROVE  ArpInvariant'
  BY DEF ArpInvariant, OneEntryEach

LEMMA ArpTickKeeps ==
    ASSUME ArpInvariant, NEW due \in SUBSET ArpSlot, arpTick(due)
    PROVE  ArpInvariant'
  <1>1. arp' = [i \in ArpSlot |-> IF i \in due THEN Expire(arp[i]) ELSE arp[i]]
        /\ buffers' = FreedBuffers(Unanswered(due))
    BY DEF arpTick
  <1>2. ASSUME NEW i \in ArpSlot
        PROVE  /\ arp'[i] \in ArpEntry /\ buffers'[i] \in Nat
               /\ Owned(arp'[i], buffers'[i]) /\ arp'[i].ipAddr = arp[i].ipAddr
               /\ arp[i].state = "NONE" => arp'[i].state = "NONE"
    <2>1. arp[i] \in ArpEntry /\ Owned(arp[i], buffers[i]) /\ buffers[i] \in Nat
          /\ Queued(arp[i]) = buffers[i]
      BY QueuedIsAll DEF ArpInvariant
    <2>2. CASE i \notin due
      <3>1. arp'[i] = arp[i] /\ buffers'[i] = buffers[i]
        BY <1>1, <2>2 DEF FreedBuffers, Unanswered
      <3> QED
        BY <2>1, <3>1
    <2>3. CASE i \in Unanswered(due)
      <3>1. /\ arp'[i] = Expire(arp[i]) /\ buffers'[i] = 0
            /\ arp[i].state = "INCOMPLETE" /\ arp[i].retransmitCount + 1 >= MaxRequests
        BY <1>1, <2>1, <2>3 DEF FreedBuffers, Unanswered
      <3>2. /\ arp'[i] \in ArpEntry /\ arp'[i].queue = << >>
            /\ arp'[i].ipAddr = arp[i].ipAddr
        BY <2>1, <3>1, ExpireOwned
      <3> QED
        BY <3>1, <3>2, EmptyOwned
    <2>4. CASE i \in due /\ i \notin Unanswered(due)
      <3>1. /\ arp'[i] = Expire(arp[i]) /\ buffers'[i] = buffers[i]
            /\ ~ (arp[i].state = "INCOMPLETE" /\ arp[i].retransmitCount + 1 >= MaxRequests)
        BY <1>1, <2>4 DEF FreedBuffers, Unanswered
      <3>2. /\ Expire(arp[i]) \in ArpEntry /\ Owned(Expire(arp[i]), buffers[i])
            /\ Expire(arp[i]).ipAddr = arp[i].ipAddr
            /\ arp[i].state = "NONE" => Expire(arp[i]).state = "NONE"
        BY <2>1, <3>1, ExpireOwned
      <3> QED
        BY <2>1, <3>1, <3>2
    <2> QED
      BY <2>2, <2>3, <2>4
  <1>3. arp' \in [ArpSlot -> ArpEntry] /\ buffers' \in [ArpSlot -> Nat]
    BY <1>1, <1>2 DEF FreedBuffers
  <1> QED
    BY <1>2, <1>3, AllSlotsChange

LEMMA ReplyKeeps ==
    ASSUME ArpInvariant, NEW addr \in Addr, NEW mac \in Mac, arpProcessReply(addr, mac)
    PROVE  ArpInvariant'
  <1>1. PICK i \in arpFindEntry(addr) :
          \/ arp[i].state = "INCOMPLETE" /\ ReplyIncomplete(i, mac)
          \/ /\ arp[i].state = "REACHABLE" /\ arp' = [arp EXCEPT ![i].state = "STALE"]
             /\ UNCHANGED buffers
          \/ /\ arp[i].state = "PROBE"
             /\ arp' = [arp EXCEPT ![i].macAddr = mac, ![i].state = "REACHABLE"]
             /\ UNCHANGED buffers
    BY DEF arpProcessReply
  <1>2. /\ i \in ArpSlot /\ arp[i].state # "NONE"
        /\ arp \in [ArpSlot -> ArpEntry] /\ buffers \in [ArpSlot -> Nat]
    BY DEF arpFindEntry, ArpInvariant
  <1>3. arp[i] \in ArpEntry /\ Owned(arp[i], buffers[i]) /\ Queued(arp[i]) = buffers[i]
    BY <1>2, QueuedIsAll DEF ArpInvariant
  <1>4. CASE ReplyIncomplete(i, mac)
    <2> DEFINE e == [[[arp[i] EXCEPT !.macAddr = mac] EXCEPT !.state = "REACHABLE"]
                        EXCEPT !.queue = << >>]
    <2>1. arp' = [arp EXCEPT ![i] = e] /\ buffers' = FreedBuffers({i})
      BY <1>2, <1>4 DEF ReplyIncomplete
    <2>2. << >> \in Seq(Addr \cup {NoAddr})
      OBVIOUS
    <2>3. e \in ArpEntry /\ e.queue = << >> /\ e.ipAddr = arp[i].ipAddr
      BY <1>3, <2>2 DEF ArpEntry, ArpStates
    <2> HIDE DEF e
    <2>5. \A j \in ArpSlot : buffers'[j] = IF j = i THEN 0 ELSE buffers[j]
      BY <1>2, <1>3, <2>1 DEF FreedBuffers
    <2>6. buffers' = [j \in ArpSlot |-> buffers'[j]]
      BY <2>1 DEF FreedBuffers
    <2>4. buffers' = [buffers EXCEPT ![i] = 0]
      BY <1>2, <2>5, <2>6
    <2> QED
      BY <1>2, <2>1, <2>3, <2>4, EmptyOwned, SlotChanges
  <1>5. CASE /\ arp[i].state = "REACHABLE" /\ arp' = [arp EXCEPT ![i].state = "STALE"]
             /\ UNCHANGED buffers
    <2> DEFINE e == [arp[i] EXCEPT !.state = "STALE"]
    <2>1. arp' = [arp EXCEPT ![i] = e]
      BY <1>5
    <2>2. e \in ArpEntry /\ e.queue = << >> /\ e.ipAddr = arp[i].ipAddr
      BY <1>3, <1>5 DEF ArpEntry, ArpStates, Owned
    <2>3. arp[i].queue = << >> /\ buffers[i] = 0
      BY <1>3, <1>5 DEF Owned
    <2>4. buffers' = [buffers EXCEPT ![i] = 0]
      BY <1>2, <1>5, <2>3
    <2> HIDE DEF e
    <2> QED
      BY <1>2, <2>1, <2>2, <2>4, EmptyOwned, SlotChanges
  <1>6. CASE /\ arp[i].state = "PROBE"
             /\ arp' = [arp EXCEPT ![i].macAddr = mac, ![i].state = "REACHABLE"]
             /\ UNCHANGED buffers
    <2> DEFINE e == [[arp[i] EXCEPT !.macAddr = mac] EXCEPT !.state = "REACHABLE"]
    <2>1. arp' = [arp EXCEPT ![i] = e]
      BY <1>2, <1>6
    <2>2. arp[i].queue = << >> /\ buffers[i] = 0
      BY <1>3, <1>6 DEF Owned
    <2>3. e \in ArpEntry /\ e.queue = << >> /\ e.ipAddr = arp[i].ipAddr
      BY <1>3, <2>2 DEF ArpEntry, ArpStates
    <2>4. buffers' = [buffers EXCEPT ![i] = 0]
      BY <1>2, <1>6, <2>2
    <2> HIDE DEF e
    <2> QED
      BY <1>2, <2>1, <2>3, <2>4, EmptyOwned, SlotChanges
  <1> QED
    BY <1>1, <1>4, <1>5, <1>6

LEMMA FlushKeeps ==
    ASSUME ArpInvariant, arpFlushCache
    PROVE  ArpInvariant'
  <1>1. ASSUME NEW i \in ArpSlot
        PROVE  /\ arp'[i] \in ArpEntry /\ arp'[i].queue = << >> /\ arp'[i].state = "NONE"
               /\ arp'[i].ipAddr = arp[i].ipAddr /\ buffers'[i] = 0
    <2>1. /\ arp[i] \in ArpEntry /\ Queued(arp[i]) = buffers[i] /\ buffers[i] \in Nat
          /\ << >> \in Seq(Addr \cup {NoAddr})
      BY QueuedIsAll DEF ArpInvariant
    <2>2. arp'[i] = [arp[i] EXCEPT !.state = "NONE", !.queue = << >>]
          /\ buffers'[i] = buffers[i] - Queued(arp[i])
      BY DEF arpFlushCache, FreedBuffers
    <2> DEFINE f == [arp[i] EXCEPT !.state = "NONE"]
    <2>3. arp'[i] = [f EXCEPT !.queue = << >>] /\ "NONE" \in ArpStates
      BY <2>2 DEF ArpStates
    <2>4. f \in ArpEntry /\ f.state = "NONE" /\ f.ipAddr = arp[i].ipAddr
      BY <2>1, <2>3, ArpEntryFields
    <2> HIDE DEF f
    <2> QED
      BY <2>1, <2>2, <2>3, <2>4, ArpEntryFields
  <1>2. arp' \in [ArpSlot -> ArpEntry] /\ buffers' \in [ArpSlot -> Nat]
    <2>1. /\ arp' = [i \in ArpSlot |-> arp'[i]]
          /\ buffers' = [i \in ArpSlot |-> buffers'[i]]
      BY DEF arpFlushCache, FreedBuffers
    <2> QED
      BY <1>1, <2>1
  <1> QED
    BY <1>1, <1>2, EmptyOwned, AllSlotsChange

LEMMA ArpStep == ArpInvariant /\ [ArpNext]_arpVars => ArpInvariant'
  <1> SUFFICES ASSUME ArpInvariant, [ArpNext]_arpVars PROVE ArpInvariant'
    OBVIOUS
  <1>1. ASSUME NEW addr \in Addr, NEW allocated \in BOOLEAN, ipv4SendPacket(addr, allocated)
        PROVE  ArpInvariant'
    <2>1. CASE arpFindEntry(addr) = {}
      BY <1>1, <2>1, ResolveNewKeeps DEF ipv4SendPacket
    <2>2. CASE arpFindEntry(addr) # {}
      <3>1. arpFindEntry(addr) \in SUBSET Nat
        BY ArpAssumption DEF arpFindEntry, ArpSlot
      <3>2. Min(arpFindEntry(addr)) \in arpFindEntry(addr)
        BY <2>2, <3>1, MinIsMember
      <3>3. /\ Min(arpFindEntry(addr)) \in ArpSlot
            /\ arp[Min(arpFindEntry(addr))].state # "NONE"
        BY <3>2 DEF arpFindEntry
      <3>4. ResolveKnown(Min(arpFindEntry(addr)), allocated)
        BY <1>1, <2>2 DEF ipv4SendPacket
      <3> QED
        BY <3>3, <3>4, ResolveKnownKeeps
    <2> QED
      BY <2>1, <2>2
  <1>2. CASE UNCHANGED arpVars
    BY <1>2 DEF arpVars, ArpInvariant, OneEntryEach
  <1> QED
    BY <1>1, <1>2, ArpTickKeeps, ReplyKeeps, FlushKeeps DEF ArpNext

\* QueuedPacketsOwned for any cache and any queue size, with the queues inside
\* their arrays: arpEnqueuePacket, arpSendQueuedPackets and
\* arpFlushQueuedPackets lose no buffer and free none twice.
THEOREM PacketsAlwaysOwned ==
    ArpSpec => [](QueuedPacketsOwned /\ \A i \in ArpSlot : Len(arp[i].queue) <= MaxPending)
  <1>1. ArpInit => ArpInvariant
    <2>1. Cleared \in ArpEntry /\ Cleared.queue = << >> /\ Cleared.state = "NONE"
      BY DEF Cleared, ArpEntry, ArpStates
    <2> QED
      BY <2>1, EmptyOwned DEF ArpInit, ArpInvariant, OneEntryEach
  <1>2. ArpInvariant =>
           QueuedPacketsOwned /\ \A i \in ArpSlot : Len(arp[i].queue) <= MaxPending
    BY DEF ArpInvariant, Owned, OneEntryEach, QueuedPacketsOwned
  <1> QED
    BY <1>1, <1>2, ArpStep, PTL DEF ArpSpec

-----------------------------------------------------------------------------
(***************************************************************************)
(* AutoIp.  Two stations that have come to hold one address must have      *)
(* missed each other's probes: by the time both have probed as often as    *)
(* AutoIpProbes says, that many packets are lost.  The invariant counts    *)
(* while they probe.  Of two running stations with one address, one has    *)
(* noticed the other and is about to give the address up, or as many       *)
(* packets are lost as the one that has probed less has sent, or one less  *)
(* while the last probe, or the answer to it, is still on the way.         *)
(***************************************************************************)
AutoIpContext == [running : BOOLEAN,
                  state : {"INIT", "PROBING", "ANNOUNCING", "CONFIGURED", "DEFENDING"},
                  retransmitCount : Nat, linkLocalAddr : LinkLocal \cup {NoLinkLocal}]

Claim == [addr : LinkLocal \cup {NoLinkLocal}, state : {"INVALID", "TENTATIVE", "VALID"},
          conflict : BOOLEAN]

\* The context and the address of a station agree.
Agreed(q) ==
    /\ auto[q].state # "INIT" => auto[q].running
    /\ auto[q].running => (own[q].state = "TENTATIVE" <=> auto[q].state = "PROBING")
    /\ auto[q].running /\ own[q].state # "INVALID" =>
          /\ carrier[q] /\ own[q].addr = auto[q].linkLocalAddr /\ own[q].addr \in LinkLocal

\* The probes a station has sent for its address.
Probed(q) == IF auto[q].state = "PROBING" THEN auto[q].retransmitCount ELSE AutoIpProbes

Noticed(q) == own[q].conflict /\ auto[q].state = "PROBING"

ProbeTo(x, y, a) == [op |-> "request", sha |-> x, spa |-> NoLinkLocal, tpa |-> a, to |-> y]

AnswerTo(x, y, a) == [op |-> "reply", sha |-> y, spa |-> a, tpa |-> NoLinkLocal, to |-> x]

OnTheWay(x, y) == /\ auto[x].state = "PROBING"
                  /\ \/ ProbeTo(x, y, own[x].addr) \in arps
                     \/ AnswerTo(x, y, own[x].addr) \in arps

Holds(q) == auto[q].running /\ own[q].state # "INVALID"

OneAddress(s, t) == Holds(s) /\ Holds(t) /\ own[s].addr = own[t].addr

Counted(s, t) ==
    \/ Noticed(s) \/ Noticed(t)
    \/ Probed(s) <= lost \/ Probed(t) <= lost
    \/ /\ Probed(s) <= lost + 1 \/ Probed(t) <= lost + 1
       /\ OnTheWay(s, t) \/ OnTheWay(t, s)

AutoIpTyped == /\ auto \in [Station -> AutoIpContext] /\ own \in [Station -> Claim]
               /\ carrier \in [Station -> BOOLEAN] /\ lost \in Nat

AutoIpInvariant ==
    /\ AutoIpTyped
    /\ \A q \in Station : Agreed(q)
    /\ \A s, t \in Station : s # t /\ OneAddress(s, t) => Counted(s, t)

\* Fields of an address are set.
LEMMA ClaimFields ==
    ASSUME NEW c \in Claim
    PROVE  /\ \A x \in LinkLocal \cup {NoLinkLocal} :
                /\ [c EXCEPT !.addr = x] \in Claim
                /\ [c EXCEPT !.addr = x].addr = x
                /\ [c EXCEPT !.addr = x].state = c.state
                /\ [c EXCEPT !.addr = x].conflict = c.conflict
           /\ \A x \in {"INVALID", "TENTATIVE", "VALID"} :
                /\ [c EXCEPT !.state = x] \in Claim
                /\ [c EXCEPT !.state = x].addr = c.addr
                /\ [c EXCEPT !.state = x].state = x
                /\ [c EXCEPT !.state = x].conflict = c.conflict
           /\ \A x \in BOOLEAN :
                /\ [c EXCEPT !.conflict = x] \in Claim
                /\ [c EXCEPT !.conflict = x].addr = c.addr
                /\ [c EXCEPT !.conflict = x].state = c.state
                /\ [c EXCEPT !.conflict = x].conflict = x
  BY DEF Claim

\* One entry of a function over the stations changes.
LEMMA StationChanges ==
    ASSUME NEW S, NEW T, NEW f \in [S -> T], NEW s \in S, NEW x \in T
    PROVE  /\ [f EXCEPT ![s] = x] \in [S -> T]
           /\ [f EXCEPT ![s] = x][s] = x
           /\ \A q \in S \ {s} : [f EXCEPT ![s] = x][q] = f[q]
  OBVIOUS

\* A step of station s leaves the packets between the others alone.
LEMMA OneStationActs ==
    ASSUME AutoIpInvariant, NEW s \in Station,
           AutoIpTyped', lost' = lost, Agreed(s)',
           \A q \in Station \ {s} :
              auto'[q] = auto[q] /\ own'[q] = own[q] /\ carrier'[q] = carrier[q],
           \A p \in arps : p.to # s => p \in arps',
           \A t \in Station \ {s} : OneAddress(s, t)' => Counted(s, t)'
    PROVE  AutoIpInvariant'
  <1>1. ASSUME NEW q \in Station PROVE Agreed(q)'
    <2>1. CASE q # s
      <3>1. Agreed(q)
        BY DEF AutoIpInvariant
      <3> QED
        BY <2>1, <3>1 DEF Agreed
    <2> QED
      BY <2>1
  <1>2. ASSUME NEW u \in Station, NEW v \in Station, u # v, OneAddress(u, v)'
        PROVE  Counted(u, v)'
    <2>1. CASE u = s
      BY <1>2, <2>1
    <2>2. CASE v = s
      <3>1. OneAddress(s, u)'
        BY <1>2, <2>2 DEF OneAddress
      <3>2. Counted(s, u)'
        BY <1>2, <2>2, <3>1
      <3> QED
        BY <2>2, <3>2 DEF Counted
    <2>3. CASE u # s /\ v # s
      <3>1. Counted(u, v)
        BY <1>2, <2>3 DEF AutoIpInvariant, OneAddress, Holds
      <3>2. ASSUME NEW x \in {u, v}, NEW y \in {u, v}, OnTheWay(x, y) PROVE OnTheWay(x, y)'
        <4>1. auto'[x] = auto[x] /\ own'[x] = own[x] /\ x # s /\ y # s
          BY <2>3
        <4>2. /\ ProbeTo(x, y, own[x].addr).to = y
              /\ AnswerTo(x, y, own[x].addr).to = x
          BY DEF ProbeTo, AnswerTo
        <4> QED
          BY <3>2, <4>1, <4>2 DEF OnTheWay
      <3>3. Noticed(u)' = Noticed(u) /\ Noticed(v)' = Noticed(v)
        BY <2>3 DEF Noticed
      <3>4. Probed(u)' = Probed(u) /\ Probed(v)' = Probed(v)
        BY <2>3 DEF Probed
      <3> QED
        BY <3>1, <3>2, <3>3, <3>4 DEF Counted
    <2> QED
      BY <2>1, <2>2, <2>3
  <1> QED
    BY <1>1, <1>2 DEF AutoIpInvariant

\* A tick of station s comes when no packet is on the way.
LEMMA TickActs ==
    ASSUME AutoIpInvariant, NEW s \in Station, arps = {}, lost' = lost, carrier' = carrier,
           NEW c \in AutoIpContext, NEW d \in Claim,
           auto' = [auto EXCEPT ![s] = c], own' = [own EXCEPT ![s] = d],
           Agreed(s)',
           \A t \in Station \ {s} : OneAddress(s, t)' => Counted(s, t)'
    PROVE  AutoIpInvariant'
  <1>1. AutoIpTyped
    BY DEF AutoIpInvariant
  <1>2. auto' \in [Station -> AutoIpContext] /\ own' \in [Station -> Claim]
    BY <1>1, StationChanges DEF AutoIpTyped
  <1>3. AutoIpTyped'
    BY <1>1, <1>2 DEF AutoIpTyped
  <1>4. \A q \in Station \ {s} :
           auto'[q] = auto[q] /\ own'[q] = own[q] /\ carrier'[q] = carrier[q]
    BY <1>1 DEF AutoIpTyped
  <1>5. \A p \in arps : p.to # s => p \in arps'
    OBVIOUS
  <1> QED
    BY <1>3, <1>4, <1>5, OneStationActs

\* What is known of station s and another one before a tick.
LEMMA BeforeTick ==
    ASSUME AutoIpInvariant, NEW s \in Station, arps = {}
    PROVE  /\ auto[s] \in AutoIpContext /\ own[s] \in Claim /\ Agreed(s) /\ lost \in Nat
           /\ \A t \in Station \ {s} :
                 /\ auto[t] \in AutoIpContext /\ own[t] \in Claim /\ Agreed(t)
                 /\ OneAddress(s, t) => \/ Noticed(s) \/ Noticed(t)
                                        \/ Probed(s) <= lost \/ Probed(t) <= lost
  <1>1. \A q \in Station : auto[q] \in AutoIpContext /\ own[q] \in Claim
    BY DEF AutoIpInvariant, AutoIpTyped
  <1>2. \A x, y : ~ OnTheWay(x, y)
    BY DEF OnTheWay
  <1> QED
    BY <1>1, <1>2 DEF AutoIpInvariant, AutoIpTyped, Counted

\* A station that gives its address up shares none.
LEMMA RenounceActs ==
    ASSUME AutoIpInvariant, NEW s \in Station, arps = {}, lost' = lost, carrier' = carrier,
           Renounce(s)
    PROVE  AutoIpInvariant'
  <1> DEFINE d1 == [own[s] EXCEPT !.addr = NoLinkLocal]
             d2 == [d1 EXCEPT !.state = "INVALID"]
  <1>0. AutoIpTyped /\ auto[s] \in AutoIpContext /\ own[s] \in Claim
    BY BeforeTick DEF AutoIpInvariant
  <1>1. PICK a \in LinkLocal :
           auto' = [auto EXCEPT ![s].state = "INIT", ![s].retransmitCount = 0,
                                ![s].linkLocalAddr = a]
    BY DEF Renounce
  <1> DEFINE c3 == [auto[s] EXCEPT !.state = "INIT", !.retransmitCount = 0,
                                   !.linkLocalAddr = a]
  <1>2. auto' = [auto EXCEPT ![s] = c3] /\ own' = [own EXCEPT ![s] = d2]
    BY <1>0, <1>1 DEF Renounce, AutoIpTyped
  <1>3. d1 \in Claim
    BY <1>0, ClaimFields
  <1> HIDE DEF d1
  <1>4. d2 \in Claim /\ d2.state = "INVALID"
    BY <1>3, ClaimFields
  <1>7. c3 \in AutoIpContext /\ c3.state = "INIT"
    BY <1>0, <1>1 DEF AutoIpContext
  <1> HIDE DEF c3, d2
  <1>8. auto'[s] = c3 /\ own'[s] = d2
    BY <1>0, <1>2 DEF AutoIpTyped
  <1>9. Agreed(s)' /\ ~ Holds(s)'
    BY <1>4, <1>7, <1>8 DEF Agreed, Holds
  <1> QED
    BY <1>2, <1>4, <1>7, <1>9, TickActs DEF OneAddress

\* A station that starts to probe has sent nothing yet.
LEMMA TickInitActs ==
    ASSUME AutoIpInvariant, NEW s \in Station, arps = {}, lost' = lost, carrier' = carrier,
           TickInit(s)
    PROVE  AutoIpInvariant'
  <1>0. /\ AutoIpTyped /\ auto[s] \in AutoIpContext /\ own[s] \in Claim
        /\ auto[s].running /\ carrier[s] /\ lost \in Nat
    BY BeforeTick DEF AutoIpInvariant, TickInit
  <1>1. PICK a \in IF auto[s].linkLocalAddr = NoLinkLocal THEN LinkLocal
                                                          ELSE {auto[s].linkLocalAddr} :
          /\ own' = [own EXCEPT ![s] = [addr |-> a, state |-> "TENTATIVE", conflict |-> FALSE]]
          /\ auto' = [auto EXCEPT ![s].state = "PROBING", ![s].retransmitCount = 0,
                                  ![s].linkLocalAddr = a]
    BY DEF TickInit
  <1>2. a \in LinkLocal
    BY <1>0, <1>1 DEF AutoIpContext
  <1> DEFINE c3 == [auto[s] EXCEPT !.state = "PROBING", !.retransmitCount = 0,
                                   !.linkLocalAddr = a]
             d == [addr |-> a, state |-> "TENTATIVE", conflict |-> FALSE]
  <1>3. auto' = [auto EXCEPT ![s] = c3]
    BY <1>0, <1>1 DEF AutoIpTyped
  <1>4. d \in Claim /\ d.state = "TENTATIVE" /\ d.addr = a
    BY <1>2 DEF Claim
  <1>7. /\ c3 \in AutoIpContext /\ c3.state = "PROBING" /\ c3.running = auto[s].running
        /\ c3.retransmitCount = 0 /\ c3.linkLocalAddr = a
    BY <1>0, <1>2 DEF AutoIpContext
  <1> HIDE DEF c3, d
  <1>8. auto'[s] = c3 /\ own'[s] = d /\ own' = [own EXCEPT ![s] = d]
    BY <1>0, <1>1, <1>3 DEF AutoIpTyped, d
  <1>9. Agreed(s)'
    BY <1>0, <1>2, <1>4, <1>7, <1>8 DEF Agreed
  <1>10. Probed(s)' <= lost'
    BY <1>0, <1>7, <1>8 DEF Probed
  <1> QED
    BY <1>3, <1>4, <1>7, <1>8, <1>9, <1>10, TickActs DEF Counted

\* A probe goes to every station that has the address, and is counted when it
\* is sent; a station that noticed no conflict after all its probes counts as
\* many from then on.
LEMMA TickProbingActs ==
    ASSUME AutoIpInvariant, NEW s \in Station, arps = {}, lost' = lost, carrier' = carrier,
           TickProbing(s)
    PROVE  AutoIpInvariant'
  <1>0. /\ AutoIpTyped /\ auto[s] \in AutoIpContext /\ own[s] \in Claim
        /\ auto[s].state = "PROBING" /\ lost \in Nat /\ Agreed(s)
    BY BeforeTick DEF AutoIpInvariant, TickProbing
  <1>1. CASE own[s].conflict /\ Renounce(s)
    BY <1>1, RenounceActs
  <1>2. CASE /\ ~ own[s].conflict /\ auto[s].retransmitCount < AutoIpProbes
             /\ arpSendProbe(s)
             /\ auto' = [auto EXCEPT ![s].retransmitCount = @ + 1]
             /\ UNCHANGED own
    <2> DEFINE c == [auto[s] EXCEPT !.retransmitCount = auto[s].retransmitCount + 1]
    <2>1. auto' = [auto EXCEPT ![s] = c] /\ own' = [own EXCEPT ![s] = own[s]]
      BY <1>0, <1>2 DEF AutoIpTyped
    <2>2. /\ c \in AutoIpContext /\ c.state = "PROBING" /\ c.running = auto[s].running
          /\ c.retransmitCount = auto[s].retransmitCount + 1
          /\ c.linkLocalAddr = auto[s].linkLocalAddr
      BY <1>0 DEF AutoIpContext
    <2> HIDE DEF c
    <2>3. auto'[s] = c /\ own'[s] = own[s]
      BY <1>0, <1>2, <2>1 DEF AutoIpTyped
    <2>4. Agreed(s)'
      BY <1>0, <2>2, <2>3 DEF Agreed
    <2>5. ASSUME NEW t \in Station \ {s}, OneAddress(s, t)' PROVE Counted(s, t)'
      <3>1. auto'[t] = auto[t] /\ own'[t] = own[t]
        BY <1>0, <1>2, <2>1 DEF AutoIpTyped
      <3>2. OneAddress(s, t) /\ Holds(s) /\ Holds(t)
        BY <2>2, <2>3, <2>5, <3>1 DEF OneAddress, Holds
      <3>3. Agreed(t) /\ ~ Noticed(s)
        BY <1>2, BeforeTick DEF Noticed
      <3>4. Noticed(t) \/ Probed(s) <= lost \/ Probed(t) <= lost
        BY <3>2, <3>3, BeforeTick
      <3>5. Noticed(t)' = Noticed(t) /\ Probed(t)' = Probed(t)
        BY <3>1 DEF Noticed, Probed
      <3>6. CASE Probed(s) <= lost
        <4>1. Probed(s)' <= lost' + 1
          BY <1>0, <2>2, <2>3, <3>6 DEF Probed, AutoIpContext
        <4>2. carrier[t] /\ own[s].addr = auto[s].linkLocalAddr
          BY <1>0, <3>2, <3>3 DEF Agreed, Holds
        <4>3. ProbeTo(s, t, auto[s].linkLocalAddr) \in arps'
          BY <1>2, <4>2 DEF arpSendProbe, Packets, ProbeTo
        <4>4. OnTheWay(s, t)'
          BY <2>2, <2>3, <4>2, <4>3 DEF OnTheWay
        <4> QED
          BY <4>1, <4>4 DEF Counted
      <3> QED
        BY <3>4, <3>5, <3>6 DEF Counted
    <2> QED
      BY <1>0, <2>1, <2>2, <2>4, <2>5, TickActs
  <1>3. CASE /\ ~ own[s].conflict /\ auto[s].retransmitCount = AutoIpProbes
             /\ own' = [own EXCEPT ![s].state = "VALID"]
             /\ autoIpChangeState(s, "ANNOUNCING")
             /\ UNCHANGED arps
    <2> DEFINE c == [auto[s] EXCEPT !.state = "ANNOUNCING", !.retransmitCount = 0]
               d == [own[s] EXCEPT !.state = "VALID"]
    <2>1. auto' = [auto EXCEPT ![s] = c] /\ own' = [own EXCEPT ![s] = d]
      BY <1>0, <1>3 DEF AutoIpTyped, autoIpChangeState
    <2>2. /\ c \in AutoIpContext /\ c.state = "ANNOUNCING" /\ c.running = auto[s].running
          /\ c.linkLocalAddr = auto[s].linkLocalAddr
      BY <1>0 DEF AutoIpContext
    <2>3. d \in Claim /\ d.state = "VALID" /\ d.addr = own[s].addr
      BY <1>0 DEF Claim
    <2> HIDE DEF c, d
    <2>4. auto'[s] = c /\ own'[s] = d
      BY <1>0, <2>1 DEF AutoIpTyped
    <2>5. own[s].state = "TENTATIVE" /\ auto[s].running
      BY <1>0 DEF Agreed
    <2>6. Agreed(s)'
      BY <1>0, <2>2, <2>3, <2>4, <2>5 DEF Agreed
    <2>7. ASSUME NEW t \in Station \ {s}, OneAddress(s, t)' PROVE Counted(s, t)'
      <3>1. auto'[t] = auto[t] /\ own'[t] = own[t]
        BY <1>0, <2>1 DEF AutoIpTyped
      <3>2. OneAddress(s, t)
        BY <2>3, <2>4, <2>5, <2>7, <3>1 DEF OneAddress, Holds
      <3>3. Noticed(t) \/ Probed(s) <= lost \/ Probed(t) <= lost
        BY <1>3, <3>2, BeforeTick DEF Noticed
      <3>4. Noticed(t)' = Noticed(t) /\ Probed(t)' = Probed(t)
        BY <3>1 DEF Noticed, Probed
      <3>5. Probed(s)' = Probed(s)
        BY <1>0, <1>3, <2>2, <2>4 DEF Probed
      <3> QED
        BY <3>3, <3>4, <3>5 DEF Counted
    <2> QED
      BY <1>0, <2>1, <2>2, <2>3, <2>6, <2>7, TickActs
  <1> QED
    BY <1>1, <1>2, <1>3 DEF TickProbing

\* A station past its probes that keeps its address counts as before.
LEMMA ConfiguredActs ==
    ASSUME AutoIpInvariant, NEW s \in Station, arps = {}, lost' = lost, carrier' = carrier,
           auto[s].state \in {"ANNOUNCING", "CONFIGURED", "DEFENDING"},
           NEW c \in AutoIpContext, NEW d \in Claim,
           c.state \in {"ANNOUNCING", "CONFIGURED", "DEFENDING"},
           c.running = auto[s].running, c.linkLocalAddr = auto[s].linkLocalAddr,
           d.state = own[s].state, d.addr = own[s].addr,
           auto' = [auto EXCEPT ![s] = c], own' = [own EXCEPT ![s] = d]
    PROVE  AutoIpInvariant'
  <1>0. /\ AutoIpTyped /\ auto[s] \in AutoIpContext /\ own[s] \in Claim
        /\ lost \in Nat /\ Agreed(s)
    BY BeforeTick DEF AutoIpInvariant
  <1>1. auto'[s] = c /\ own'[s] = d
    BY <1>0 DEF AutoIpTyped
  <1>2. auto[s].running /\ auto[s].state # "PROBING" /\ c.state # "PROBING"
    BY <1>0 DEF Agreed
  <1>3. Agreed(s)'
    BY <1>0, <1>1, <1>2 DEF Agreed
  <1>4. ASSUME NEW t \in Station \ {s}, OneAddress(s, t)' PROVE Counted(s, t)'
    <2>1. auto'[t] = auto[t] /\ own'[t] = own[t]
      BY <1>0 DEF AutoIpTyped
    <2>2. OneAddress(s, t)
      BY <1>1, <1>2, <1>4, <2>1 DEF OneAddress, Holds
    <2>3. Noticed(t) \/ Probed(s) <= lost \/ Probed(t) <= lost
      BY <1>2, <2>2, BeforeTick DEF Noticed
    <2>4. Noticed(t)' = Noticed(t) /\ Probed(t)' = Probed(t)
      BY <2>1 DEF Noticed, Probed
    <2>5. Probed(s)' = Probed(s)
      BY <1>1, <1>2 DEF Probed
    <2> QED
      BY <2>3, <2>4, <2>5 DEF Counted
  <1> QED
    BY <1>3, <1>4, TickActs

LEMMA AutoIpTickActs ==
    ASSUME AutoIpInvariant, NEW s \in Station, autoIpTick(s)
    PROVE  AutoIpInvariant'
  <1>0. /\ arps = {} /\ lost' = lost /\ carrier' = carrier
    BY DEF autoIpTick
  <1>1. AutoIpTyped /\ auto[s] \in AutoIpContext /\ own[s] \in Claim
    BY <1>0, BeforeTick DEF AutoIpInvariant
  <1>2. CASE TickInit(s)
    BY <1>0, <1>2, TickInitActs
  <1>3. CASE TickProbing(s)
    BY <1>0, <1>3, TickProbingActs
  <1>4. own' = own => own' = [own EXCEPT ![s] = own[s]]
    BY <1>1 DEF AutoIpTyped
  <1>5. ASSUME NEW x \in {"CONFIGURED", "DEFENDING"}, autoIpChangeState(s, x)
        PROVE  \E c \in AutoIpContext :
                  /\ c.state = x /\ c.running = auto[s].running
                  /\ c.linkLocalAddr = auto[s].linkLocalAddr
                  /\ auto' = [auto EXCEPT ![s] = c]
    <2> DEFINE c == [auto[s] EXCEPT !.state = x, !.retransmitCount = 0]
    <2>1. auto' = [auto EXCEPT ![s] = c]
      BY <1>1, <1>5 DEF autoIpChangeState, AutoIpTyped
    <2>2. /\ c \in AutoIpContext /\ c.state = x /\ c.running = auto[s].running
          /\ c.linkLocalAddr = auto[s].linkLocalAddr
      BY <1>1 DEF AutoIpContext
    <2> HIDE DEF c
    <2> QED
      BY <2>1, <2>2
  <1>6. CASE TickAnnouncing(s)
    <2>1. CASE auto' = [auto EXCEPT ![s].retransmitCount = @ + 1]
      <3> DEFINE c == [auto[s] EXCEPT !.retransmitCount = auto[s].retransmitCount + 1]
      <3>1. auto' = [auto EXCEPT ![s] = c]
        BY <1>1, <2>1 DEF AutoIpTyped
      <3>2. /\ c \in AutoIpContext /\ c.state = auto[s].state
            /\ c.running = auto[s].running /\ c.linkLocalAddr = auto[s].linkLocalAddr
        BY <1>1 DEF AutoIpContext
      <3> HIDE DEF c
      <3> QED
        BY <1>0, <1>1, <1>4, <1>6, <3>1, <3>2, ConfiguredActs DEF TickAnnouncing
    <2>2. CASE autoIpChangeState(s, "CONFIGURED")
      BY <1>0, <1>1, <1>4, <1>5, <1>6, <2>2, ConfiguredActs DEF TickAnnouncing
    <2> QED
      BY <1>6, <2>1, <2>2 DEF TickAnnouncing
  <1>7. CASE TickConfigured(s)
    <2> DEFINE d == [own[s] EXCEPT !.conflict = FALSE]
    <2>1. own' = [own EXCEPT ![s] = d]
      BY <1>1, <1>7 DEF AutoIpTyped, TickConfigured
    <2>2. d \in Claim /\ d.state = own[s].state /\ d.addr = own[s].addr
      BY <1>1 DEF Claim
    <2> HIDE DEF d
    <2>3. PICK c \in AutoIpContext :
             /\ c.state = "DEFENDING" /\ c.running = auto[s].running
             /\ c.linkLocalAddr = auto[s].linkLocalAddr
             /\ auto' = [auto EXCEPT ![s] = c]
      BY <1>5, <1>7 DEF TickConfigured
    <2>4. auto[s].state = "CONFIGURED"
      BY <1>7 DEF TickConfigured
    <2> QED
      BY <1>0, <2>1, <2>2, <2>3, <2>4, ConfiguredActs
  <1>8. CASE TickDefending(s)
    <2>1. CASE Renounce(s)
      BY <1>0, <2>1, RenounceActs
    <2>2. CASE autoIpChangeState(s, "CONFIGURED") /\ UNCHANGED own
      BY <1>0, <1>1, <1>4, <1>5, <1>8, <2>2, ConfiguredActs DEF TickDefending
    <2> QED
      BY <1>8, <2>1, <2>2 DEF TickDefending
  <1> QED
    BY <1>2, <1>3, <1>6, <1>7, <1>8 DEF autoIpTick

\* A probe that arrives makes a station that probes notice the other, and one
\* that uses the address answer; the answer makes the other notice.
LEMMA PacketActs ==
    ASSUME AutoIpInvariant, NEW r \in Station, NEW p \in arps, arpProcessPacket(r, p)
    PROVE  AutoIpInvariant'
  <1>0. /\ AutoIpTyped /\ auto' = auto /\ carrier' = carrier /\ lost' = lost /\ p.to = r
    BY DEF AutoIpInvariant, arpProcessPacket
  <1> DEFINE b == own[r].conflict \/ Claims(r, p) \/ Contends(r, p)
             d == [own[r] EXCEPT !.conflict = b]
  <1>1. own[r] \in Claim /\ b \in BOOLEAN
    BY <1>0 DEF AutoIpTyped
  <1>2. own' = [own EXCEPT ![r] = d]
    BY <1>0 DEF arpProcessPacket, AutoIpTyped
  <1>3. d \in Claim /\ d.addr = own[r].addr /\ d.state = own[r].state /\ d.conflict = b
    <2> HIDE DEF b
    <2>1. CASE b = TRUE
      BY <1>1, <2>1 DEF Claim
    <2>2. CASE b = FALSE
      BY <1>1, <2>2 DEF Claim
    <2> QED
      BY <1>1, <2>1, <2>2
  <1> HIDE DEF d
  <1>4. own' \in [Station -> Claim] /\ own'[r] = d /\ \A q \in Station \ {r} : own'[q] = own[q]
    BY <1>0, <1>2, <1>3, StationChanges DEF AutoIpTyped
  <1>5. \A q \in Station : own'[q].addr = own[q].addr /\ own'[q].state = own[q].state
    BY <1>3, <1>4
  <1>6. AutoIpTyped'
    BY <1>0, <1>4 DEF AutoIpTyped
  <1>7. \A q \in Station : Agreed(q)'
    BY <1>0, <1>5 DEF AutoIpInvariant, Agreed
  <1>8. \A q \in arps : q # p => q \in arps'
    BY DEF arpProcessPacket
  <1>9. ASSUME NEW q \in Station, Noticed(q) PROVE Noticed(q)'
    <2>1. CASE q = r
      BY <1>0, <1>3, <1>4, <1>9, <2>1 DEF Noticed
    <2>2. CASE q # r
      BY <1>0, <1>4, <1>9, <2>2 DEF Noticed
    <2> QED
      BY <2>1, <2>2
  <1>10. ASSUME NEW x \in Station, NEW y \in Station, x # y, OneAddress(x, y), OnTheWay(x, y)
         PROVE  OnTheWay(x, y)' \/ Noticed(x)' \/ Noticed(y)'
    <2>0. /\ Agreed(x) /\ Agreed(y) /\ auto[x].state = "PROBING"
          /\ own[x] \in Claim /\ own[y] \in Claim
      BY <1>0, <1>10 DEF AutoIpInvariant, OnTheWay, AutoIpTyped
    <2> DEFINE a == own[x].addr
    <2>1. /\ auto[x].running /\ auto[y].running /\ own[x].state = "TENTATIVE"
          /\ own[y].state # "INVALID"
          /\ own[y].addr = a /\ a \in LinkLocal /\ carrier[x] /\ a # NoLinkLocal
      BY <1>10, <2>0, AutoIpAssumption DEF OneAddress, Holds, Agreed
    <2>2. own'[x].addr = a
      BY <1>5
    <2>3. CASE p = AnswerTo(x, y, a)
      <3>1. p.to = x /\ p.spa = a
        BY <2>3 DEF AnswerTo
      <3>2. r = x /\ Claims(r, p)
        BY <1>0, <2>1, <3>1 DEF Claims
      <3> QED
        BY <1>0, <1>3, <1>4, <2>0, <3>2 DEF Noticed
    <2>4. CASE p = ProbeTo(x, y, a)
      <3>1. /\ p.to = y /\ p.spa = NoLinkLocal /\ p.tpa = a /\ p.op = "request"
            /\ p.sha = x
        BY <2>4 DEF ProbeTo
      <3>2. r = y
        BY <1>0, <3>1
      <3>3. CASE own[y].state = "TENTATIVE"
        <4>1. Contends(r, p) /\ auto[y].state = "PROBING"
          BY <2>0, <2>1, <3>1, <3>2, <3>3 DEF Contends, Agreed
        <4> QED
          BY <1>0, <1>3, <1>4, <3>2, <4>1 DEF Noticed
      <3>4. CASE own[y].state = "VALID"
        <4>1. Answers(y, p) /\ ~ Claims(y, p)
          BY <2>1, <3>1, <3>4 DEF Answers, Claims
        <4>2. AnswerTo(x, y, a) \in Packets(y, "reply", p.tpa, p.spa)
          BY <1>10, <2>1, <3>1 DEF AnswerTo, Packets
        <4>3. AnswerTo(x, y, a).to = p.sha
          BY <3>1 DEF AnswerTo
        <4>4. AnswerTo(x, y, a) \in arps'
          BY <3>2, <4>1, <4>2, <4>3 DEF arpProcessPacket
        <4> QED
          BY <1>0, <2>0, <2>2, <4>4 DEF OnTheWay
      <3> QED
        BY <2>0, <2>1, <3>3, <3>4 DEF Claim
    <2>5. CASE p # AnswerTo(x, y, a) /\ p # ProbeTo(x, y, a)
      BY <1>0, <1>8, <1>10, <2>2, <2>5 DEF OnTheWay
    <2> QED
      BY <2>3, <2>4, <2>5
  <1>11. ASSUME NEW s \in Station, NEW t \in Station, s # t, OneAddress(s, t)'
         PROVE  Counted(s, t)'
    <2>1. OneAddress(s, t) /\ OneAddress(t, s)
      BY <1>0, <1>5, <1>11 DEF OneAddress, Holds
    <2>2. Counted(s, t)
      BY <1>11, <2>1 DEF AutoIpInvariant
    <2>3. Probed(s)' = Probed(s) /\ Probed(t)' = Probed(t)
      BY <1>0 DEF Probed
    <2>4. OnTheWay(s, t) => OnTheWay(s, t)' \/ Noticed(s)' \/ Noticed(t)'
      BY <1>10, <1>11, <2>1
    <2>5. OnTheWay(t, s) => OnTheWay(t, s)' \/ Noticed(s)' \/ Noticed(t)'
      BY <1>10, <1>11, <2>1
    <2> QED
      BY <1>0, <1>9, <2>2, <2>3, <2>4, <2>5 DEF Counted
  <1> QED
    BY <1>6, <1>7, <1>11 DEF AutoIpInvariant

\* A packet that is lost is counted instead of being on the way.
LEMMA LossActs ==
    ASSUME AutoIpInvariant, NEW p \in arps, LosePacket(p)
    PROVE  AutoIpInvariant'
  <1>0. /\ AutoIpTyped /\ auto' = auto /\ own' = own /\ carrier' = carrier
        /\ lost' = lost + 1 /\ lost \in Nat
    BY DEF AutoIpInvariant, AutoIpTyped, LosePacket
  <1>1. AutoIpTyped'
    BY <1>0 DEF AutoIpTyped
  <1>2. \A q \in Station : Agreed(q)'
    BY <1>0 DEF AutoIpInvariant, Agreed
  <1>3. ASSUME NEW s \in Station, NEW t \in Station, s # t, OneAddress(s, t)'
        PROVE  Counted(s, t)'
    <2>1. OneAddress(s, t)
      BY <1>0, <1>3 DEF OneAddress, Holds
    <2>2. Counted(s, t)
      BY <1>3, <2>1 DEF AutoIpInvariant
    <2>3. /\ Probed(s)' = Probed(s) /\ Probed(t)' = Probed(t)
          /\ Noticed(s)' = Noticed(s) /\ Noticed(t)' = Noticed(t)
      BY <1>0 DEF Probed, Noticed
    <2>4. Probed(s) \in Nat /\ Probed(t) \in Nat
      BY <1>0, AutoIpAssumption DEF Probed, AutoIpTyped, AutoIpContext
    <2>5. CASE Noticed(s) \/ Noticed(t)
      BY <2>3, <2>5 DEF Counted
    <2>6. CASE Probed(s) <= lost + 1 \/ Probed(t) <= lost + 1
      BY <1>0, <2>3, <2>6 DEF Counted
    <2>7. \A n \in Nat : n <= lost => n <= lost + 1
      BY <1>0
    <2> QED
      BY <2>2, <2>4, <2>5, <2>6, <2>7 DEF Counted
  <1> QED
    BY <1>1, <1>2, <1>3 DEF AutoIpInvariant

\* A station that is started, is stopped or sees its link change shares no
\* address as far as the property goes.
LEMMA ControlActs ==
    ASSUME AutoIpInvariant, NEW s \in Station,
           autoIpLinkChangeEvent(s) \/ autoIpStart(s) \/ autoIpStop(s)
    PROVE  AutoIpInvariant'
  <1>0. AutoIpTyped /\ auto[s] \in AutoIpContext /\ own[s] \in Claim /\ lost' = lost
    BY DEF AutoIpInvariant, AutoIpTyped, autoIpLinkChangeEvent, autoIpStart, autoIpStop
  <1> DEFINE d == [own[s] EXCEPT !.addr = NoLinkLocal, !.state = "INVALID"]
  <1>1. d \in Claim /\ d.state = "INVALID"
    BY <1>0 DEF Claim
  <1>2. [own EXCEPT ![s].addr = NoLinkLocal, ![s].state = "INVALID"] = [own EXCEPT ![s] = d]
    BY <1>0 DEF AutoIpTyped
  <1> HIDE DEF d
  <1>3. /\ [own EXCEPT ![s] = d] \in [Station -> Claim] /\ [own EXCEPT ![s] = d][s] = d
        /\ \A q \in Station \ {s} : [own EXCEPT ![s] = d][q] = own[q]
    BY <1>0, <1>1, StationChanges DEF AutoIpTyped
  <1>4. ASSUME NEW c \in AutoIpContext, auto' = [auto EXCEPT ![s] = c], c.state = "INIT",
               own' \in [Station -> Claim], \A q \in Station \ {s} : own'[q] = own[q],
               carrier' \in [Station -> BOOLEAN],
               \A q \in Station \ {s} : carrier'[q] = carrier[q],
               \A p \in arps : p.to # s => p \in arps',
               c.running => own'[s].state = "INVALID"
        PROVE  AutoIpInvariant'
    <2>1. /\ auto' \in [Station -> AutoIpContext] /\ auto'[s] = c
          /\ \A q \in Station \ {s} : auto'[q] = auto[q]
      BY <1>0, <1>4, StationChanges DEF AutoIpTyped
    <2>2. AutoIpTyped'
      BY <1>0, <1>4, <2>1 DEF AutoIpTyped
    <2>3. Agreed(s)' /\ ~ Holds(s)'
      BY <1>4, <2>1 DEF Agreed, Holds
    <2> QED
      BY <1>0, <1>4, <2>1, <2>2, <2>3, OneStationActs DEF OneAddress
  <1>5. CASE autoIpLinkChangeEvent(s)
    <2> DEFINE c == [auto[s] EXCEPT !.state = "INIT"]
    <2>1. auto' = [auto EXCEPT ![s] = c]
      BY <1>0, <1>5 DEF autoIpLinkChangeEvent, AutoIpTyped
    <2>2. c \in AutoIpContext /\ c.state = "INIT" /\ c.running = auto[s].running
      BY <1>0 DEF AutoIpContext
    <2> HIDE DEF c
    <2>3. /\ carrier' \in [Station -> BOOLEAN] /\ \A q \in Station \ {s} : carrier'[q] = carrier[q]
      BY <1>0, <1>5 DEF autoIpLinkChangeEvent, AutoIpTyped
    <2>4. \A p \in arps : p.to # s => p \in arps'
      BY <1>5 DEF autoIpLinkChangeEvent
    <2>5. /\ own' \in [Station -> Claim] /\ \A q \in Station \ {s} : own'[q] = own[q]
          /\ auto[s].running => own'[s].state = "INVALID"
      <3>1. CASE auto[s].running
        <4>1. own' = [own EXCEPT ![s] = d]
          BY <1>2, <1>5, <3>1 DEF autoIpLinkChangeEvent
        <4> QED
          BY <1>1, <1>3, <4>1
      <3>2. CASE ~ auto[s].running
        BY <1>0, <1>5, <3>2 DEF autoIpLinkChangeEvent, AutoIpTyped
      <3> QED
        BY <3>1, <3>2
    <2> QED
      BY <1>4, <2>1, <2>2, <2>3, <2>4, <2>5
  <1>6. CASE autoIpStart(s)
    <2> DEFINE c == [auto[s] EXCEPT !.running = TRUE, !.state = "INIT"]
    <2>1. auto' = [auto EXCEPT ![s] = c]
      BY <1>0, <1>6 DEF autoIpStart, AutoIpTyped
    <2>2. c \in AutoIpContext /\ c.state = "INIT"
      BY <1>0 DEF AutoIpContext
    <2> HIDE DEF c
    <2>3. /\ own' \in [Station -> Claim] /\ \A q \in Station \ {s} : own'[q] = own[q]
          /\ own'[s].state = "INVALID"
      BY <1>1, <1>2, <1>3, <1>6 DEF autoIpStart
    <2>4. carrier' = carrier /\ arps' = arps
      BY <1>6 DEF autoIpStart
    <2> QED
      BY <1>0, <1>4, <2>1, <2>2, <2>3, <2>4 DEF AutoIpTyped
  <1>7. CASE autoIpStop(s)
    <2> DEFINE c == [auto[s] EXCEPT !.running = FALSE, !.state = "INIT"]
    <2>1. auto' = [auto EXCEPT ![s] = c]
      BY <1>0, <1>7 DEF autoIpStop, AutoIpTyped
    <2>2. c \in AutoIpContext /\ c.state = "INIT" /\ ~ c.running
      BY <1>0 DEF AutoIpContext
    <2> HIDE DEF c
    <2>3. own' = own /\ carrier' = carrier /\ arps' = arps
      BY <1>7 DEF autoIpStop
    <2> QED
      BY <1>0, <1>4, <2>1, <2>2, <2>3 DEF AutoIpTyped
  <1> QED
    BY <1>5, <1>6, <1>7

LEMMA AutoIpStep == AutoIpInvariant /\ [AutoIpNext]_autoVars => AutoIpInvariant'
  <1> SUFFICES ASSUME AutoIpInvariant, [AutoIpNext]_autoVars PROVE AutoIpInvariant'
    OBVIOUS
  <1>1. CASE UNCHANGED autoVars
    BY <1>1 DEF autoVars, AutoIpInvariant, AutoIpTyped, Agreed, OneAddress, Holds, Counted,
                Noticed, Probed, OnTheWay
  <1> QED
    BY <1>1, AutoIpTickActs, PacketActs, LossActs, ControlActs DEF AutoIpNext

\* LinkLocalUnique for any number of stations, addresses and probes: two
\* stations come to use one address only after as many ARP packets are lost as
\* autoIpTick sends probes.
THEOREM LinkLocalAlwaysUnique == AutoIpSpec => []LinkLocalUnique
  <1>1. AutoIpInit => AutoIpInvariant
    <2> SUFFICES ASSUME AutoIpInit PROVE AutoIpInvariant
      OBVIOUS
    <2>1. AutoIpTyped
      BY DEF AutoIpInit, AutoIpTyped, AutoIpContext, Claim, NoClaim
    <2>2. \A q \in Station : auto[q].running = FALSE /\ auto[q].state = "INIT"
      BY DEF AutoIpInit
    <2> QED
      BY <2>1, <2>2 DEF AutoIpInvariant, Agreed, OneAddress, Holds
  <1>2. AutoIpInvariant => LinkLocalUnique
    <2> SUFFICES ASSUME AutoIpInvariant, lost < AutoIpProbes,
                        NEW s \in Station, NEW t \in Station,
                        s # t, own[s].addr = own[t].addr,
                        \A q \in {s, t} : auto[q].running /\ own[q].state = "VALID"
                 PROVE  FALSE
      BY DEF LinkLocalUnique, AddressShared
    <2>1. auto[s].state # "PROBING" /\ auto[t].state # "PROBING"
      BY DEF AutoIpInvariant, Agreed
    <2>2. Counted(s, t)
      BY DEF AutoIpInvariant, OneAddress, Holds
    <2>3. AutoIpProbes <= lost
      BY <2>1, <2>2 DEF Counted, Noticed, Probed, OnTheWay
    <2>4. lost \in Nat /\ AutoIpProbes \in Nat
      BY AutoIpAssumption DEF AutoIpInvariant, AutoIpTyped
    <2> QED
      BY <2>3, <2>4
  <1> QED
    BY <1>1, <1>2, AutoIpStep, PTL DEF AutoIpSpec

=============================================================================
