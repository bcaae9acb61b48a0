--------------------------- MODULE DatagramProofs ---------------------------
(***************************************************************************)
(* Proofs about the datagram socket and about the DNS resolver that works  *)
(* on top of datagrams, for every number of tasks, every queue, cache and  *)
(* port range.                                                             *)
(***************************************************************************)
EXTENDS UdpSocket, DnsClient, NumberLemmas, TLAPS

-----------------------------------------------------------------------------
(* Datagram sockets *)

\* What ReceiverWoken needs to be inductive: the fields have their types, and
\* while a task waits the socket's eventMask asks for SOCKET_EVENT_RX_READY.
UdpInvariant ==
    /\ udp \in [open : BOOLEAN, queued : Nat, rxMask : BOOLEAN, event : BOOLEAN]
    /\ receiver \in [Receiver -> {"idle", "waiting", "awake"}]
    /\ (\E r \in Receiver : receiver[r] = "waiting") => udp.rxMask
    /\ ReceiverWoken

\* udpUpdateEvents leaves a socket whose queue is not empty signaled.
LEMMA UpdateSignals ==
    ASSUME NEW u \in [open : BOOLEAN, queued : Nat, rxMask : BOOLEAN, event : BOOLEAN]
    PROVE  /\ udpUpdateEvents(u) \in [open : BOOLEAN, queued : Nat, rxMask : BOOLEAN, event : BOOLEAN]
           /\ udpUpdateEvents(u).rxMask = u.rxMask
           /\ udpUpdateEvents(u).queued = u.queued
           /\ u.queued > 0 /\ u.rxMask => udpUpdateEvents(u).event
  BY DEF udpUpdateEvents

\* So does Take, which ends udpReceiveDatagram, when datagrams are left.
LEMMA TakeSignals ==
    ASSUME NEW u \in [open : BOOLEAN, queued : Nat, rxMask : BOOLEAN, event : BOOLEAN],
           u.queued > 0, NEW peek \in BOOLEAN
    PROVE  /\ Take(u, peek) \in [open : BOOLEAN, queued : Nat, rxMask : BOOLEAN, event : BOOLEAN]
           /\ Take(u, peek).rxMask = u.rxMask
           /\ Take(u, peek).queued > 0 /\ u.rxMask => Take(u, peek).event
  <1> DEFINE v == IF peek THEN u ELSE [u EXCEPT !.queued = @ - 1]
  <1>1. /\ v \in [open : BOOLEAN, queued : Nat, rxMask : BOOLEAN, event : BOOLEAN]
        /\ v.rxMask = u.rxMask
    OBVIOUS
  <1>2. Take(u, peek) = udpUpdateEvents(v)
    BY DEF Take
  <1> QED
    BY <1>1, <1>2, UpdateSignals

\* Every step of the net task and of the receiving tasks keeps the invariant.
LEMMA UdpStep == UdpInvariant /\ [UdpNext]_udpVars => UdpInvariant'
  <1> SUFFICES ASSUME UdpInvariant, [UdpNext]_udpVars PROVE UdpInvariant'
    OBVIOUS
  <1> USE DEF UdpInvariant, ReceiverWoken
  <1>1. CASE udpProcessDatagram
    <2> DEFINE u == [udp EXCEPT !.queued = @ + 1]
    <2>1. u \in [open : BOOLEAN, queued : Nat, rxMask : BOOLEAN, event : BOOLEAN]
      OBVIOUS
    <2>2. u.rxMask = udp.rxMask /\ u.queued > 0
      OBVIOUS
    <2>3. udp' = udpUpdateEvents(u) /\ receiver' = receiver
      BY <1>1 DEF udpProcessDatagram
    <2> QED
      BY <2>1, <2>2, <2>3, UpdateSignals
  <1>2. ASSUME NEW r \in Receiver, NEW peek \in BOOLEAN, udpReceiveDatagram(r, peek)
        PROVE  UdpInvariant'
    <2>1. CASE udp.queued > 0
      BY <1>2, <2>1, TakeSignals DEF udpReceiveDatagram
    <2>2. CASE udp.queued = 0
      <3>1. /\ udp' = [udp EXCEPT !.rxMask = TRUE, !.event = FALSE]
            /\ receiver' = [receiver EXCEPT ![r] = "waiting"]
        BY <1>2, <2>2 DEF udpReceiveDatagram
      <3>2. /\ udp' \in [open : BOOLEAN, queued : Nat, rxMask : BOOLEAN, event : BOOLEAN]
            /\ udp'.rxMask = TRUE /\ udp'.queued = 0
        BY <2>2, <3>1
      <3> QED
        BY <3>1, <3>2
    <2> QED
      BY <2>1, <2>2
  <1>3. ASSUME NEW r \in Receiver, EventTaken(r) PROVE UdpInvariant'
    BY <1>3 DEF EventTaken
  <1>4. ASSUME NEW r \in Receiver, WaitTimesOut(r) PROVE UdpInvariant'
    BY <1>4 DEF WaitTimesOut
  <1>5. ASSUME NEW r \in Receiver, NEW peek \in BOOLEAN, AfterWait(r, peek)
        PROVE  UdpInvariant'
    <2>1. /\ receiver' \in [Receiver -> {"idle", "waiting", "awake"}]
          /\ \A q \in Receiver : receiver'[q] = "waiting" => receiver[q] = "waiting"
      BY <1>5 DEF AfterWait
    <2>2. CASE udp.queued > 0
      <3>1. udp' = Take(udp, peek)
        BY <1>5, <2>2 DEF AfterWait
      <3> QED
        BY <2>1, <2>2, <3>1, TakeSignals
    <2>3. CASE udp.queued = 0
      <3>1. udp' = udp
        BY <1>5, <2>3 DEF AfterWait
      <3> QED
        BY <2>1, <2>3, <3>1
    <2> QED
      BY <2>2, <2>3
  <1>6. CASE DatagramClose
    <2>1. udp' = [udp EXCEPT !.open = FALSE, !.queued = 0] /\ receiver' = receiver
      BY <1>6 DEF DatagramClose
    <2>2. /\ udp' \in [open : BOOLEAN, queued : Nat, rxMask : BOOLEAN, event : BOOLEAN]
          /\ udp'.rxMask = udp.rxMask /\ udp'.queued = 0
      BY <2>1
    <2> QED
      BY <2>1, <2>2
  <1>7. CASE UNCHANGED udpVars
    BY <1>7 DEF udpVars
  <1> QED
    BY <1>1, <1>2, <1>3, <1>4, <1>5, <1>6, <1>7 DEF UdpNext

\* ReceiverWoken for any number of tasks and any queue size: a datagram in
\* udpReceiveDatagram's queue never waits beside a sleeping task without a
\* wakeup under way.
THEOREM ReceiverAlwaysWoken == UdpSpec => []ReceiverWoken
  <1>1. UdpInit => UdpInvariant
    BY DEF UdpInit, UdpInvariant, ReceiverWoken
  <1>2. UdpInvariant => ReceiverWoken
    BY DEF UdpInvariant
  <1> QED
    BY <1>1, <1>2, UdpStep, PTL DEF UdpSpec

-----------------------------------------------------------------------------
(* The resolver *)

DnsEntry == [state : {"NONE", "IN_PROGRESS", "RESOLVED"},
             name : Name \cup {NoName}, port : Port, id : Id,
             dnsServerNum : 0..ServerCount, retransmitCount : 0..MaxTries,
             ipAddr : Name \cup {NoName}]

\* Pending queries use different ports (see PortRested): removing a callback
\* makes no other query deaf.
PortsDiffer ==
    \A i, j \in DnsSlot : i # j /\ Pending(dns[i]) /\ Pending(dns[j]) =>
        dns[i].port # dns[j].port

\* An entry is resolved to the address of its own name.
ResolvedToOwn == \A i \in DnsSlot : dns[i].state = "RESOLVED" => dns[i].ipAddr = dns[i].name

\* ResolverSound with what makes it inductive.
DnsInvariant ==
    /\ DnsTypeOK
    /\ nextPort \in Port
    /\ CallbacksMatchQueries
    /\ PortsDiffer
    /\ ResolvedToOwn
    /\ AnswersOwnName

\* A cleared entry is well formed and not pending.
LEMMA DeletedEntry == Deleted \in DnsEntry /\ Deleted.state = "NONE"
  <1>1. 0 \in Port /\ 0 \in 0..ServerCount /\ 0 \in 0..MaxTries
    BY DnsAssumption DEF Port
  <1>2. (CHOOSE d \in Id : TRUE) \in Id
    BY DnsAssumption
  <1> HIDE DEF Port
  <1> QED
    BY <1>1, <1>2 DEF Deleted, NoEntry, DnsEntry

\* The slot dnsCreateEntry takes exists.
LEMMA CreateTakesSlot ==
    ASSUME NEW i \in dnsCreateEntry
    PROVE  i \in DnsSlot
  <1> DEFINE free == {k \in DnsSlot : dns[k].state = "NONE"}
  <1>1. free \in SUBSET Nat
    BY DEF DnsSlot
  <1>2. free # {} => Min(free) \in free
    BY <1>1, MinIsMember
  <1> QED
    BY <1>2 DEF dnsCreateEntry

\* The first entry of a name is an entry of that name.
LEMMA FindsName ==
    ASSUME NEW name, dnsFindEntry(name) # {}
    PROVE  Min(dnsFindEntry(name)) \in DnsSlot /\ dns[Min(dnsFindEntry(name))].name = name
  <1>1. dnsFindEntry(name) \in SUBSET Nat
    BY DEF dnsFindEntry, DnsSlot
  <1>2. Min(dnsFindEntry(name)) \in dnsFindEntry(name)
    BY <1>1, MinIsMember
  <1> QED
    BY <1>2 DEF dnsFindEntry

\* A task's answer is recorded; the cache is as before.
LEMMA AsksAnswered ==
    ASSUME DnsInvariant, NEW t \in Task, NEW name \in Name, NEW pc \in {"poll", "done"},
           NEW answer \in {NoName, name}, Asks(t, name, pc, answer)
    PROVE  /\ resolver' \in [Task -> [pc : {"idle", "poll", "done"}, name : Name \cup {NoName},
                                      answer : Name \cup {NoName}]]
           /\ AnswersOwnName'
  <1> DEFINE r == [pc |-> pc, name |-> name, answer |-> answer]
  <1>1. /\ r \in [pc : {"idle", "poll", "done"}, name : Name \cup {NoName},
                  answer : Name \cup {NoName}]
        /\ r.answer \in {NoName, r.name}
    OBVIOUS
  <1>2. resolver' = [resolver EXCEPT ![t] = r]
    BY DEF Asks
  <1> HIDE DEF r
  <1> QED
    BY <1>1, <1>2 DEF DnsInvariant, DnsTypeOK, AnswersOwnName

\* Entry i is replaced: what it leaves and what it adds to the callbacks.
LEMMA EntryReplaced ==
    ASSUME DnsInvariant, NEW i \in DnsSlot, NEW e \in DnsEntry,
           dns' = [dns EXCEPT ![i] = e],
           IF Pending(e) THEN callbacks' = (callbacks \ Detached(i)) \cup {e.port}
                         ELSE callbacks' = callbacks \ Detached(i),
           Pending(e) => \A j \in DnsSlot \ {i} : Pending(dns[j]) => dns[j].port # e.port,
           e.state = "RESOLVED" => e.ipAddr = e.name
    PROVE  /\ dns' \in [DnsSlot -> DnsEntry]
           /\ callbacks' \subseteq Port
           /\ CallbacksMatchQueries'
           /\ PortsDiffer'
           /\ ResolvedToOwn'
  <1>1. dns \in [DnsSlot -> DnsEntry]
    BY DEF DnsInvariant, DnsTypeOK, DnsEntry
  <1>2. dns'[i] = e /\ \A j \in DnsSlot \ {i} : dns'[j] = dns[j]
    BY <1>1
  <1>3. dns' \in [DnsSlot -> DnsEntry]
    BY <1>1
  <1>4. PortsDiffer'
    BY <1>2 DEF PortsDiffer, DnsInvariant
  <1>5. ResolvedToOwn'
    BY <1>2 DEF ResolvedToOwn, DnsInvariant
  <1>6. \A j \in DnsSlot \ {i} : Pending(dns[j]) => dns[j].port \notin Detached(i)
    BY DEF Detached, DnsInvariant, PortsDiffer
  <1>7. callbacks \ Detached(i) = {dns[j].port : j \in {k \in DnsSlot \ {i} : Pending(dns[k])}}
    BY <1>6 DEF DnsInvariant, CallbacksMatchQueries, Detached
  <1>8. CallbacksMatchQueries'
    <2>1. callbacks' = {dns'[j].port : j \in {k \in DnsSlot : Pending(dns'[k])}}
      <3>1. CASE Pending(e)
        BY <1>2, <1>7, <3>1
      <3>2. CASE ~ Pending(e)
        BY <1>2, <1>7, <3>2
      <3> QED
        BY <3>1, <3>2
    <2> QED
      BY <2>1 DEF CallbacksMatchQueries
  <1>9. callbacks' \subseteq Port
    <2>1. callbacks \subseteq Port /\ e.port \in Port
      BY DEF DnsInvariant, DnsTypeOK, DnsEntry
    <2> QED
      BY <2>1
  <1> QED
    BY <1>3, <1>4, <1>5, <1>8, <1>9

\* dnsResolve when the name is in the cache.
LEMMA ResolveCachedStep ==
    ASSUME DnsInvariant, NEW t \in Task, NEW name \in Name, dnsFindEntry(name) # {},
           ResolveCached(t, name)
    PROVE  DnsInvariant'
  <1> DEFINE e == dns[Min(dnsFindEntry(name))]
  <1>1. e.name = name /\ (e.state = "RESOLVED" => e.ipAddr = name)
    BY FindsName DEF DnsInvariant, ResolvedToOwn
  <1>2. Asks(t, name, "done", name) \/ Asks(t, name, "poll", NoName)
    BY <1>1 DEF ResolveCached
  <1>3. /\ resolver' \in [Task -> [pc : {"idle", "poll", "done"}, name : Name \cup {NoName},
                                   answer : Name \cup {NoName}]]
        /\ AnswersOwnName'
    BY <1>2, AsksAnswered
  <1>4. UNCHANGED <<dns, callbacks, nextPort, asked>>
    BY DEF ResolveCached
  <1> QED
    BY <1>3, <1>4 DEF DnsInvariant, DnsTypeOK, CallbacksMatchQueries, PortsDiffer, ResolvedToOwn

\* dnsResolve when a query has to be sent: the evicted entry loses its
\* callback, the new one gets its own.
LEMMA ResolveAskStep ==
    ASSUME DnsInvariant, NEW i \in DnsSlot, NEW t \in Task, NEW name \in Name, NEW id \in Id,
           NEW works \in BOOLEAN, ResolveAsk(i, t, name, id, works)
    PROVE  DnsInvariant'
  <1> DEFINE e == [NoEntry EXCEPT !.name = name, !.port = nextPort, !.id = id,
                                  !.retransmitCount = MaxTries]
             new == [e EXCEPT !.state = "IN_PROGRESS", !.retransmitCount = @ - 1]
  <1>1. nextPort \in Port /\ nextPort' \in Port
    BY DnsAssumption DEF DnsInvariant, ResolveAsk, Port
  <1>2. /\ new \in DnsEntry /\ Pending(new) /\ new.port = nextPort
        /\ QueryOf(e) \in Query
    <2>1. MaxTries - 1 \in 0..MaxTries /\ 0 \in 0..ServerCount
      BY DnsAssumption
    <2> HIDE DEF Port
    <2> QED
      BY <1>1, <2>1 DEF NoEntry, DnsEntry, Pending, QueryOf, Query
  <1>3. \A j \in DnsSlot \ {i} : Pending(dns[j]) => dns[j].port # nextPort
    BY DEF ResolveAsk, PortRested
  <1> HIDE DEF e, new
  <1>4. CASE /\ dns' = [dns EXCEPT ![i] = new]
             /\ callbacks' = (callbacks \ Detached(i)) \cup {nextPort}
             /\ asked' = asked \cup {QueryOf(e)}
             /\ Asks(t, name, "poll", NoName)
    <2>1. /\ dns' \in [DnsSlot -> DnsEntry] /\ callbacks' \subseteq Port
          /\ CallbacksMatchQueries' /\ PortsDiffer' /\ ResolvedToOwn'
      BY <1>2, <1>3, <1>4, EntryReplaced DEF Pending
    <2>2. asked' \subseteq Query
      BY <1>2, <1>4 DEF DnsInvariant, DnsTypeOK
    <2>3. /\ resolver' \in [Task -> [pc : {"idle", "poll", "done"}, name : Name \cup {NoName},
                                     answer : Name \cup {NoName}]]
          /\ AnswersOwnName'
      BY <1>4, AsksAnswered
    <2> QED
      BY <1>1, <2>1, <2>2, <2>3 DEF DnsInvariant, DnsTypeOK, DnsEntry
  <1>5. CASE /\ dns' = [dns EXCEPT ![i] = Deleted]
             /\ callbacks' = callbacks \ Detached(i)
             /\ Asks(t, name, "done", NoName)
             /\ UNCHANGED asked
    <2>1. /\ dns' \in [DnsSlot -> DnsEntry] /\ callbacks' \subseteq Port
          /\ CallbacksMatchQueries' /\ PortsDiffer' /\ ResolvedToOwn'
      BY <1>5, DeletedEntry, EntryReplaced DEF Pending
    <2>2. /\ resolver' \in [Task -> [pc : {"idle", "poll", "done"}, name : Name \cup {NoName},
                                     answer : Name \cup {NoName}]]
          /\ AnswersOwnName'
      BY <1>5, AsksAnswered
    <2> QED
      BY <1>1, <1>5, <2>1, <2>2 DEF DnsInvariant, DnsTypeOK, DnsEntry
  <1> QED
    BY <1>4, <1>5 DEF ResolveAsk, e, new

\* A round of the polling loop.
LEMMA PollStep ==
    ASSUME DnsInvariant, NEW t \in Task, Poll(t)
    PROVE  DnsInvariant'
  <1> DEFINE found == dnsFindEntry(resolver[t].name)
  <1>1. UNCHANGED <<dns, callbacks, nextPort, asked>>
    BY DEF Poll
  <1>2. PICK answer \in {NoName, resolver[t].name} : Goes(t, "done", answer)
    <2>1. CASE found = {}
      BY <2>1 DEF Poll
    <2>2. CASE found # {}
      <3>1. Goes(t, "done", dns[Min(found)].ipAddr) /\ dns[Min(found)].state = "RESOLVED"
        BY <2>2 DEF Poll
      <3>2. dns[Min(found)].ipAddr = resolver[t].name
        BY <2>2, <3>1, FindsName DEF DnsInvariant, ResolvedToOwn
      <3> QED
        BY <3>1, <3>2
    <2> QED
      BY <2>1, <2>2
  <1>3. resolver' = [resolver EXCEPT ![t] = [resolver[t] EXCEPT !.pc = "done", !.answer = answer]]
    BY <1>2 DEF Goes, DnsInvariant, DnsTypeOK
  <1>4. /\ resolver' \in [Task -> [pc : {"idle", "poll", "done"}, name : Name \cup {NoName},
                                   answer : Name \cup {NoName}]]
        /\ AnswersOwnName'
    <2> DEFINE R == [pc : {"idle", "poll", "done"}, name : Name \cup {NoName},
                     answer : Name \cup {NoName}]
               r == [resolver[t] EXCEPT !.pc = "done", !.answer = answer]
    <2>1. resolver \in [Task -> R] /\ resolver[t] \in R
      BY DEF DnsInvariant, DnsTypeOK
    <2>2. answer \in Name \cup {NoName}
      BY <2>1
    <2>3. r \in R /\ r.answer = answer /\ r.name = resolver[t].name
      BY <2>1, <2>2
    <2>4. resolver' = [resolver EXCEPT ![t] = r]
      BY <1>3
    <2> HIDE DEF r, R
    <2>5. resolver' \in [Task -> R]
      BY <2>1, <2>3, <2>4
    <2>6. AnswersOwnName'
      BY <1>2, <2>1, <2>3, <2>4 DEF DnsInvariant, AnswersOwnName
    <2> QED
      BY <2>5, <2>6 DEF R
  <1> QED
    BY <1>1, <1>4 DEF DnsInvariant, DnsTypeOK, CallbacksMatchQueries, PortsDiffer, ResolvedToOwn

\* A response that is accepted is for a pending entry.
LEMMA MatchesPending ==
    ASSUME NEW i \in DnsSlot, NEW q, Matches(i, q)
    PROVE  Pending(dns[i]) /\ dns[i].name = q.name
  <1> DEFINE S == {k \in DnsSlot : Pending(dns[k]) /\ dns[k].port = q.port} \cup {DnsSlots + 1}
  <1>1. S \in SUBSET Nat /\ S # {}
    BY DnsAssumption DEF DnsSlot
  <1>2. i = Min(S) /\ QueryOf(dns[i]) = q
    BY DEF Matches
  <1>3. i \in S
    BY <1>1, <1>2, MinIsMember
  <1>4. i # DnsSlots + 1
    BY DnsAssumption DEF DnsSlot
  <1>5. QueryOf(dns[i]).name = dns[i].name
    BY DEF QueryOf
  <1> QED
    BY <1>2, <1>3, <1>4, <1>5

LEMMA ResponseStep ==
    ASSUME DnsInvariant, NEW q \in Query, NEW kind, dnsProcessResponse(q, kind)
    PROVE  DnsInvariant'
  <1>1. UNCHANGED <<nextPort, asked, resolver>>
    BY DEF dnsProcessResponse
  <1>2. PICK i \in DnsSlot :
           /\ Matches(i, q)
           /\ \/ /\ dns' = [dns EXCEPT ![i].state = "RESOLVED", ![i].ipAddr = q.name]
                 /\ callbacks' = callbacks \ {dns[i].port}
              \/ /\ dns' = [dns EXCEPT ![i] = Deleted]
                 /\ callbacks' = callbacks \ Detached(i)
    BY DEF dnsProcessResponse
  <1>3. Pending(dns[i]) /\ dns[i].name = q.name /\ Detached(i) = {dns[i].port}
    BY <1>2, MatchesPending DEF Detached
  <1>4. dns \in [DnsSlot -> DnsEntry] /\ dns[i] \in DnsEntry
    BY DEF DnsInvariant, DnsTypeOK, DnsEntry
  <1> DEFINE e == [dns[i] EXCEPT !.state = "RESOLVED", !.ipAddr = q.name]
  <1>5. e \in DnsEntry /\ e.state = "RESOLVED" /\ e.ipAddr = e.name
    BY <1>3, <1>4 DEF DnsEntry, Query
  <1>6. dns' = [dns EXCEPT ![i] = e] \/ dns' = [dns EXCEPT ![i] = Deleted]
    BY <1>2, <1>4
  <1> HIDE DEF e
  <1>7. /\ dns' \in [DnsSlot -> DnsEntry] /\ callbacks' \subseteq Port
        /\ CallbacksMatchQueries' /\ PortsDiffer' /\ ResolvedToOwn'
    <2>1. callbacks' = callbacks \ Detached(i)
      BY <1>2, <1>3
    <2>2. CASE dns' = [dns EXCEPT ![i] = e]
      BY <1>5, <2>1, <2>2, EntryReplaced DEF Pending
    <2>3. CASE dns' = [dns EXCEPT ![i] = Deleted]
      BY <2>1, <2>3, DeletedEntry, EntryReplaced DEF Pending
    <2> QED
      BY <1>6, <2>2, <2>3
  <1> QED
    BY <1>1, <1>7 DEF DnsInvariant, DnsTypeOK, DnsEntry, AnswersOwnName

\* One pass of the tick: an entry is deleted with its callback, or its query
\* is sent again on the same port.
LEMMA DnsTickStep ==
    ASSUME DnsInvariant, NEW due \in SUBSET DnsSlot, NEW works \in BOOLEAN, dnsTick(due, works)
    PROVE  DnsInvariant'
  <1>1. UNCHANGED <<nextPort, asked, resolver>>
    BY DEF dnsTick
  <1>2. dns' = [i \in DnsSlot |-> IF i \in due THEN TickEntry(i, works) ELSE dns[i]]
    BY DEF dnsTick
  <1>3. callbacks' = callbacks \ UNION {Detached(i) : i \in {k \in due : ~ TickSends(k, works)}}
    BY DEF dnsTick
  <1>4. ASSUME NEW i \in DnsSlot
        PROVE  /\ dns'[i] \in DnsEntry
               /\ Pending(dns'[i]) => Pending(dns[i]) /\ dns'[i].port = dns[i].port
               /\ Pending(dns'[i]) <=> Pending(dns[i]) /\ (i \in due => TickSends(i, works))
               /\ dns'[i].state = "RESOLVED" => dns'[i] = dns[i]
    <2>1. dns[i] \in DnsEntry
      BY DEF DnsInvariant, DnsTypeOK, DnsEntry
    <2>2. CASE i \notin due
      BY <1>2, <2>1, <2>2
    <2>3. CASE i \in due /\ TickSends(i, works)
      <3> DEFINE e == TickQuery(dns[i])
                 x == IF e.retransmitCount = 0 THEN 0 ELSE e.retransmitCount - 1
      <3>1. dns'[i] = [e EXCEPT !.retransmitCount = x]
        BY <1>2, <2>3 DEF TickEntry
      <3>2. Pending(dns[i]) /\ e.dnsServerNum < ServerCount
        BY <2>3 DEF TickSends, CanSend
      <3>3. /\ e \in [state : {"NONE", "IN_PROGRESS", "RESOLVED"},
                      name : Name \cup {NoName}, port : Port, id : Id,
                      dnsServerNum : Nat, retransmitCount : 0..MaxTries,
                      ipAddr : Name \cup {NoName}]
            /\ e.state = dns[i].state /\ e.port = dns[i].port
        <4>1. 0..ServerCount \subseteq Nat /\ MaxTries \in 0..MaxTries
          BY DnsAssumption
        <4>2. dns[i].dnsServerNum \in Nat /\ dns[i].dnsServerNum + 1 \in Nat
          BY <2>1, <4>1 DEF DnsEntry
        <4>3. CASE dns[i].retransmitCount > 0
          BY <2>1, <4>2, <4>3 DEF TickQuery, DnsEntry
        <4>4. CASE ~ (dns[i].retransmitCount > 0)
          <5>1. e = [dns[i] EXCEPT !.dnsServerNum = dns[i].dnsServerNum + 1,
                                   !.retransmitCount = MaxTries]
            BY <2>1, <4>4 DEF TickQuery, DnsEntry
          <5> QED
            BY <2>1, <4>1, <4>2, <5>1 DEF DnsEntry
        <4> QED
          BY <4>3, <4>4
      <3>4. x \in 0..MaxTries /\ e.dnsServerNum \in 0..ServerCount
        BY <3>2, <3>3, DnsAssumption
      <3> HIDE DEF e, x
      <3>5. /\ dns'[i] \in DnsEntry
            /\ dns'[i].state = dns[i].state /\ dns'[i].port = dns[i].port
        BY <3>1, <3>3, <3>4 DEF DnsEntry
      <3> QED
        BY <2>3, <3>2, <3>5 DEF Pending
    <2>4. CASE i \in due /\ ~ TickSends(i, works)
      <3>1. dns'[i] = Deleted
        BY <1>2, <2>4 DEF TickEntry
      <3> QED
        BY <2>4, <3>1, DeletedEntry DEF Pending
    <2> QED
      BY <2>2, <2>3, <2>4
  <1>5. dns' \in [DnsSlot -> DnsEntry]
    BY <1>2, <1>4
  <1>6. PortsDiffer'
    BY <1>4 DEF PortsDiffer, DnsInvariant
  <1>7. ResolvedToOwn'
    BY <1>4 DEF ResolvedToOwn, DnsInvariant
  <1>8. CallbacksMatchQueries'
    <2>1. ASSUME NEW p
          PROVE  p \in callbacks' <=> \E i \in DnsSlot : Pending(dns'[i]) /\ p = dns'[i].port
      <3>1. p \in callbacks <=> \E i \in DnsSlot : Pending(dns[i]) /\ p = dns[i].port
        BY DEF DnsInvariant, CallbacksMatchQueries
      <3>2. p \in UNION {Detached(i) : i \in {k \in due : ~ TickSends(k, works)}} <=>
                \E i \in due : ~ TickSends(i, works) /\ Pending(dns[i]) /\ p = dns[i].port
        BY DEF Detached
      <3> QED
        BY <1>3, <1>4, <3>1, <3>2 DEF DnsInvariant, PortsDiffer
    <2> QED
      BY <2>1 DEF CallbacksMatchQueries
  <1>9. callbacks' \subseteq Port
    BY <1>3 DEF DnsInvariant, DnsTypeOK
  <1> QED
    BY <1>1, <1>5, <1>6, <1>7, <1>8, <1>9 DEF DnsInvariant, DnsTypeOK, DnsEntry, AnswersOwnName

\* dnsFlushCache deletes every entry and every callback.
LEMMA FlushStep ==
    ASSUME DnsInvariant, dnsFlushCache
    PROVE  DnsInvariant'
  <1>1. /\ dns' = [i \in DnsSlot |-> Deleted]
        /\ callbacks' = callbacks \ UNION {Detached(i) : i \in DnsSlot}
        /\ UNCHANGED <<nextPort, asked, resolver>>
    BY DEF dnsFlushCache
  <1>2. dns' \in [DnsSlot -> DnsEntry] /\ \A i \in DnsSlot : dns'[i].state = "NONE"
    BY <1>1, DeletedEntry
  <1>3. callbacks' = {}
    BY <1>1 DEF DnsInvariant, CallbacksMatchQueries, Detached
  <1>4. CallbacksMatchQueries' /\ PortsDiffer' /\ ResolvedToOwn'
    BY <1>2, <1>3 DEF CallbacksMatchQueries, PortsDiffer, ResolvedToOwn, Pending
  <1> QED
    BY <1>1, <1>2, <1>3, <1>4 DEF DnsInvariant, DnsTypeOK, DnsEntry, AnswersOwnName

\* Every step of the tasks, the tick and the network keeps the invariant.
LEMMA DnsStep == DnsInvariant /\ [DnsNext]_dnsVars => DnsInvariant'
  <1> SUFFICES ASSUME DnsInvariant, [DnsNext]_dnsVars PROVE DnsInvariant'
    OBVIOUS
  <1>1. ASSUME NEW t \in Task, NEW name \in Name, NEW id \in Id, NEW works \in BOOLEAN,
               dnsResolve(t, name, id, works)
        PROVE  DnsInvariant'
    <2>1. CASE dnsFindEntry(name) # {} /\ ResolveCached(t, name)
      BY <2>1, ResolveCachedStep
    <2>2. CASE \E i \in dnsCreateEntry : ResolveAsk(i, t, name, id, works)
      BY <2>2, CreateTakesSlot, ResolveAskStep
    <2> QED
      BY <1>1, <2>1, <2>2 DEF dnsResolve
  <1>2. CASE UNCHANGED dnsVars
    BY <1>2 DEF dnsVars, DnsInvariant, DnsTypeOK, CallbacksMatchQueries, PortsDiffer,
                ResolvedToOwn, AnswersOwnName
  <1> QED
    BY <1>1, <1>2, PollStep, DnsTickStep, ResponseStep, FlushStep DEF DnsNext

\* The resolver's inductive invariant, and with it the types of its state: the
\* number of an entry's server stays within the list of servers.
THEOREM DnsClientInvariant == DnsSpec => []DnsInvariant
  <1>1. DnsInit => DnsInvariant
    <2> SUFFICES ASSUME DnsInit PROVE DnsInvariant
      OBVIOUS
    <2>1. dns \in [DnsSlot -> DnsEntry] /\ \A i \in DnsSlot : dns[i].state = "NONE"
      BY DeletedEntry DEF DnsInit, Deleted
    <2>2. 0 \in Port
      BY DnsAssumption DEF Port
    <2>3. DnsTypeOK
      BY <2>1 DEF DnsInit, DnsTypeOK, DnsEntry
    <2>4. CallbacksMatchQueries /\ PortsDiffer /\ ResolvedToOwn
      BY <2>1 DEF DnsInit, CallbacksMatchQueries, PortsDiffer, ResolvedToOwn, Pending
    <2>5. AnswersOwnName
      BY DEF DnsInit, AnswersOwnName
    <2> QED
      BY <2>2, <2>3, <2>4, <2>5 DEF DnsInit, DnsInvariant
  <1> QED
    BY <1>1, DnsStep, PTL DEF DnsSpec

\* ResolverSound for any number of tasks, names, cache entries, ports,
\* identifiers, servers and retries: the callbacks are those of the pending
\* queries, and dnsResolve never returns the address of another name.
THEOREM ResolverAlwaysSound == DnsSpec => []ResolverSound
  <1>1. DnsInvariant => ResolverSound
    BY DEF DnsInvariant, ResolverSound
  <1> QED
    BY <1>1, DnsClientInvariant, PTL

=============================================================================
