----------------------------- MODULE DnsClient -----------------------------
(***************************************************************************)
(* The DNS resolver (dns/dns_client.c, dns/dns_cache.c) with the part of   *)
(* core/udp.c it rests on: the table of receive callbacks and the dynamic  *)
(* port counter.  Tasks resolve names: dnsResolve sends a query and then   *)
(* polls the cache, releasing the stack's mutex between polls, while the   *)
(* tick retransmits, other tasks evict entries and the network answers.    *)
(*                                                                         *)
(* The network may lose, delay, repeat and reorder: any query ever sent    *)
(* may be answered at any time.  The address a server gives for a name is  *)
(* represented by the name itself.                                         *)
(***************************************************************************)
EXTENDS Naturals, FiniteSetsExt

CONSTANTS Task,          \* tasks that resolve names
          Name,          \* the names they ask for
          NoName,        \* a cleared name field, and no address
          DnsSlots,      \* DNS_CACHE_SIZE
          PortCount,     \* the number of dynamic ports
          Id,            \* the values of a query's identifier
          MaxTries,      \* DNS_CLIENT_MAX_RETRIES
          ServerCount,   \* the DNS servers configured on the interface
          MaxCalls       \* bound: calls of dnsResolve by all tasks

ASSUME DnsAssumption == /\ {DnsSlots, PortCount, MaxTries} \subseteq Nat \ {0}
                        /\ ServerCount \in Nat
                        /\ Id # {} /\ NoName \notin Name

VARIABLES dns,       \* dnsCache
          dnsOlder,  \* for each slot, those with an older time stamp
          callbacks, \* the ports with a receive callback
          nextPort,  \* udpDynamicPort, counted from the first (random) one
          asked,     \* the queries that have been sent
          resolver,  \* the tasks: pc, the name asked for, the answer
          calls      \* the calls of dnsResolve so far

dnsVars == <<dns, dnsOlder, callbacks, nextPort, asked, resolver, calls>>

DnsSlot == 1..DnsSlots
Port == 0..(PortCount - 1)
Query == [port : Port, id : Id, name : Name]

NoEntry == [state |-> "NONE", name |-> NoName, port |-> 0, id |-> CHOOSE d \in Id : TRUE,
            dnsServerNum |-> 0, retransmitCount |-> 0, ipAddr |-> NoName]

DnsInit == /\ dns = [i \in DnsSlot |-> NoEntry]
           /\ dnsOlder = [i \in DnsSlot |-> 1..(i - 1)]
           /\ callbacks = {}
           /\ nextPort = 0
           /\ asked = {}
           /\ resolver = [t \in Task |-> [pc |-> "idle", name |-> NoName,
                                          answer |-> NoName]]
           /\ calls = 0

Pending(e) == e.state = "IN_PROGRESS"

\* The slots that hold name (dnsFindEntry takes the first).
dnsFindEntry(name) == {i \in DnsSlot : dns[i].state # "NONE" /\ dns[i].name = name}

\* The slots are stamped in one pass: the others are older now.
DnsStamped(slots) ==
    [i \in DnsSlot |-> IF i \in slots THEN (DnsSlot \ slots) \cup dnsOlder[i]
                                      ELSE dnsOlder[i] \ slots]

\* The callbacks dnsDeleteEntry removes with entry i: every one on its port.
Detached(i) == IF Pending(dns[i]) THEN {dns[i].port} ELSE {}

\* dnsDeleteEntry resets the state; the other fields of a free entry are not
\* read before dnsCreateEntry clears them.
Deleted == NoEntry

\* The slot dnsCreateEntry takes: the first free one, or the oldest.
dnsCreateEntry ==
    LET free == {i \in DnsSlot : dns[i].state = "NONE"}
    IN  IF free # {} THEN {Min(free)} ELSE {i \in DnsSlot : dnsOlder[i] = {}}

\* dnsSendQuery fails without a server of that number; udpSendDatagramEx, or
\* the allocation of the buffer, may fail as well.
CanSend(e, works) == works /\ e.dnsServerNum < ServerCount

QueryOf(e) == [port |-> e.port, id |-> e.id, name |-> e.name]

-----------------------------------------------------------------------------
(* dnsResolve *)

Goes(t, pc, answer) ==
    resolver' = [resolver EXCEPT ![t].pc = pc, ![t].answer = answer]

Asks(t, name, pc, answer) ==
    /\ resolver' = [resolver EXCEPT ![t] = [pc |-> pc, name |-> name, answer |-> answer]]
    /\ calls' = calls + 1

\* The name is in the cache.
ResolveCached(t, name) ==
    LET e == dns[Min(dnsFindEntry(name))]
    IN  /\ IF e.state = "RESOLVED" THEN Asks(t, name, "done", e.ipAddr)
                                   ELSE Asks(t, name, "poll", NoName)
        /\ UNCHANGED <<dns, dnsOlder, callbacks, nextPort, asked>>

\* A port is not allocated again while a query that uses it is pending: the
\* counter would have to go once round the dynamic range in that time.
PortRested == \A i \in DnsSlot : Pending(dns[i]) => dns[i].port # nextPort

\* A new entry: a port, an identifier and a callback, then the first query.
\* When a step fails (udpCallbackTable, which other protocols share, has no
\* room, or the query is not sent) the entry is left free without a callback.
ResolveAsk(i, t, name, id, works) ==
    LET kept == callbacks \ Detached(i)
        e    == [NoEntry EXCEPT !.name = name, !.port = nextPort, !.id = id,
                                !.retransmitCount = MaxTries]
    IN  /\ PortRested
        /\ nextPort' = (nextPort + 1) % PortCount
        /\ \/ /\ CanSend(e, works)
              /\ dns' = [dns EXCEPT ![i] = [e EXCEPT !.state = "IN_PROGRESS",
                                                     !.retransmitCount = @ - 1]]
              /\ dnsOlder' = DnsStamped({i})
              /\ callbacks' = kept \cup {nextPort}
              /\ asked' = asked \cup {QueryOf(e)}
              /\ Asks(t, name, "poll", NoName)
           \/ /\ ~ CanSend(e, works)
              /\ dns' = [dns EXCEPT ![i] = Deleted]
              /\ callbacks' = kept
              /\ Asks(t, name, "done", NoName)
              /\ UNCHANGED <<dnsOlder, asked>>

dnsResolve(t, name, id, works) ==
    /\ resolver[t].pc \in {"idle", "done"} /\ calls < MaxCalls
    /\ \/ dnsFindEntry(name) # {} /\ ResolveCached(t, name)
       \/ /\ dnsFindEntry(name) = {}
          /\ \E i \in dnsCreateEntry : ResolveAsk(i, t, name, id, works)

\* One round of the polling loop of dnsResolve.
Poll(t) ==
    /\ resolver[t].pc = "poll"
    /\ LET found == dnsFindEntry(resolver[t].name)
       IN  \/ found = {} /\ Goes(t, "done", NoName)
           \/ /\ found # {} /\ dns[Min(found)].state = "RESOLVED"
              /\ Goes(t, "done", dns[Min(found)].ipAddr)
    /\ UNCHANGED <<dns, dnsOlder, callbacks, nextPort, asked, calls>>

-----------------------------------------------------------------------------
(* dnsTick *)

\* The last server is asked for ever.
TickQuery_LastServerForEver(e) ==
    IF e.retransmitCount > 0 \/ e.dnsServerNum + 1 >= ServerCount THEN e
    ELSE [e EXCEPT !.dnsServerNum = @ + 1, !.retransmitCount = MaxTries]

\* The query of a pending entry whose timeout has elapsed: the same server
\* again while tries are left, then the next one.
TickQuery(e) ==
    IF e.retransmitCount > 0 THEN e
    ELSE [e EXCEPT !.dnsServerNum = @ + 1, !.retransmitCount = MaxTries]

\* A pending entry is deleted when its query cannot be sent, a resolved one
\* when its lifetime has elapsed.
TickSends(i, works) == Pending(dns[i]) /\ CanSend(TickQuery(dns[i]), works)

TickEntry(i, works) ==
    IF TickSends(i, works)
    THEN [TickQuery(dns[i]) EXCEPT !.retransmitCount = IF @ = 0 THEN 0 ELSE @ - 1]
    ELSE Deleted

\* One pass over the cache; the entries in due have timed out.
dnsTick(due, works) ==
    /\ \A i \in due : dns[i].state # "NONE"
    /\ dns' = [i \in DnsSlot |-> IF i \in due THEN TickEntry(i, works) ELSE dns[i]]
    /\ dnsOlder' = DnsStamped(due)
    /\ callbacks' = callbacks \ UNION {Detached(i) : i \in {k \in due : ~ TickSends(k, works)}}
    /\ UNCHANGED <<nextPort, asked, resolver, calls>>

-----------------------------------------------------------------------------
(* dnsProcessResponse *)

\* A response is taken for the pending entry on its port, whatever it answers.
Matches_ByPort(i, q) == Pending(dns[i]) /\ dns[i].port = q.port

\* The entry a response is for: the first pending one on its port, provided
\* the identifier and the question are the entry's.
Matches(i, q) ==
    /\ i = Min({k \in DnsSlot : Pending(dns[k]) /\ dns[k].port = q.port} \cup {DnsSlots + 1})
    /\ QueryOf(dns[i]) = q

\* A response reaches the resolver through the callback on its port
\* (udpInvokeRxCallback); an error deletes the entry, an answer without a
\* usable record leaves it pending.
dnsProcessResponse(q, kind) ==
    /\ q \in asked /\ q.port \in callbacks
    /\ \E i \in DnsSlot :
          /\ Matches(i, q)
          /\ \/ /\ kind = "answer"
                /\ dns' = [dns EXCEPT ![i].state = "RESOLVED", ![i].ipAddr = q.name]
                /\ dnsOlder' = DnsStamped({i})
                /\ callbacks' = callbacks \ {dns[i].port}
             \/ /\ kind = "error"
                /\ dns' = [dns EXCEPT ![i] = Deleted]
                /\ callbacks' = callbacks \ Detached(i)
                /\ UNCHANGED dnsOlder
    /\ UNCHANGED <<nextPort, asked, resolver, calls>>

\* dnsFlushCache, called by netProcessLinkChange.
dnsFlushCache ==
    /\ dns' = [i \in DnsSlot |-> Deleted]
    /\ callbacks' = callbacks \ UNION {Detached(i) : i \in DnsSlot}
    /\ UNCHANGED <<dnsOlder, nextPort, asked, resolver, calls>>

DnsNext ==
    \/ \E t \in Task, name \in Name, id \in Id, works \in BOOLEAN :
          dnsResolve(t, name, id, works)
    \/ \E t \in Task : Poll(t)
    \/ \E due \in (SUBSET DnsSlot) \ {{}}, works \in BOOLEAN : dnsTick(due, works)
    \/ \E q \in Query, kind \in {"answer", "error"} : dnsProcessResponse(q, kind)
    \/ dnsFlushCache

DnsSpec == DnsInit /\ [][DnsNext]_dnsVars

\* A polling task runs again after its delay, and the net task calls dnsTick
\* periodically, so an elapsed timeout is eventually acted upon.
DnsFairness ==
    /\ \A t \in Task : WF_dnsVars(Poll(t))
    /\ \A i \in DnsSlot :
          WF_dnsVars(/\ Pending(dns[i])
                     /\ \E due \in SUBSET DnsSlot, works \in BOOLEAN :
                           i \in due /\ dnsTick(due, works))

-----------------------------------------------------------------------------
\* The entries, the callbacks and the tasks are well formed, and the server
\* number of an entry stays within the list.
DnsTypeOK ==
    /\ dns \in [DnsSlot -> [state : {"NONE", "IN_PROGRESS", "RESOLVED"},
                            name : Name \cup {NoName}, port : Port, id : Id,
                            dnsServerNum : 0..ServerCount, retransmitCount : 0..MaxTries,
                            ipAddr : Name \cup {NoName}]]
    /\ callbacks \subseteq Port /\ asked \subseteq Query
    /\ resolver \in [Task -> [pc : {"idle", "poll", "done"}, name : Name \cup {NoName},
                              answer : Name \cup {NoName}]]

\* The callbacks registered are those of the pending queries: an answer,
\* failure, expiry, eviction or flush leaves none behind in the table of fixed
\* size, and no pending query is deaf.
CallbacksMatchQueries == callbacks = {dns[i].port : i \in {k \in DnsSlot : Pending(dns[k])}}

\* A task that gets an address gets the one of the name it asked for, however
\* late or often responses to other queries arrive on a reused port.
AnswersOwnName == \A t \in Task : resolver[t].answer \in {NoName, resolver[t].name}

\* The resolver listens for what it has asked, and answers what it was asked.
ResolverSound == CallbacksMatchQueries /\ AnswersOwnName

\* dnsResolve returns: the polling loop ends although it has no timeout of its
\* own, because the entry it looks for is resolved or deleted.
ResolveReturns == \A t \in Task : resolver[t].pc = "poll" ~> resolver[t].pc # "poll"

=============================================================================
