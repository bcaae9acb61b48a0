------------------------------ MODULE ArpCache ------------------------------
(***************************************************************************)
(* The ARP cache of one interface (ipv4/arp.c): the reachability state of  *)
(* each neighbour and the packets that wait for its link-layer address.    *)
(* Every operation runs under the stack's mutex, so each is one action;    *)
(* the events that interleave are packets to send (ipv4SendPacket), the    *)
(* periodic tick, replies from the link and link changes.                  *)
(*                                                                         *)
(* A packet is represented by the address it is to reach.  Time stamps are *)
(* represented by age, the slots ordered from the oldest stamp to the      *)
(* newest; which timeouts have elapsed is the argument of the tick.        *)
(***************************************************************************)
EXTENDS Integers, Sequences, SequencesExt, FiniteSetsExt

CONSTANTS Addr,         \* unicast addresses on the link
          Mac,          \* link-layer addresses their owners may announce
          ArpSlots,     \* ARP_CACHE_SIZE
          MaxPending,   \* ARP_MAX_PENDING_PACKETS
          MaxRequests,  \* ARP_MAX_REQUESTS
          MaxProbes,    \* ARP_MAX_PROBES
          NoAddr        \* the content of a cleared address field

ASSUME ArpAssumption == /\ {ArpSlots, MaxPending, MaxRequests, MaxProbes} \subseteq Nat \ {0}
                        /\ NoAddr \notin Addr \cup Mac

VARIABLES arp,      \* interface->arpCache
          arpAge,   \* the slots, by the age of their time stamps
          buffers   \* the buffers allocated for the queue of each slot

arpVars == <<arp, arpAge, buffers>>

ArpSlot == 1..ArpSlots

ArpStates == {"NONE", "INCOMPLETE", "REACHABLE", "STALE", "DELAY", "PROBE"}

Cleared == [state |-> "NONE", ipAddr |-> NoAddr, macAddr |-> NoAddr,
            retransmitCount |-> 0, queue |-> << >>]

ArpInit == /\ arp = [i \in ArpSlot |-> Cleared]
           /\ arpAge = [i \in ArpSlot |-> i]
           /\ buffers = [i \in ArpSlot |-> 0]

\* The buffers arpSendQueuedPackets and arpFlushQueuedPackets free: both look
\* at the queue only while the entry is INCOMPLETE, and both empty it.
Queued(e) == IF e.state = "INCOMPLETE" THEN Len(e.queue) ELSE 0

\* The first slot that holds addr, if any.
arpFindEntry(addr) ==
    {i \in ArpSlot : arp[i].state # "NONE" /\ arp[i].ipAddr = addr}

\* The first free slot, or the one with the oldest time stamp.
arpCreateEntry ==
    LET free == {i \in ArpSlot : arp[i].state = "NONE"}
    IN  IF free # {} THEN Min(free) ELSE arpAge[1]

Stamped(slots) ==
    SelectSeq(arpAge, LAMBDA i : i \notin slots) \o
    SelectSeq(arpAge, LAMBDA i : i \in slots)

\* A queue that is full only beyond its size.
Enqueue_OneMore(e, allocated) ==
    LET room == IF Len(e.queue) > MaxPending THEN Tail(e.queue) ELSE e.queue
    IN  [e EXCEPT !.queue = IF allocated THEN Append(room, e.ipAddr) ELSE room]

\* arpEnqueuePacket on an INCOMPLETE entry: a full queue loses its oldest
\* packet before the copy is allocated, and the allocation may fail.
Enqueue(e, allocated) ==
    LET room == IF Len(e.queue) >= MaxPending THEN Tail(e.queue) ELSE e.queue
    IN  [e EXCEPT !.queue = IF allocated THEN Append(room, e.ipAddr) ELSE room]

-----------------------------------------------------------------------------
\* arpResolve for an address the cache does not hold: an entry is created, a
\* request is broadcast, and ipv4SendPacket queues the packet.
ResolveNew(addr, allocated) ==
    LET i == arpCreateEntry
        e == Enqueue([Cleared EXCEPT !.state = "INCOMPLETE", !.ipAddr = addr],
                     allocated)
    IN  /\ arp' = [arp EXCEPT ![i] = e]
        /\ arpAge' = Stamped({i})
        /\ buffers' = [buffers EXCEPT ![i] = (@ - Queued(arp[i])) + Queued(e)]

\* arpResolve for an address the cache holds: the packet joins the queue of an
\* unresolved entry and is sent at once to any other; a stale one starts its
\* delay before the first probe.
ResolveKnown(i, allocated) ==
    \/ /\ arp[i].state = "INCOMPLETE"
       /\ arp' = [arp EXCEPT ![i] = Enqueue(@, allocated)]
       /\ buffers' = [buffers EXCEPT ![i] = (@ - Queued(arp[i])) + Queued(arp'[i])]
       /\ UNCHANGED arpAge
    \/ /\ arp[i].state = "STALE"
       /\ arp' = [arp EXCEPT ![i].state = "DELAY"]
       /\ arpAge' = Stamped({i})
       /\ UNCHANGED buffers
    \/ /\ arp[i].state \in {"REACHABLE", "DELAY", "PROBE"}
       /\ UNCHANGED arpVars

ipv4SendPacket(addr, allocated) ==
    \/ arpFindEntry(addr) = {} /\ ResolveNew(addr, allocated)
    \/ arpFindEntry(addr) # {} /\ ResolveKnown(Min(arpFindEntry(addr)), allocated)

-----------------------------------------------------------------------------
\* What arpTick does to an entry whose timeout has elapsed.  The counter is
\* shared by the requests and the probes of an entry and only arpCreateEntry
\* clears it.
Expire(e) ==
    CASE e.state = "INCOMPLETE" ->
           IF e.retransmitCount + 1 < MaxRequests
           THEN [e EXCEPT !.retransmitCount = @ + 1]
           ELSE [e EXCEPT !.retransmitCount = @ + 1, !.state = "NONE",
                          !.queue = << >>]
      [] e.state = "REACHABLE"  -> [e EXCEPT !.state = "STALE"]
      [] e.state = "DELAY"      -> [e EXCEPT !.state = "PROBE"]
      [] e.state = "PROBE"      ->
           IF e.retransmitCount + 1 < MaxProbes
           THEN [e EXCEPT !.retransmitCount = @ + 1]
           ELSE [e EXCEPT !.retransmitCount = @ + 1, !.state = "NONE"]
      [] OTHER                  -> e

\* The entries of due that arpTick gives up, freeing their queues.
Unanswered(due) ==
    {i \in due : arp[i].state = "INCOMPLETE" /\ arp[i].retransmitCount + 1 >= MaxRequests}

\* The buffers once the queues of slots are freed.
FreedBuffers(slots) ==
    [i \in ArpSlot |-> IF i \in slots THEN buffers[i] - Queued(arp[i]) ELSE buffers[i]]

HasTimeout(i) == arp[i].state \in {"INCOMPLETE", "REACHABLE", "DELAY", "PROBE"}

\* arpTick: one pass over the cache; the entries in due have timed out.
arpTick(due) ==
    /\ \A i \in due : HasTimeout(i)
    /\ arp' = [i \in ArpSlot |-> IF i \in due THEN Expire(arp[i]) ELSE arp[i]]
    /\ arpAge' = Stamped(due)
    /\ buffers' = FreedBuffers(Unanswered(due))

-----------------------------------------------------------------------------
\* The state is set before the queue is sent, which then finds nothing to free.
ReplyIncomplete_StateFirst(i, mac) ==
    /\ arp' = [arp EXCEPT ![i].macAddr = mac, ![i].state = "REACHABLE",
                          ![i].queue = << >>]
    /\ arpAge' = Stamped({i})
    /\ UNCHANGED buffers

\* The awaited reply: the queued packets are sent to mac and their buffers
\* freed (arpSendQueuedPackets) while the entry is still INCOMPLETE.
ReplyIncomplete(i, mac) ==
    /\ arp' = [arp EXCEPT ![i].macAddr = mac, ![i].state = "REACHABLE",
                          ![i].queue = << >>]
    /\ arpAge' = Stamped({i})
    /\ buffers' = FreedBuffers({i})

\* arpProcessReply: replies for DELAY and STALE entries are ignored, and one
\* that contradicts a REACHABLE entry leaves the old address in it, stale.
arpProcessReply(addr, mac) ==
    \E i \in arpFindEntry(addr) :
        \/ arp[i].state = "INCOMPLETE" /\ ReplyIncomplete(i, mac)
        \/ /\ arp[i].state = "REACHABLE" /\ mac # arp[i].macAddr
           /\ arp' = [arp EXCEPT ![i].state = "STALE"]
           /\ UNCHANGED <<arpAge, buffers>>
        \/ /\ arp[i].state = "PROBE"
           /\ arp' = [arp EXCEPT ![i].macAddr = mac, ![i].state = "REACHABLE"]
           /\ arpAge' = Stamped({i})
           /\ UNCHANGED buffers

\* arpFlushCache, called by ipv4LinkChangeEvent when the link goes up or down.
arpFlushCache ==
    /\ arp' = [i \in ArpSlot |-> [arp[i] EXCEPT !.state = "NONE", !.queue = << >>]]
    /\ buffers' = FreedBuffers(ArpSlot)
    /\ UNCHANGED arpAge

ArpNext ==
    \/ \E addr \in Addr, allocated \in BOOLEAN : ipv4SendPacket(addr, allocated)
    \/ \E due \in (SUBSET ArpSlot) \ {{}} : arpTick(due)
    \/ \E addr \in Addr, mac \in Mac : arpProcessReply(addr, mac)
    \/ arpFlushCache

ArpSpec == ArpInit /\ [][ArpNext]_arpVars

\* The net task calls arpTick periodically, so a timeout that has elapsed is
\* eventually acted upon.
ArpFairness ==
    \A i \in ArpSlot :
        WF_arpVars(HasTimeout(i) /\ \E due \in SUBSET ArpSlot : i \in due /\ arpTick(due))

-----------------------------------------------------------------------------
\* The entries are well formed; a queue never exceeds its array and the
\* retransmission counter stays within the limits arpTick compares it with.
ArpTypeOK ==
    /\ arp \in [ArpSlot -> [state : ArpStates, ipAddr : Addr \cup {NoAddr},
                            macAddr : Mac \cup {NoAddr},
                            retransmitCount : 0..(MaxRequests + MaxProbes),
                            queue : BoundedSeq(Addr, MaxPending)]]
    /\ arpAge \in [ArpSlot -> ArpSlot]
    /\ buffers \in [ArpSlot -> Nat]

\* Every buffer allocated for a packet that waits for an address is in the
\* queue of an unresolved entry, so a reply, a failed resolution, an eviction
\* or a link change will free it; the packets of a queue are addressed to the
\* neighbour of their entry, also when the slot was taken from another; and no
\* neighbour has two entries.
QueuedPacketsOwned ==
    /\ \A i \in ArpSlot :
          /\ buffers[i] = Len(arp[i].queue)
          /\ arp[i].queue # << >> => arp[i].state = "INCOMPLETE"
          /\ \A k \in DOMAIN arp[i].queue : arp[i].queue[k] = arp[i].ipAddr
    /\ \A i, j \in ArpSlot :
          arp[i].state # "NONE" /\ arp[j].state # "NONE" /\ arp[i].ipAddr = arp[j].ipAddr
             => i = j

Unconfirmed(addr) ==
    \E i \in arpFindEntry(addr) : arp[i].state \in {"INCOMPLETE", "DELAY", "PROBE"}

\* Address resolution ends: a neighbour whose first answer is awaited, or to
\* which packets are sent although its address may be outdated, is confirmed or
\* forgotten, however many packets keep being sent to it.
ResolutionEnds == \A addr \in Addr : Unconfirmed(addr) ~> ~ Unconfirmed(addr)

=============================================================================
