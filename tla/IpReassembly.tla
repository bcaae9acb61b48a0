---------------------------- MODULE IpReassembly ----------------------------
(***************************************************************************)
(* The reassembly of IPv4 datagrams (ipv4/ipv4_frag.c): a table of partial *)
(* datagrams, each with the list of its holes, which the code keeps inside *)
(* the gaps of the buffer itself.  Fragments arrive in any order, more     *)
(* than once, and cut in more than one way (a datagram may be fragmented   *)
(* differently on two paths), so they may overlap.                         *)
(*                                                                         *)
(* Offsets count units of 8 bytes.  The data of a unit is represented by   *)
(* its presence in the set received; headers are left out.  The list of    *)
(* holes is a set: a fragment is compared with every hole of the list.     *)
(***************************************************************************)
EXTENDS Naturals, FiniteSetsExt

CONSTANTS Datagram,      \* the datagrams that are sent to the interface
          Length,        \* the length of each, in units
          FragSlots,     \* IPV4_MAX_FRAG_DATAGRAMS
          MaxUnits,      \* IPV4_MAX_FRAG_DATAGRAM_SIZE
          Infinity,      \* IPV4_INFINITY
          NoDatagram     \* the identification of an unused descriptor

ASSUME FragAssumption == /\ FragSlots \in Nat \ {0} /\ MaxUnits \in Nat
                         /\ Length \in [Datagram -> Nat \ {0}]
                         /\ Infinity \in Nat
                         /\ \A d \in Datagram : Length[d] < Infinity
                         /\ NoDatagram \notin Datagram

VARIABLES frags,   \* ipv4Context.fragQueue
          handed   \* what has been given to ipv4ProcessDatagram

fragVars == <<frags, handed>>

FragSlot == 1..FragSlots

\* A descriptor without chunks.
Released == [id |-> NoDatagram, dataLen |-> 0, holes |-> {}, received |-> {}, last |-> FALSE]

\* What ipv4SearchFragQueue makes of a free descriptor: one hole of any length.
Fresh(d) == [Released EXCEPT !.id = d, !.holes = {[first |-> 0, last |-> Infinity]}]

FragInit == /\ frags = [i \in FragSlot |-> Released]
            /\ handed = {}

Units(first, last) == first..(last - 1)

\* The descriptor for d: the one that holds it, or the first free one; none
\* when the table is full.
ipv4SearchFragQueue(d) ==
    LET held == {i \in FragSlot : frags[i].id = d}
        free == {i \in FragSlot : frags[i].id = NoDatagram}
    IN  IF held # {} THEN held ELSE IF free # {} THEN {Min(free)} ELSE {}

\* What a fragment leaves of hole h: the parts before and behind it.  Nothing
\* can be missing behind the last fragment.
Remains(h, first, last, more) ==
    IF first < h.last /\ last > h.first
    THEN {r \in {[first |-> h.first, last |-> first]} : first > h.first} \cup
         {r \in {[first |-> last, last |-> h.last]} : last < h.last /\ more}
    ELSE {h}

\* The descriptor e with the data of a fragment.
Filled(e, first, last, more) ==
    [e EXCEPT !.dataLen = Max({@, last}),
              !.holes = UNION {Remains(h, first, last, more) : h \in @},
              !.received = @ \cup Units(first, last),
              !.last = @ \/ ~ more]

\* A datagram is taken to be complete when its last fragment is there.
Complete_AtLast(e) == e.last

\* Complete: the list of holes is empty.
Complete(e) == e.holes = {}

-----------------------------------------------------------------------------
\* ipv4ReassembleDatagram: units first to last - 1 of datagram d arrive.  The
\* datagram is dropped when it grows too long or beyond the memory at hand.
ipv4ReassembleDatagram(d, first, last, memory) ==
    \E i \in ipv4SearchFragQueue(d) :
        \E e \in {IF frags[i].id = d THEN frags[i] ELSE Fresh(d)} :
            \/ /\ last > e.dataLen /\ (last > MaxUnits \/ ~ memory)
               /\ frags' = [frags EXCEPT ![i] = Released]
               /\ UNCHANGED handed
            \/ /\ last <= e.dataLen \/ (last <= MaxUnits /\ memory)
               /\ \E f \in {Filled(e, first, last, last < Length[d])} :
                     \/ /\ ~ Complete(f)
                        /\ frags' = [frags EXCEPT ![i] = f]
                        /\ UNCHANGED handed
                     \/ /\ Complete(f)
                        /\ frags' = [frags EXCEPT ![i] = Released]
                        /\ handed' = handed \cup {[id |-> d, dataLen |-> f.dataLen,
                                                  received |-> f.received]}

\* The partial datagrams in due have been in the table for
\* IPV4_FRAG_TIME_TO_LIVE; the time stamp is that of their first fragment.
ipv4FragTick(due) ==
    /\ \A i \in due : frags[i].id # NoDatagram
    /\ frags' = [i \in FragSlot |-> IF i \in due THEN Released ELSE frags[i]]
    /\ UNCHANGED handed

\* Called by ipv4LinkChangeEvent.
ipv4FlushFragQueue ==
    /\ frags' = [i \in FragSlot |-> Released]
    /\ UNCHANGED handed

FragNext ==
    \/ \E d \in Datagram, memory \in BOOLEAN :
          \E first \in 0..(Length[d] - 1) : \E last \in (first + 1)..Length[d] :
              (first > 0 \/ last < Length[d]) /\ ipv4ReassembleDatagram(d, first, last, memory)
    \/ \E due \in (SUBSET FragSlot) \ {{}} : ipv4FragTick(due)
    \/ ipv4FlushFragQueue

FragSpec == FragInit /\ [][FragNext]_fragVars

\* The net task calls ipv4FragTick periodically.
FragFairness ==
    \A i \in FragSlot :
        WF_fragVars(/\ frags[i].id # NoDatagram
                    /\ \E due \in SUBSET FragSlot : i \in due /\ ipv4FragTick(due))

-----------------------------------------------------------------------------
\* The holes of a partial datagram lie apart and cover exactly what has not
\* arrived: no order, repetition or overlap of the fragments loses a hole or
\* leaves one where data is, and two descriptors never share a datagram.
HolesExact ==
    /\ \A i \in FragSlot : frags[i].id # NoDatagram =>
          LET e   == frags[i]
              end == IF e.last THEN Length[e.id] ELSE Infinity
          IN  /\ UNION {Units(h.first, h.last) : h \in e.holes} = Units(0, end) \ e.received
              /\ \A h \in e.holes : h.first < h.last
              /\ \A g, h \in e.holes : g # h => g.last < h.first \/ h.last < g.first
    /\ \A i, j \in FragSlot : frags[i].id = frags[j].id /\ i # j => frags[i].id = NoDatagram

\* A datagram is handed to the upper layer only when all of it is there, with
\* its own length.
HandedWhole == \A h \in handed : /\ h.received = Units(0, Length[h.id])
                                 /\ h.dataLen = Length[h.id]

\* No partial datagram occupies its descriptor and buffers for ever: it is
\* completed or dropped, also one begun by a late duplicate of a fragment.
ReassemblyEnds ==
    \A i \in FragSlot : frags[i].id # NoDatagram ~> frags[i].id = NoDatagram

=============================================================================
