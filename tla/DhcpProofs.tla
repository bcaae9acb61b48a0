----------------------------- MODULE DhcpProofs -----------------------------
(***************************************************************************)
(* Proofs about the DHCP server and the DHCP client, for every range of    *)
(* addresses, number of bindings, clients, servers and retransmissions.    *)
(***************************************************************************)
EXTENDS DhcpClient, DhcpServer, NumberLemmas, TLAPS

-----------------------------------------------------------------------------
(* The server *)

\* A binding is clear, or belongs to a client and has an address.
BindingOK(e) ==
    \/ e = Unbound
    \/ e \in [macAddr : Hw, ipAddr : Nat \ {0}, validLease : BOOLEAN]

Bindings == [BindingSlot -> {e \in [macAddr : Hw \cup {NoHw}, ipAddr : Nat,
                                    validLease : BOOLEAN] : BindingOK(e)}]

Remembered(b, h) ==
    \A c \in Hw : h[c] # 0 =>
        \E i \in BindingSlot : b[i] = [macAddr |-> c, ipAddr |-> h[c], validLease |-> TRUE]

Exclusive(b) ==
    \A i, j \in BindingSlot : i # j /\ b[i].macAddr # NoHw =>
        b[i].macAddr # b[j].macAddr /\ b[i].ipAddr # b[j].ipAddr

\* LeasesRemembered with what makes it inductive.  The age list names only
\* bindings, so that the one dhcpServerCreateBinding replaces exists.
LeaseInvariant ==
    /\ binding \in Bindings
    /\ bindingAge \in [BindingSlot -> BindingSlot]
    /\ nextIpAddr \in Nat \ {0}
    /\ held \in [Hw -> Nat]
    /\ Remembered(binding, held)
    /\ Exclusive(binding)

\* The binding dhcpServerCreateBinding takes exists and has no valid lease.
LEMMA CreateTakesIdle ==
    ASSUME LeaseInvariant, NEW i \in dhcpServerCreateBinding
    PROVE  i \in BindingSlot /\ ~ binding[i].validLease
  <1> DEFINE free == {k \in BindingSlot : binding[k].macAddr = NoHw}
             idle == {k \in BindingSlot : ~ binding[bindingAge[k]].validLease}
  <1>0. BindingSlot \in SUBSET Nat
    BY DhcpServerAssumption DEF BindingSlot
  <1>1. CASE free # {}
    <2>1. i = Min(free)
      BY <1>1 DEF dhcpServerCreateBinding
    <2>2. i \in free
      BY <1>0, <1>1, <2>1, MinIsMember
    <2> QED
      BY <2>2, DhcpServerAssumption DEF LeaseInvariant, Bindings, BindingOK, Unbound
  <1>2. CASE free = {} /\ idle # {}
    <2>1. i = bindingAge[Min(idle)]
      BY <1>2 DEF dhcpServerCreateBinding
    <2>2. Min(idle) \in idle
      BY <1>0, <1>2, MinIsMember
    <2> QED
      BY <2>1, <2>2 DEF LeaseInvariant, Bindings
  <1>3. CASE free = {} /\ idle = {}
    BY <1>3 DEF dhcpServerCreateBinding
  <1> QED
    BY <1>1, <1>2, <1>3

\* A time stamp moves a binding to the end of the age list.
LEMMA StampedType ==
    ASSUME LeaseInvariant, NEW i \in BindingSlot
    PROVE  BindingStamped(i) \in [BindingSlot -> BindingSlot]
  <1> DEFINE place == CHOOSE k \in BindingSlot : bindingAge[k] = i
  <1>1. \A k \in BindingSlot : k < MaxClients => k + 1 \in BindingSlot
    BY DhcpServerAssumption DEF BindingSlot
  <1>2. \A k \in BindingSlot : bindingAge[k] \in BindingSlot
    BY DEF LeaseInvariant, Bindings
  <1> QED
    BY <1>1, <1>2 DEF BindingStamped

\* Addresses advance within the range.
LEMMA AdvancedType ==
    ASSUME nextIpAddr \in Nat \ {0}, NEW n \in Nat
    PROVE  Advanced(n) \in Nat \ {0}
  <1>1. nextIpAddr - 1 + n \in Nat
    OBVIOUS
  <1>2. (nextIpAddr - 1 + n) % RangeMax \in Nat
    BY <1>1, DhcpServerAssumption
  <1> QED
    BY <1>2 DEF Advanced

\* A binding is written for client c: the table stays exclusive when no other
\* binding is the client's or has the address, and no lease is forgotten when
\* the binding was not another client's lease.
LEMMA BoundKeeps ==
    ASSUME LeaseInvariant, NEW c \in Hw, NEW i \in BindingSlot, NEW addr \in Nat \ {0},
           NEW valid \in BOOLEAN, NEW h \in [Hw -> Nat],
           \A d \in Hw \ {c} : h[d] = held[d],
           h[c] # 0 => h[c] = addr /\ valid = TRUE,
           binding[i].macAddr = c \/ ~ binding[i].validLease,
           \A j \in BindingSlot \ {i} : binding[j].macAddr # c /\ binding[j].ipAddr # addr,
           Bound(i, c, addr, valid)
    PROVE  /\ binding' \in Bindings
           /\ bindingAge' \in [BindingSlot -> BindingSlot]
           /\ Remembered(binding', h)
           /\ Exclusive(binding')
  <1> DEFINE e == [macAddr |-> c, ipAddr |-> addr, validLease |-> valid]
  <1>1. binding' = [binding EXCEPT ![i] = e]
    BY DEF Bound
  <1>2. /\ \A j \in BindingSlot \ {i} : binding'[j] = binding[j]
        /\ binding'[i] = e
    BY <1>1 DEF LeaseInvariant, Bindings
  <1>3. e \in [macAddr : Hw, ipAddr : Nat \ {0}, validLease : BOOLEAN]
    OBVIOUS
  <1>4. binding' \in Bindings
    <2>1. /\ BindingOK(e)
          /\ e \in [macAddr : Hw \cup {NoHw}, ipAddr : Nat, validLease : BOOLEAN]
      BY <1>3 DEF BindingOK
    <2> HIDE DEF e
    <2> QED
      BY <1>1, <2>1 DEF LeaseInvariant, Bindings
  <1>5. bindingAge' \in [BindingSlot -> BindingSlot]
    BY StampedType DEF Bound
  <1>6. Remembered(binding', h)
    <2> SUFFICES ASSUME NEW d \in Hw, h[d] # 0
                 PROVE  \E k \in BindingSlot :
                          binding'[k] = [macAddr |-> d, ipAddr |-> h[d], validLease |-> TRUE]
      BY DEF Remembered
    <2>1. CASE d = c
      BY <1>2, <2>1
    <2>2. CASE d # c
      <3>1. PICK k \in BindingSlot :
               binding[k] = [macAddr |-> d, ipAddr |-> h[d], validLease |-> TRUE]
        BY <2>2 DEF LeaseInvariant, Bindings, Remembered
      <3>2. k # i
        BY <2>2, <3>1
      <3> QED
        BY <1>2, <3>1, <3>2
    <2> QED
      BY <2>1, <2>2
  <1>7. Exclusive(binding')
    BY <1>2, <1>3 DEF Exclusive, LeaseInvariant
  <1> QED
    BY <1>4, <1>5, <1>6, <1>7

\* When address addr is not taken in a table that differs from the bindings in
\* at most slot i, no other binding has it.
LEMMA FreeElsewhere ==
    ASSUME LeaseInvariant, NEW i \in BindingSlot, NEW b, NEW addr \in Nat \ {0},
           \A j \in BindingSlot \ {i} : b[j] = binding[j],
           ~ Taken(b, addr)
    PROVE  \A j \in BindingSlot \ {i} : binding[j].ipAddr # addr
  <1> SUFFICES ASSUME NEW j \in BindingSlot \ {i}, binding[j].ipAddr = addr PROVE FALSE
    OBVIOUS
  <1>1. binding[j].macAddr = NoHw
    BY DEF Taken
  <1>2. binding[j] = Unbound
    BY <1>1, DhcpServerAssumption DEF LeaseInvariant, Bindings, BindingOK
  <1> QED
    BY <1>2 DEF Unbound

\* A client has one binding.
LEMMA OneBinding ==
    ASSUME LeaseInvariant, NEW c \in Hw, NEW i \in FindByMac(c)
    PROVE  \A j \in BindingSlot \ {i} : binding[j].macAddr # c
  BY DhcpServerAssumption DEF LeaseInvariant, Bindings, Exclusive, FindByMac

\* DHCPDISCOVER of a client with a binding.
LEMMA DiscoverBoundStep ==
    ASSUME LeaseInvariant, NEW c \in Hw, NEW wanted \in Nat, NEW i \in FindByMac(c),
           held' = [held EXCEPT ![c] = 0], DiscoverBound(i, c, wanted)
    PROVE  LeaseInvariant'
  <1>1. /\ held' \in [Hw -> Nat]
        /\ held'[c] = 0
        /\ \A d \in Hw \ {c} : held'[d] = held[d]
    BY DEF LeaseInvariant, Bindings
  <1>2. i \in BindingSlot /\ binding[i].macAddr = c /\ binding[i].validLease \in BOOLEAN
    BY DEF FindByMac, LeaseInvariant, Bindings
  <1>3. nextIpAddr' \in Nat \ {0}
    BY DEF LeaseInvariant, Bindings, DiscoverBound
  <1>4. CASE wanted # binding[i].ipAddr /\ wanted \in IpRange /\ ~ Taken(binding, wanted)
    <2>1. Bound(i, c, wanted, TRUE) \/ Bound(i, c, wanted, FALSE)
      BY <1>2, <1>4 DEF DiscoverBound
    <2>2. wanted \in Nat \ {0}
      BY <1>4, DhcpServerAssumption DEF IpRange
    <2>3. \A j \in BindingSlot \ {i} : binding[j].macAddr # c /\ binding[j].ipAddr # wanted
      BY <1>2, <1>4, <2>2, FreeElsewhere, OneBinding
    <2>4. /\ binding' \in Bindings
          /\ bindingAge' \in [BindingSlot -> BindingSlot]
          /\ Remembered(binding', held')
          /\ Exclusive(binding')
      <3>1. CASE Bound(i, c, wanted, TRUE)
        BY <1>1, <1>2, <2>2, <2>3, <3>1, BoundKeeps
      <3>2. CASE Bound(i, c, wanted, FALSE)
        BY <1>1, <1>2, <2>2, <2>3, <3>2, BoundKeeps
      <3> QED
        BY <2>1, <3>1, <3>2
    <2> QED
      BY <1>1, <1>3, <2>4 DEF LeaseInvariant, Bindings
  <1>5. CASE UNCHANGED <<binding, bindingAge>>
    BY <1>1, <1>3, <1>5 DEF LeaseInvariant, Bindings, Remembered
  <1> QED
    BY <1>4, <1>5 DEF DiscoverBound

\* DHCPDISCOVER of a client without a binding.
LEMMA DiscoverNewStep ==
    ASSUME LeaseInvariant, NEW c \in Hw, NEW wanted \in Nat, FindByMac(c) = {},
           NEW i \in dhcpServerCreateBinding,
           held' = [held EXCEPT ![c] = 0], DiscoverNew(i, c, wanted)
    PROVE  LeaseInvariant'
  <1> DEFINE b == [binding EXCEPT ![i] = Unbound]
  <1>1. /\ held' \in [Hw -> Nat]
        /\ held'[c] = 0
        /\ \A d \in Hw \ {c} : held'[d] = held[d]
    BY DEF LeaseInvariant, Bindings
  <1>2. i \in BindingSlot /\ ~ binding[i].validLease
    BY CreateTakesIdle
  <1>3. \A j \in BindingSlot \ {i} : b[j] = binding[j]
    BY DEF LeaseInvariant, Bindings
  <1>4. \A j \in BindingSlot : binding[j].macAddr # c
    BY DEF FindByMac
  <1>5. ASSUME NEW addr \in Nat \ {0}, ~ Taken(b, addr), Bound(i, c, addr, FALSE),
               nextIpAddr' \in Nat \ {0}
        PROVE  LeaseInvariant'
    <2>1. \A j \in BindingSlot \ {i} : binding[j].macAddr # c /\ binding[j].ipAddr # addr
      BY <1>2, <1>3, <1>4, <1>5, FreeElsewhere
    <2>2. /\ binding' \in Bindings
          /\ bindingAge' \in [BindingSlot -> BindingSlot]
          /\ Remembered(binding', held')
          /\ Exclusive(binding')
      BY <1>1, <1>2, <1>5, <2>1, BoundKeeps
    <2> QED
      BY <1>1, <1>5, <2>2 DEF LeaseInvariant, Bindings
  <1>6. CASE wanted \in IpRange /\ ~ Taken(b, wanted) /\ Bound(i, c, wanted, FALSE) /\ UNCHANGED nextIpAddr
    <2>1. wanted \in Nat \ {0} /\ nextIpAddr' \in Nat \ {0}
      BY <1>6, DhcpServerAssumption DEF IpRange, LeaseInvariant, Bindings
    <2> QED
      BY <1>5, <1>6, <2>1
  <1>7. CASE /\ NextFree(b) # {}
             /\ Bound(i, c, Advanced(Min(NextFree(b))), FALSE)
             /\ nextIpAddr' = Advanced(Min(NextFree(b)) + 1)
    <2> DEFINE n == Min(NextFree(b))
    <2>1. NextFree(b) \in SUBSET Nat
      BY DEF NextFree
    <2>2. n \in NextFree(b)
      BY <1>7, <2>1, MinIsMember
    <2> HIDE DEF n
    <2>3. n \in Nat /\ n + 1 \in Nat
      BY <2>1, <2>2
    <2>4. nextIpAddr \in Nat \ {0}
      BY DEF LeaseInvariant, Bindings
    <2>5. Advanced(n) \in Nat \ {0} /\ Advanced(n + 1) \in Nat \ {0}
      BY <2>3, <2>4, AdvancedType
    <2>6. ~ Taken(b, Advanced(n))
      BY <2>2 DEF NextFree
    <2> QED
      BY <1>5, <1>7, <2>5, <2>6 DEF n
  <1>8. CASE /\ binding' = b
             /\ nextIpAddr' = Advanced(MaxClients)
             /\ UNCHANGED bindingAge
    <2>1. nextIpAddr' \in Nat \ {0}
      BY <1>8, AdvancedType, DhcpServerAssumption DEF LeaseInvariant, Bindings
    <2>2. binding'[i] = Unbound /\ \A j \in BindingSlot \ {i} : binding'[j] = binding[j]
      BY <1>2, <1>3, <1>8 DEF LeaseInvariant, Bindings
    <2>3. /\ BindingOK(Unbound)
          /\ Unbound \in [macAddr : Hw \cup {NoHw}, ipAddr : Nat, validLease : BOOLEAN]
      BY DEF BindingOK, Unbound
    <2>4. binding' \in Bindings
      BY <1>8, <2>3 DEF LeaseInvariant, Bindings
    <2>5. Remembered(binding', held')
      BY <1>1, <1>2, <2>2 DEF LeaseInvariant, Bindings, Remembered
    <2>6. Exclusive(binding')
      <3> SUFFICES ASSUME NEW j \in BindingSlot, NEW k \in BindingSlot, j # k,
                          binding'[j].macAddr # NoHw
                   PROVE  binding'[j].macAddr # binding'[k].macAddr /\ binding'[j].ipAddr # binding'[k].ipAddr
        BY DEF Exclusive
      <3>1. j # i /\ binding[j] # Unbound
        BY <2>2 DEF Unbound
      <3>2. binding[j].ipAddr # 0
        BY <3>1 DEF LeaseInvariant, Bindings, BindingOK
      <3>3. CASE k = i
        BY <2>2, <3>1, <3>2, <3>3 DEF Unbound
      <3>4. CASE k # i
        BY <2>2, <3>1, <3>4 DEF LeaseInvariant, Bindings, Exclusive
      <3> QED
        BY <3>3, <3>4
    <2> QED
      BY <1>1, <1>8, <2>1, <2>4, <2>5, <2>6 DEF LeaseInvariant, Bindings
  <1> QED
    BY <1>6, <1>7, <1>8 DEF DiscoverNew

\* DHCPREQUEST: the address is leased, or refused.
LEMMA RequestStep ==
    ASSUME LeaseInvariant, NEW c \in Hw, NEW addr \in Nat, NEW heard \in BOOLEAN,
           dhcpServerParseRequest(c, addr, heard)
    PROVE  LeaseInvariant'
  <1>1. addr \in Nat \ {0} /\ held[c] \in {0, addr} /\ nextIpAddr' \in Nat \ {0}
    BY DEF dhcpServerParseRequest, LeaseInvariant
  <1>2. ASSUME NEW i \in Grantable(c, addr), Bound(i, c, addr, TRUE),
               held' = [held EXCEPT ![c] = IF heard THEN addr ELSE @]
        PROVE  LeaseInvariant'
    <2>1. /\ held' \in [Hw -> Nat]
          /\ held'[c] # 0 => held'[c] = addr
          /\ \A d \in Hw \ {c} : held'[d] = held[d]
      BY <1>1, <1>2 DEF LeaseInvariant
    <2>2. /\ i \in BindingSlot
          /\ binding[i].macAddr = c \/ ~ binding[i].validLease
          /\ \A j \in BindingSlot \ {i} : binding[j].macAddr # c /\ binding[j].ipAddr # addr
      <3>1. CASE FindByMac(c) # {}
        <4>1. i \in FindByMac(c) /\ binding[i].ipAddr = addr
          BY <1>2, <3>1 DEF Grantable
        <4>2. i \in BindingSlot /\ binding[i].macAddr = c
          BY <4>1 DEF FindByMac
        <4> QED
          BY <4>1, <4>2, DhcpServerAssumption DEF LeaseInvariant, Exclusive
      <3>2. CASE FindByMac(c) = {}
        <4>1. i \in dhcpServerCreateBinding /\ ~ Taken(binding, addr)
          BY <1>2, <3>2 DEF Grantable
        <4>2. i \in BindingSlot /\ ~ binding[i].validLease
          BY <4>1, CreateTakesIdle
        <4> QED
          BY <1>1, <3>2, <4>1, <4>2, FreeElsewhere DEF FindByMac
      <3> QED
        BY <3>1, <3>2
    <2>3. /\ binding' \in Bindings
          /\ bindingAge' \in [BindingSlot -> BindingSlot]
          /\ Remembered(binding', held')
          /\ Exclusive(binding')
      BY <1>1, <1>2, <2>1, <2>2, BoundKeeps
    <2> QED
      BY <1>1, <2>1, <2>3 DEF LeaseInvariant
  <1>3. CASE /\ held' = [held EXCEPT ![c] = IF heard THEN 0 ELSE @]
             /\ UNCHANGED <<binding, bindingAge>>
    <2>1. /\ held' \in [Hw -> Nat]
          /\ \A d \in Hw : held'[d] # 0 => held'[d] = held[d]
      BY <1>3 DEF LeaseInvariant
    <2> QED
      BY <1>1, <1>3, <2>1 DEF LeaseInvariant, Remembered
  <1> QED
    BY <1>2, <1>3 DEF dhcpServerParseRequest

\* Bindings are cleared or lose their leases: nothing is forgotten that a
\* client still holds.
LEMMA GivenUp ==
    ASSUME LeaseInvariant, binding' \in Bindings, held' \in [Hw -> Nat],
           UNCHANGED <<bindingAge, nextIpAddr>>,
           \A i \in BindingSlot :
              \/ binding'[i] = Unbound
              \/ /\ binding'[i].macAddr = binding[i].macAddr
                 /\ binding'[i].ipAddr = binding[i].ipAddr,
           \A d \in Hw : held'[d] # 0 =>
              /\ held'[d] = held[d]
              /\ \A i \in BindingSlot : binding[i].macAddr = d => binding'[i] = binding[i]
    PROVE  LeaseInvariant'
  <1>1. Remembered(binding', held')
    <2> SUFFICES ASSUME NEW d \in Hw, held'[d] # 0
                 PROVE  \E k \in BindingSlot :
                          binding'[k] = [macAddr |-> d, ipAddr |-> held'[d], validLease |-> TRUE]
      BY DEF Remembered
    <2>1. held'[d] = held[d]
      OBVIOUS
    <2>2. PICK k \in BindingSlot :
             binding[k] = [macAddr |-> d, ipAddr |-> held[d], validLease |-> TRUE]
      BY <2>1 DEF LeaseInvariant, Remembered
    <2> QED
      BY <2>1, <2>2
  <1>2. Exclusive(binding')
    <2> SUFFICES ASSUME NEW j \in BindingSlot, NEW k \in BindingSlot, j # k,
                        binding'[j].macAddr # NoHw
                 PROVE  binding'[j].macAddr # binding'[k].macAddr /\ binding'[j].ipAddr # binding'[k].ipAddr
      BY DEF Exclusive
    <2>1. binding'[j].ipAddr # 0
      BY DEF Bindings, BindingOK, Unbound
    <2>2. /\ binding'[j].macAddr = binding[j].macAddr
          /\ binding'[j].ipAddr = binding[j].ipAddr
      BY DEF Unbound
    <2>3. CASE binding'[k] = Unbound
      BY <2>1, <2>3 DEF Unbound
    <2>4. CASE binding'[k] # Unbound
      BY <2>2, <2>4 DEF LeaseInvariant, Exclusive
    <2> QED
      BY <2>3, <2>4
  <1> QED
    BY <1>1, <1>2 DEF LeaseInvariant

\* DHCPDECLINE and DHCPRELEASE.
LEMMA DeclineStep ==
    ASSUME LeaseInvariant, NEW c \in Hw, dhcpServerParseDecline(c)
    PROVE  LeaseInvariant'
  <1>1. /\ BindingOK(Unbound)
        /\ Unbound \in [macAddr : Hw \cup {NoHw}, ipAddr : Nat, validLease : BOOLEAN]
    BY DEF BindingOK, Unbound
  <1>2. binding' \in Bindings
    BY <1>1 DEF LeaseInvariant, Bindings, dhcpServerParseDecline
  <1>3. \A i \in BindingSlot :
           \/ binding'[i] = Unbound /\ binding[i].macAddr = c
           \/ binding'[i] = binding[i]
    BY DEF dhcpServerParseDecline
  <1>4. /\ held' \in [Hw -> Nat]
        /\ held'[c] = 0
        /\ \A d \in Hw \ {c} : held'[d] = held[d]
    BY DEF LeaseInvariant, dhcpServerParseDecline
  <1>5. UNCHANGED <<bindingAge, nextIpAddr>>
    BY DEF dhcpServerParseDecline
  <1>6. \A d \in Hw : held'[d] # 0 =>
           /\ held'[d] = held[d]
           /\ \A i \in BindingSlot : binding[i].macAddr = d => binding'[i] = binding[i]
    BY <1>3, <1>4
  <1> QED
    BY <1>2, <1>3, <1>4, <1>5, <1>6, GivenUp

LEMMA ReleaseStep ==
    ASSUME LeaseInvariant, NEW c \in Hw, NEW heard \in BOOLEAN, dhcpServerParseRelease(c, heard)
    PROVE  LeaseInvariant'
  <1>1. \A i \in BindingSlot :
           \/ binding'[i] = [binding[i] EXCEPT !.validLease = FALSE] /\ binding[i].macAddr = c
           \/ binding'[i] = binding[i]
    BY DEF dhcpServerParseRelease
  <1>2. binding' \in Bindings
    <2>1. ASSUME NEW i \in BindingSlot
          PROVE  /\ binding'[i] \in [macAddr : Hw \cup {NoHw}, ipAddr : Nat, validLease : BOOLEAN]
                 /\ BindingOK(binding'[i])
      <3> DEFINE e == binding[i]
      <3>1. /\ e \in [macAddr : Hw \cup {NoHw}, ipAddr : Nat, validLease : BOOLEAN]
            /\ BindingOK(e)
        BY DEF LeaseInvariant, Bindings
      <3>2. CASE binding'[i] = [e EXCEPT !.validLease = FALSE] /\ e.macAddr = c
        <4>1. e \in [macAddr : Hw, ipAddr : Nat \ {0}, validLease : BOOLEAN]
          BY <3>1, <3>2, DhcpServerAssumption DEF BindingOK, Unbound
        <4>2. [e EXCEPT !.validLease = FALSE] \in
                  [macAddr : Hw, ipAddr : Nat \ {0}, validLease : BOOLEAN]
          BY <4>1
        <4> QED
          BY <3>1, <3>2, <4>2 DEF BindingOK
      <3> QED
        BY <1>1, <3>1, <3>2
    <2>2. binding' = [i \in BindingSlot |-> binding'[i]]
      BY DEF dhcpServerParseRelease
    <2> QED
      BY <2>1, <2>2 DEF Bindings
  <1>3. \A i \in BindingSlot : /\ binding'[i].macAddr = binding[i].macAddr
                               /\ binding'[i].ipAddr = binding[i].ipAddr
    BY <1>1 DEF LeaseInvariant, Bindings
  <1>4. /\ held' \in [Hw -> Nat]
        /\ held'[c] = 0
        /\ \A d \in Hw \ {c} : held'[d] = held[d]
    BY DEF LeaseInvariant, dhcpServerParseRelease
  <1>5. UNCHANGED <<bindingAge, nextIpAddr>>
    BY DEF dhcpServerParseRelease
  <1>6. \A d \in Hw : held'[d] # 0 =>
           /\ held'[d] = held[d]
           /\ \A i \in BindingSlot : binding[i].macAddr = d => binding'[i] = binding[i]
    BY <1>1, <1>4
  <1> QED
    BY <1>2, <1>3, <1>4, <1>5, <1>6, GivenUp

\* The end of a lease, which the client knows of.
LEMMA LeaseTickStep ==
    ASSUME LeaseInvariant, NEW k \in BindingSlot, dhcpServerTick(k)
    PROVE  LeaseInvariant'
  <1> DEFINE c == binding[k].macAddr
  <1>1. binding' = [binding EXCEPT ![k] = [binding[k] EXCEPT !.validLease = FALSE]]
    BY DEF dhcpServerTick
  <1>2. /\ \A i \in BindingSlot \ {k} : binding'[i] = binding[i]
        /\ binding'[k] = [binding[k] EXCEPT !.validLease = FALSE]
    BY <1>1 DEF LeaseInvariant, Bindings
  <1>3. binding[k] \in [macAddr : Hw, ipAddr : Nat \ {0}, validLease : BOOLEAN]
    <2>1. binding[k].validLease /\ BindingOK(binding[k])
      BY DEF LeaseInvariant, Bindings, dhcpServerTick
    <2>2. binding[k] # Unbound
      BY <2>1 DEF Unbound
    <2> QED
      BY <2>1, <2>2 DEF BindingOK
  <1>4. binding' \in Bindings
    <2>1. /\ binding'[k] \in [macAddr : Hw \cup {NoHw}, ipAddr : Nat, validLease : BOOLEAN]
          /\ BindingOK(binding'[k])
      BY <1>2, <1>3 DEF BindingOK
    <2> QED
      BY <1>1, <1>2, <2>1 DEF LeaseInvariant, Bindings
  <1>5. \A i \in BindingSlot : /\ binding'[i].macAddr = binding[i].macAddr
                               /\ binding'[i].ipAddr = binding[i].ipAddr
    BY <1>2, <1>3
  <1>6. /\ held' \in [Hw -> Nat]
        /\ c \in Hw /\ held'[c] = 0
        /\ \A d \in Hw \ {c} : held'[d] = held[d]
    BY <1>3 DEF LeaseInvariant, dhcpServerTick
  <1>7. UNCHANGED <<bindingAge, nextIpAddr>>
    BY DEF dhcpServerTick
  <1>8. \A d \in Hw : held'[d] # 0 =>
           /\ held'[d] = held[d]
           /\ \A i \in BindingSlot : binding[i].macAddr = d => binding'[i] = binding[i]
    BY <1>2, <1>6
  <1> QED
    BY <1>4, <1>5, <1>6, <1>7, <1>8, GivenUp

\* Every message and the tick keep the invariant.
LEMMA LeaseStep == LeaseInvariant /\ [LeaseNext]_leaseVars => LeaseInvariant'
  <1> SUFFICES ASSUME LeaseInvariant, [LeaseNext]_leaseVars PROVE LeaseInvariant'
    OBVIOUS
  <1>0. Wanted \subseteq Nat
    BY DhcpServerAssumption DEF Wanted
  <1>1. ASSUME NEW c \in Hw, NEW wanted \in Wanted, dhcpServerParseDiscover(c, wanted)
        PROVE  LeaseInvariant'
    <2>1. held' = [held EXCEPT ![c] = 0] /\ wanted \in Nat
      BY <1>0, <1>1 DEF dhcpServerParseDiscover
    <2>2. CASE \E i \in FindByMac(c) : DiscoverBound(i, c, wanted)
      BY <2>1, <2>2, DiscoverBoundStep
    <2>3. CASE FindByMac(c) = {} /\ \E i \in dhcpServerCreateBinding : DiscoverNew(i, c, wanted)
      BY <2>1, <2>3, DiscoverNewStep
    <2>4. CASE UNCHANGED <<binding, bindingAge, nextIpAddr>>
      <3>1. /\ held' \in [Hw -> Nat]
            /\ \A d \in Hw : held'[d] # 0 => held'[d] = held[d]
        BY <2>1 DEF LeaseInvariant
      <3> QED
        BY <2>4, <3>1 DEF LeaseInvariant, Remembered
    <2> QED
      BY <1>1, <2>2, <2>3, <2>4 DEF dhcpServerParseDiscover
  <1>2. CASE UNCHANGED leaseVars
    BY <1>2 DEF leaseVars, LeaseInvariant
  <1> QED
    BY <1>0, <1>1, <1>2, RequestStep, DeclineStep, ReleaseStep, LeaseTickStep DEF LeaseNext

\* LeasesRemembered for every range of addresses, number of bindings and
\* number of clients: no order of messages, lost replies and expiries makes
\* the server forget a lease or give one address to two clients.
THEOREM LeasesAlwaysRemembered == LeaseSpec => []LeasesRemembered
  <1>1. LeaseInit => LeaseInvariant
    <2> SUFFICES ASSUME LeaseInit PROVE LeaseInvariant
      OBVIOUS
    <2>1. binding \in Bindings
      BY DEF LeaseInit, Bindings, BindingOK, Unbound
    <2>2. Exclusive(binding)
      BY DEF LeaseInit, Exclusive, Unbound
    <2> QED
      BY <2>1, <2>2 DEF LeaseInit, LeaseInvariant, Remembered
  <1>2. LeaseInvariant => LeasesRemembered
    BY DEF LeaseInvariant, LeasesRemembered, Remembered, Exclusive
  <1> QED
    BY <1>1, <1>2, LeaseStep, PTL DEF LeaseSpec

-----------------------------------------------------------------------------
(* The client *)

\* The states in which replies are acted upon.
Waits == {"SELECTING", "REQUESTING", "REBOOTING", "RENEWING", "REBINDING"}

ClientContext == [state : DhcpStates, running : BOOLEAN, xid : Xid,
                  retransmitCount : 0..RequestMaxRc, server : Server \cup {Unset},
                  requested : Address \cup {Unset}]

Requests == [xid : Xid, from : DhcpStates, server : Server \cup {Unset},
             addr : Address \cup {Unset}]

\* An address being probed is the one the server has confirmed.
ProbesConfirmed == client.state = "PROBING" => address.addr = client.requested

\* Once the client has sent a request of its round, whatever is on the wire
\* under its transaction identifier belongs to that round.
WireInRound ==
    client.state \in Waits /\ client.retransmitCount > 0 =>
        \A q \in requests : q.xid = client.xid => q.from = client.state

\* Why the two properties of the client hold.
DhcpInvariant ==
    /\ DhcpTypeOK
    /\ requests \subseteq Requests
    /\ UsedOnlyWhileLeased
    /\ ProbesConfirmed
    /\ WireInRound
    /\ inTime = TRUE

\* dhcpClientChangeState starts a round: the counter is zero.
LEMMA ChangedToFields ==
    ASSUME NEW c \in ClientContext, NEW state \in DhcpStates
    PROVE  /\ ChangedTo(c, state) \in ClientContext
           /\ ChangedTo(c, state).state = state
           /\ ChangedTo(c, state).retransmitCount = 0
           /\ ChangedTo(c, state).running = c.running
           /\ ChangedTo(c, state).requested = c.requested
  <1>1. 0 \in 0..RequestMaxRc
    BY DhcpAssumption
  <1> QED
    BY <1>1 DEF ChangedTo, ClientContext

\* Counting a request keeps the counter within its bound.
LEMMA CountedFields ==
    ASSUME NEW c \in ClientContext
    PROVE  /\ Counted(c) \in ClientContext
           /\ Counted(c).state = c.state
           /\ Counted(c).xid = c.xid
           /\ Counted(c).running = c.running
           /\ Counted(c).requested = c.requested
  <1> USE DEF ClientContext
  <1> DEFINE S == {c.retransmitCount + 1, RequestMaxRc}
  <1>1. S \in SUBSET Nat /\ S # {}
    BY DhcpAssumption
  <1>2. Min(S) \in Nat /\ Min(S) =< RequestMaxRc
    BY <1>1, MinIsMember
  <1>3. Min(S) \in 0..RequestMaxRc
    BY <1>2, DhcpAssumption
  <1> HIDE DEF S
  <1>4. Counted(c) = [c EXCEPT !.retransmitCount = Min(S)]
    BY DEF Counted, S
  <1> QED
    BY <1>3, <1>4

\* The identifier of a new round differs from the last one.
LEMMA NextXid ==
    ASSUME NEW x \in Xid
    PROVE  (x + 1) % XidCount \in Xid /\ (x + 1) % XidCount # x
  <1>1. x \in Nat /\ x < XidCount /\ XidCount \in Nat /\ XidCount > 1
    BY DhcpAssumption DEF Xid
  <1>2. CASE x + 1 < XidCount
    <2>1. (x + 1) % XidCount = x + 1
      BY <1>1, <1>2
    <2> QED
      BY <1>1, <1>2, <2>1 DEF Xid
  <1>3. CASE x + 1 = XidCount
    <2>1. (x + 1) % XidCount = 0
      BY <1>1, <1>3
    <2> QED
      BY <1>1, <1>3, <2>1 DEF Xid
  <1> QED
    BY <1>1, <1>2, <1>3

\* A request is sent, or its transmission fails: the round begins with an
\* identifier nothing on the wire has, or goes on with the same one.
LEMMA SendsStep ==
    ASSUME DhcpInvariant, NEW works \in BOOLEAN, Sends(works), client.state \in Waits
    PROVE  DhcpInvariant'
  <1> USE DEF ClientContext, Requests
  <1> DEFINE c == Round(client)
             old == {q \in requests : c.xid # client.xid /\ q.xid = c.xid}
  <1>1. client \in ClientContext
    BY DEF DhcpInvariant, DhcpTypeOK
  <1>2. /\ c \in ClientContext
        /\ c.state = client.state /\ c.running = client.running
        /\ c.requested = client.requested
        /\ client.retransmitCount = 0 => c.xid # client.xid
        /\ client.retransmitCount > 0 => c.xid = client.xid
    <2>1. CASE client.retransmitCount = 0
      <3>1. c = [client EXCEPT !.xid = (@ + 1) % XidCount]
        BY <2>1 DEF Round
      <3>2. client.xid \in Xid
        BY <1>1
      <3> QED
        BY <1>1, <2>1, <3>1, <3>2, NextXid
    <2>2. CASE client.retransmitCount # 0
      BY <1>1, <2>2 DEF Round
    <2> QED
      BY <2>1, <2>2
  <1>3. /\ client' = Counted(c)
        /\ requests' = (requests \ old) \cup {RequestOf(c)} \/ requests' = requests \ old
        /\ UNCHANGED <<address, linkUp, phase, inTime>>
    BY DEF Sends
  <1> HIDE DEF c
  <1>4. /\ client' \in ClientContext /\ client'.state = client.state /\ client'.xid = c.xid
        /\ client'.running = client.running /\ client'.requested = client.requested
    BY <1>2, <1>3, CountedFields
  <1>5. /\ RequestOf(c) \in Requests
        /\ RequestOf(c).from = client.state
    BY <1>2 DEF RequestOf
  <1>6. WireInRound'
    <2> SUFFICES ASSUME NEW q \in requests', q.xid = c.xid PROVE q.from = client.state
      BY <1>4 DEF WireInRound
    <2>1. CASE q = RequestOf(c)
      BY <1>5, <2>1
    <2>2. CASE q \in requests \ old
      <3>1. c.xid = client.xid
        BY <2>2
      <3>2. client.retransmitCount > 0
        BY <1>1, <1>2, <3>1
      <3> QED
        BY <2>2, <3>1, <3>2 DEF DhcpInvariant, WireInRound
    <2> QED
      BY <1>3, <2>1, <2>2
  <1>7. requests' \subseteq Requests
    BY <1>3, <1>5 DEF DhcpInvariant
  <1>8. DhcpTypeOK'
    BY <1>3, <1>4 DEF DhcpInvariant, DhcpTypeOK
  <1>9. UsedOnlyWhileLeased' /\ ProbesConfirmed' /\ inTime' = TRUE
    BY <1>3, <1>4 DEF DhcpInvariant, UsedOnlyWhileLeased, ProbesConfirmed
  <1> QED
    BY <1>6, <1>7, <1>8, <1>9 DEF DhcpInvariant

\* The state changes by dhcpClientChangeState, to one in which no address is
\* in use unless it was under the lease before.
LEMMA ChangesStep ==
    ASSUME DhcpInvariant, NEW state \in DhcpStates, client' = ChangedTo(client, state),
           UNCHANGED <<linkUp, phase, requests, inTime>>,
           \/ address' = Invalid(address)
           \/ address' = address /\ (state \in Leased \/ client.state \notin Leased)
           \/ address' = [address EXCEPT !.state = "VALID"] /\ state \in Leased
                                                           /\ client.state = "PROBING",
           state # "PROBING"
    PROVE  DhcpInvariant'
  <1> USE DEF ClientContext
  <1>1. /\ client' \in ClientContext
        /\ client'.state = state /\ client'.retransmitCount = 0
        /\ client'.running = client.running /\ client'.requested = client.requested
    BY ChangedToFields DEF DhcpInvariant, DhcpTypeOK
  <1>2. address' \in [addr : Address \cup {Unset}, conflict : BOOLEAN,
                      state : {"INVALID", "TENTATIVE", "VALID"}]
    BY DEF DhcpInvariant, DhcpTypeOK, Invalid
  <1>3. DhcpTypeOK'
    BY <1>1, <1>2 DEF DhcpInvariant, DhcpTypeOK
  <1>4. UsedOnlyWhileLeased'
    <2>1. CASE address' = Invalid(address)
      BY <2>1 DEF UsedOnlyWhileLeased, Invalid, DhcpInvariant, DhcpTypeOK
    <2>2. CASE address' = address /\ (state \in Leased \/ client.state \notin Leased)
      BY <1>1, <2>2 DEF UsedOnlyWhileLeased, DhcpInvariant
    <2>3. CASE /\ address' = [address EXCEPT !.state = "VALID"] /\ state \in Leased
               /\ client.state = "PROBING"
      BY <1>1, <2>3 DEF UsedOnlyWhileLeased, DhcpInvariant, ProbesConfirmed, DhcpTypeOK
    <2> QED
      BY <2>1, <2>2, <2>3
  <1>5. ProbesConfirmed' /\ WireInRound'
    BY <1>1 DEF ProbesConfirmed, WireInRound
  <1> QED
    BY <1>3, <1>4, <1>5 DEF DhcpInvariant

\* The user's calls and link changes move the machine without resetting the
\* counter, but to states in which no reply is acted upon, and take the address
\* away unless the client does not run.
LEMMA RestartStep ==
    ASSUME DhcpInvariant,
           client' \in ClientContext, client'.state \in {"INIT", "INIT_REBOOT"},
           address' = Invalid(address) \/ (address' = address /\ ~ client'.running),
           UNCHANGED <<phase, requests, inTime>>
    PROVE  DhcpInvariant'
  <1>1. address' \in [addr : Address \cup {Unset}, conflict : BOOLEAN,
                      state : {"INVALID", "TENTATIVE", "VALID"}]
    BY DEF DhcpInvariant, DhcpTypeOK, Invalid
  <1>2. DhcpTypeOK'
    BY <1>1 DEF DhcpInvariant, DhcpTypeOK, ClientContext
  <1>3. UsedOnlyWhileLeased'
    <2>1. CASE address' = Invalid(address)
      BY <2>1 DEF UsedOnlyWhileLeased, Invalid, DhcpInvariant, DhcpTypeOK
    <2>2. CASE ~ client'.running
      BY <2>2 DEF UsedOnlyWhileLeased
    <2> QED
      BY <2>1, <2>2
  <1>4. ProbesConfirmed' /\ WireInRound'
    BY DEF ProbesConfirmed, WireInRound, Waits
  <1> QED
    BY <1>2, <1>3, <1>4 DEF DhcpInvariant

\* Each branch of the tick.
LEMMA DhcpTickStep ==
    ASSUME DhcpInvariant, NEW works \in BOOLEAN, dhcpClientTick(works)
    PROVE  DhcpInvariant'
  <1>1. CASE StateInit
    <2>1. PICK state \in {"SELECTING", "REBOOTING"} : client' = ChangedTo(client, state)
      BY <1>1 DEF StateInit
    <2>2. /\ client.state \notin Leased /\ address' = address
          /\ UNCHANGED <<linkUp, phase, requests, inTime>>
      BY <1>1 DEF StateInit, Leased
    <2>3. state \in DhcpStates /\ state # "PROBING"
      BY DEF DhcpStates
    <2> QED
      BY <2>1, <2>2, <2>3, ChangesStep
  <1>2. CASE dhcpClientStateSelecting(works)
    BY <1>2, SendsStep DEF dhcpClientStateSelecting, Waits
  <1>3. CASE StateRequesting(works)
    <2>1. client.state \in Waits /\ client.state \notin Leased
      BY <1>3 DEF StateRequesting, Waits, Leased
    <2>2. CASE Sends(works)
      BY <2>1, <2>2, SendsStep
    <2>3. CASE client' = ChangedTo(client, "INIT") /\ UNCHANGED <<address, linkUp, phase, requests, inTime>>
      <3>1. "INIT" \in DhcpStates
        BY DEF DhcpStates
      <3> QED
        BY <2>1, <2>3, <3>1, ChangesStep
    <2> QED
      BY <1>3, <2>2, <2>3 DEF StateRequesting
  <1>4. CASE dhcpClientStateProbing
    <2>1. client.state = "PROBING" /\ UNCHANGED <<linkUp, phase, requests, inTime>>
      BY <1>4 DEF dhcpClientStateProbing
    <2>2. "INIT" \in DhcpStates /\ "BOUND" \in DhcpStates /\ "BOUND" \in Leased
          /\ client.state \notin Leased
      BY <2>1 DEF DhcpStates, Leased
    <2>3. CASE client' = ChangedTo(client, "INIT") /\ UNCHANGED address
      BY <2>1, <2>2, <2>3, ChangesStep
    <2>4. CASE client' = ChangedTo(client, "BOUND") /\ address' = [address EXCEPT !.state = "VALID"]
      BY <2>1, <2>2, <2>4, ChangesStep
    <2>5. CASE client' = Counted(client) /\ UNCHANGED address
      <3>1. client \in ClientContext
        BY DEF DhcpInvariant, DhcpTypeOK, ClientContext
      <3>2. /\ client' \in ClientContext /\ client'.state = "PROBING"
            /\ client'.running = client.running /\ client'.requested = client.requested
        BY <2>1, <2>5, <3>1, CountedFields
      <3>3. DhcpTypeOK'
        BY <2>1, <2>5, <3>2 DEF DhcpInvariant, DhcpTypeOK, ClientContext
      <3>4. UsedOnlyWhileLeased' /\ ProbesConfirmed' /\ WireInRound'
        BY <2>1, <2>5, <3>2 DEF DhcpInvariant, UsedOnlyWhileLeased, ProbesConfirmed, WireInRound, Waits
      <3> QED
        BY <2>1, <3>3, <3>4 DEF DhcpInvariant
    <2> QED
      BY <1>4, <2>3, <2>4, <2>5 DEF dhcpClientStateProbing
  <1>5. CASE dhcpClientStateBound
    <2>1. "RENEWING" \in DhcpStates /\ "RENEWING" \in Leased
      BY DEF DhcpStates, Leased
    <2> QED
      BY <1>5, <2>1, ChangesStep DEF dhcpClientStateBound
  <1>6. CASE dhcpClientStateRenewing(works)
    <2>1. CASE Sends(works)
      BY <1>6, <2>1, SendsStep DEF dhcpClientStateRenewing, Waits
    <2>2. CASE client' = ChangedTo(client, "REBINDING") /\ UNCHANGED <<address, linkUp, phase, requests, inTime>>
      <3>1. "REBINDING" \in DhcpStates /\ "REBINDING" \in Leased
        BY DEF DhcpStates, Leased
      <3> QED
        BY <2>2, <3>1, ChangesStep
    <2> QED
      BY <1>6, <2>1, <2>2 DEF dhcpClientStateRenewing
  <1>7. CASE dhcpClientStateRebinding(works)
    <2>1. CASE Sends(works)
      BY <1>7, <2>1, SendsStep DEF dhcpClientStateRebinding, Waits
    <2>2. CASE /\ client' = ChangedTo(client, "INIT") /\ address' = Invalid(address)
               /\ UNCHANGED <<linkUp, phase, requests, inTime>>
      <3>1. "INIT" \in DhcpStates
        BY DEF DhcpStates
      <3> QED
        BY <2>2, <3>1, ChangesStep
    <2> QED
      BY <1>7, <2>1, <2>2 DEF dhcpClientStateRebinding
  <1> QED
    BY <1>1, <1>2, <1>3, <1>4, <1>5, <1>6, <1>7 DEF dhcpClientTick

\* A reply that is acted upon answers a request of the round the client is in.
LEMMA RepliesInRound ==
    ASSUME DhcpInvariant, NEW q \in requests, q.xid = client.xid, client.state \in Waits, Accepts(q)
    PROVE  inTime' = TRUE
  BY DEF DhcpInvariant, WireInRound, Accepts

LEMMA OfferStep ==
    ASSUME DhcpInvariant, NEW q \in requests, NEW server \in Server, NEW addr \in Address,
           dhcpClientParseOffer(q, server, addr)
    PROVE  DhcpInvariant'
  <1> DEFINE c == [client EXCEPT !.server = server, !.requested = addr]
  <1>1. c \in ClientContext /\ c.running = client.running
    BY DEF DhcpInvariant, DhcpTypeOK, ClientContext
  <1>2. /\ client' = ChangedTo(c, "REQUESTING") /\ client.state = "SELECTING"
        /\ UNCHANGED <<address, linkUp, phase, requests>>
    BY DEF dhcpClientParseOffer
  <1> HIDE DEF c
  <1>3. /\ client' \in ClientContext /\ client'.state = "REQUESTING"
        /\ client'.retransmitCount = 0 /\ client'.running = client.running
    BY <1>1, <1>2, ChangedToFields DEF DhcpStates
  <1>4. inTime' = TRUE
    BY <1>2, RepliesInRound DEF dhcpClientParseOffer, MayAnswer, Waits
  <1>5. DhcpTypeOK'
    BY <1>2, <1>3 DEF DhcpInvariant, DhcpTypeOK, ClientContext
  <1>6. UsedOnlyWhileLeased'
    BY <1>2, <1>3 DEF DhcpInvariant, UsedOnlyWhileLeased, Leased
  <1>7. ProbesConfirmed' /\ WireInRound'
    BY <1>2, <1>3 DEF ProbesConfirmed, WireInRound
  <1> QED
    BY <1>2, <1>4, <1>5, <1>6, <1>7 DEF DhcpInvariant

LEMMA AckStep ==
    ASSUME DhcpInvariant, NEW q \in requests, NEW server \in Server, NEW addr \in Address,
           dhcpClientParseAck(q, server, addr)
    PROVE  DhcpInvariant'
  <1> DEFINE c == [client EXCEPT !.server = server, !.requested = addr]
  <1>1. c \in ClientContext /\ c.running = client.running /\ c.requested = addr
    BY DEF DhcpInvariant, DhcpTypeOK, ClientContext
  <1>2. phase' = 0 /\ UNCHANGED <<linkUp, requests>>
    BY DEF dhcpClientParseAck
  <1>3. inTime' = TRUE
    <2>1. client.state \in Waits
      BY DEF dhcpClientParseAck, Hears, Waits
    <2> QED
      BY <2>1, RepliesInRound DEF dhcpClientParseAck, MayAnswer
  <1>4. \/ /\ address' = [addr |-> addr, state |-> "TENTATIVE", conflict |-> FALSE]
           /\ client' = ChangedTo(c, "PROBING")
        \/ /\ address' = [address EXCEPT !.addr = addr, !.state = "VALID"]
           /\ client' = ChangedTo(c, "BOUND")
    BY DEF dhcpClientParseAck
  <1> HIDE DEF c
  <1>5. CASE /\ address' = [addr |-> addr, state |-> "TENTATIVE", conflict |-> FALSE]
             /\ client' = ChangedTo(c, "PROBING")
    <2>1. /\ client' \in ClientContext /\ client'.state = "PROBING"
          /\ client'.retransmitCount = 0 /\ client'.requested = addr
      BY <1>1, <1>5, ChangedToFields DEF DhcpStates
    <2>2. DhcpTypeOK'
      BY <1>2, <1>5, <2>1 DEF DhcpInvariant, DhcpTypeOK, ClientContext
    <2>3. UsedOnlyWhileLeased' /\ ProbesConfirmed' /\ WireInRound'
      BY <1>2, <1>5, <2>1 DEF UsedOnlyWhileLeased, ProbesConfirmed, WireInRound
    <2> QED
      BY <1>2, <1>3, <2>2, <2>3 DEF DhcpInvariant
  <1>6. CASE /\ address' = [address EXCEPT !.addr = addr, !.state = "VALID"]
             /\ client' = ChangedTo(c, "BOUND")
    <2>1. /\ client' \in ClientContext /\ client'.state = "BOUND"
          /\ client'.retransmitCount = 0 /\ client'.requested = addr
      BY <1>1, <1>6, ChangedToFields DEF DhcpStates, Leased
    <2>2. /\ address' \in [addr : Address \cup {Unset}, conflict : BOOLEAN,
                           state : {"INVALID", "TENTATIVE", "VALID"}]
          /\ address'.addr = addr
      BY <1>6 DEF DhcpInvariant, DhcpTypeOK
    <2>3. DhcpTypeOK'
      BY <1>2, <2>1, <2>2 DEF DhcpTypeOK, ClientContext
    <2>4. UsedOnlyWhileLeased' /\ ProbesConfirmed' /\ WireInRound'
      BY <1>2, <2>1, <2>2 DEF UsedOnlyWhileLeased, ProbesConfirmed, WireInRound, Leased
    <2> QED
      BY <1>2, <1>3, <2>3, <2>4 DEF DhcpInvariant
  <1> QED
    BY <1>4, <1>5, <1>6

LEMMA NakStep ==
    ASSUME DhcpInvariant, NEW q \in requests, NEW server \in Server, dhcpClientParseNak(q, server)
    PROVE  DhcpInvariant'
  <1>1. client.state \in Waits
    BY DEF dhcpClientParseNak, Hears, Waits
  <1>2. inTime' = TRUE
    BY <1>1, RepliesInRound DEF dhcpClientParseNak, MayAnswer
  <1>3. UNCHANGED <<linkUp, phase, requests, inTime>>
    BY <1>2 DEF dhcpClientParseNak, DhcpInvariant
  <1>4. "INIT" \in DhcpStates
    BY DEF DhcpStates
  <1> QED
    BY <1>3, <1>4, ChangesStep DEF dhcpClientParseNak

\* Every call, tick, message and link change keeps the client's invariant.
LEMMA DhcpStep == DhcpInvariant /\ [DhcpNext]_dhcpVars => DhcpInvariant'
  <1> SUFFICES ASSUME DhcpInvariant, [DhcpNext]_dhcpVars PROVE DhcpInvariant'
    OBVIOUS
  <1>0. client \in ClientContext
    BY DEF DhcpInvariant, DhcpTypeOK, ClientContext
  <1>1. CASE dhcpClientStart
    <2>1. client' \in ClientContext /\ client'.state = "INIT"
      BY <1>0, <1>1 DEF dhcpClientStart, ClientContext, DhcpStates
    <2> QED
      BY <1>1, <2>1, RestartStep DEF dhcpClientStart
  <1>2. CASE dhcpClientStop
    <2>1. client' \in ClientContext /\ client'.state = "INIT" /\ ~ client'.running
      BY <1>0, <1>2 DEF dhcpClientStop, ClientContext, DhcpStates
    <2> QED
      BY <1>2, <2>1, RestartStep DEF dhcpClientStop
  <1>3. CASE dhcpClientLinkChangeEvent
    <2>1. PICK state \in {"INIT", "INIT_REBOOT"} : client' = [client EXCEPT !.state = state]
      BY <1>3 DEF dhcpClientLinkChangeEvent
    <2>2. client' \in ClientContext /\ client'.state = state /\ client'.running = client.running
      BY <1>0, <2>1 DEF ClientContext, DhcpStates
    <2>3. address' = Invalid(address) \/ (address' = address /\ ~ client'.running)
      BY <1>3, <2>2 DEF dhcpClientLinkChangeEvent
    <2> QED
      BY <1>3, <2>2, <2>3, RestartStep DEF dhcpClientLinkChangeEvent
  <1>4. CASE LeaseElapses
    <2>1. phase' \in 0..3
      BY <1>4 DEF LeaseElapses, DhcpInvariant, DhcpTypeOK
    <2> QED
      BY <1>4, <2>1 DEF LeaseElapses, DhcpInvariant, DhcpTypeOK, UsedOnlyWhileLeased,
                        ProbesConfirmed, WireInRound
  <1>5. CASE arpProcessClaim
    <2>1. /\ address' \in [addr : Address \cup {Unset}, conflict : BOOLEAN,
                           state : {"INVALID", "TENTATIVE", "VALID"}]
          /\ address'.addr = address.addr /\ address'.state = address.state
      BY <1>5 DEF arpProcessClaim, DhcpInvariant, DhcpTypeOK
    <2>2. UNCHANGED <<client, phase, requests, inTime>>
      BY <1>5 DEF arpProcessClaim
    <2> QED
      BY <2>1, <2>2 DEF DhcpInvariant, DhcpTypeOK, UsedOnlyWhileLeased,
                        ProbesConfirmed, WireInRound
  <1>6. CASE UNCHANGED dhcpVars
    BY <1>6 DEF dhcpVars, DhcpInvariant, DhcpTypeOK, UsedOnlyWhileLeased,
                ProbesConfirmed, WireInRound
  <1> QED
    BY <1>1, <1>2, <1>3, <1>4, <1>5, <1>6, DhcpTickStep, OfferStep, AckStep, NakStep DEF DhcpNext

\* The inductive invariant of the client holds in every reachable state, and
\* with it the types of the context, of the address entry and of the requests.
THEOREM DhcpClientInvariant == DhcpSpec => []DhcpInvariant
  <1>1. DhcpInit => DhcpInvariant
    <2> SUFFICES ASSUME DhcpInit PROVE DhcpInvariant
      OBVIOUS
    <2>1. 0 \in Xid /\ 0 \in 0..RequestMaxRc
      BY DhcpAssumption DEF Xid
    <2>2. DhcpTypeOK
      BY <2>1 DEF DhcpInit, DhcpTypeOK, DhcpStates, NoLease
    <2>3. UsedOnlyWhileLeased /\ ProbesConfirmed /\ WireInRound
      BY DEF DhcpInit, UsedOnlyWhileLeased, ProbesConfirmed, WireInRound, NoLease
    <2> QED
      BY <2>2, <2>3 DEF DhcpInit, DhcpInvariant
  <1> QED
    BY <1>1, DhcpStep, PTL DEF DhcpSpec

\* While the client runs, the address is in use only under a lease that is
\* being kept up, for every number of servers, addresses, transaction
\* identifiers, retransmissions and probes.
THEOREM AlwaysUsedOnlyWhileLeased == DhcpSpec => []UsedOnlyWhileLeased
  <1>1. DhcpInvariant => UsedOnlyWhileLeased
    BY DEF DhcpInvariant
  <1> QED
    BY <1>1, DhcpClientInvariant, PTL

\* dhcpClientParseOffer, dhcpClientParseAck and dhcpClientParseNak act only
\* upon replies to the round of requests the client is in, once it has sent one.
THEOREM AlwaysRepliesToThisRound == DhcpSpec => []RepliesToThisRound
  <1>1. DhcpInvariant => RepliesToThisRound
    BY DEF DhcpInvariant, RepliesToThisRound
  <1> QED
    BY <1>1, DhcpClientInvariant, PTL

=============================================================================
