----------------------------- MODULE DhcpServer -----------------------------
(***************************************************************************)
(* The DHCP server (dhcp/dhcp_server.c): a table of bindings of fixed size *)
(* from which addresses are offered, leased and taken back.  Each message  *)
(* and the tick is handled under the stack's mutex in one action.          *)
(*                                                                         *)
(* The clients (external) keep to the protocol: one that starts over with  *)
(* a DHCPDISCOVER has given its address up, one that uses an address       *)
(* requests that one, and a lease ends at the client no later than at the  *)
(* server.  (dhcp_client.c counts a lease from the arrival of the DHCPACK, *)
(* so it ends there later by the time the message was under way.)          *)
(* Messages and replies may be lost.  Addresses are numbers, 0 the         *)
(* unspecified one; messages for another server are left out, they change  *)
(* nothing.                                                                *)
(***************************************************************************)
EXTENDS Naturals, FiniteSetsExt

CONSTANTS Hw,          \* hardware addresses of the clients
          NoHw,        \* the content of a cleared binding
          RangeMax,    \* ipAddrRangeMin is 1, ipAddrRangeMax is RangeMax
          MaxClients   \* DHCP_SERVER_MAX_CLIENTS

ASSUME DhcpServerAssumption == /\ {RangeMax, MaxClients} \subseteq Nat \ {0}
                               /\ NoHw \notin Hw

VARIABLES binding,     \* clientBinding
          bindingAge,  \* the bindings, by the age of their time stamps
          nextIpAddr,  \* the next address to offer
          held         \* history: the address each client uses

leaseVars == <<binding, bindingAge, nextIpAddr, held>>

BindingSlot == 1..MaxClients
IpRange == 1..RangeMax

\* Addresses a client may ask for: none, one of the range, or one outside it.
Wanted == 0..(RangeMax + 1)

Unbound == [macAddr |-> NoHw, ipAddr |-> 0, validLease |-> FALSE]

LeaseInit == /\ binding = [i \in BindingSlot |-> Unbound]
             /\ bindingAge = [i \in BindingSlot |-> i]
             /\ nextIpAddr = 1
             /\ held = [c \in Hw |-> 0]

FindByMac(c) == {i \in BindingSlot : binding[i].macAddr = c}

\* Whether a binding of table b has the address.
Taken(b, addr) == \E i \in BindingSlot : b[i].macAddr # NoHw /\ b[i].ipAddr = addr

\* The lease is not looked at when the oldest binding is replaced.
dhcpServerCreateBinding_AnyOldest ==
    LET free == {i \in BindingSlot : binding[i].macAddr = NoHw}
    IN  IF free # {} THEN {Min(free)} ELSE {bindingAge[1]}

\* dhcpServerCreateBinding: the first free binding, or the oldest of those
\* without a valid lease; none when every one is leased.
dhcpServerCreateBinding ==
    LET free == {i \in BindingSlot : binding[i].macAddr = NoHw}
        idle == {k \in BindingSlot : ~ binding[bindingAge[k]].validLease}
    IN  IF free # {} THEN {Min(free)} ELSE IF idle # {} THEN {bindingAge[Min(idle)]} ELSE {}

\* Binding i becomes the youngest.
BindingStamped(i) ==
    LET place == CHOOSE k \in BindingSlot : bindingAge[k] = i
    IN  [k \in BindingSlot |-> IF k < place THEN bindingAge[k]
                               ELSE IF k < MaxClients THEN bindingAge[k + 1] ELSE i]

Bound(i, c, addr, valid) ==
    /\ binding' = [binding EXCEPT ![i] = [macAddr |-> c, ipAddr |-> addr, validLease |-> valid]]
    /\ bindingAge' = BindingStamped(i)

Advanced(n) == ((nextIpAddr - 1 + n) % RangeMax) + 1

\* How far dhcpServerGetNextIpAddr may have to go for an address that is not
\* bound: it looks at as many as there are bindings.
NextFree(b) == {n \in 0..(MaxClients - 1) : ~ Taken(b, Advanced(n))}

-----------------------------------------------------------------------------
\* DHCPDISCOVER of a client that has a binding: it moves to the address asked
\* for when that one is free.
DiscoverBound(i, c, wanted) ==
    /\ IF wanted # binding[i].ipAddr /\ wanted \in IpRange /\ ~ Taken(binding, wanted)
       THEN Bound(i, c, wanted, binding[i].validLease)
       ELSE UNCHANGED <<binding, bindingAge>>
    /\ UNCHANGED nextIpAddr

\* DHCPDISCOVER of another client: a binding is made for it, with the address
\* asked for or the next one that is free.  Without an address it stays empty.
DiscoverNew(i, c, wanted) ==
    LET b == [binding EXCEPT ![i] = Unbound]
    IN  \/ /\ wanted \in IpRange /\ ~ Taken(b, wanted)
           /\ Bound(i, c, wanted, FALSE)
           /\ UNCHANGED nextIpAddr
        \/ /\ wanted \notin IpRange \/ Taken(b, wanted)
           /\ \/ /\ NextFree(b) # {}
                 /\ Bound(i, c, Advanced(Min(NextFree(b))), FALSE)
                 /\ nextIpAddr' = Advanced(Min(NextFree(b)) + 1)
              \/ /\ NextFree(b) = {}
                 /\ binding' = b
                 /\ nextIpAddr' = Advanced(MaxClients)
                 /\ UNCHANGED bindingAge

dhcpServerParseDiscover(c, wanted) ==
    /\ held' = [held EXCEPT ![c] = 0]
    /\ \/ \E i \in FindByMac(c) : DiscoverBound(i, c, wanted)
       \/ /\ FindByMac(c) = {}
          /\ \/ \E i \in dhcpServerCreateBinding : DiscoverNew(i, c, wanted)
             \/ /\ dhcpServerCreateBinding = {}
                /\ UNCHANGED <<binding, bindingAge, nextIpAddr>>

\* The bindings in which the address can be leased to c: its own when it has
\* the address; when it has none, a new one if the address is free.
Grantable(c, addr) ==
    IF FindByMac(c) # {} THEN {i \in FindByMac(c) : binding[i].ipAddr = addr}
    ELSE IF addr \in IpRange /\ ~ Taken(binding, addr) THEN dhcpServerCreateBinding
    ELSE {}

\* DHCPREQUEST, after an offer, after a restart or to renew a lease.  heard:
\* the reply reaches the client.
dhcpServerParseRequest(c, addr, heard) ==
    /\ addr # 0 /\ held[c] \in {0, addr}
    /\ \/ \E i \in Grantable(c, addr) :
             /\ Bound(i, c, addr, TRUE)
             /\ held' = [held EXCEPT ![c] = IF heard THEN addr ELSE @]
       \/ /\ Grantable(c, addr) = {}
          /\ held' = [held EXCEPT ![c] = IF heard THEN 0 ELSE @]
          /\ UNCHANGED <<binding, bindingAge>>
    /\ UNCHANGED nextIpAddr

\* DHCPDECLINE: the client has found its address in use.
dhcpServerParseDecline(c) ==
    /\ held[c] # 0
    /\ held' = [held EXCEPT ![c] = 0]
    /\ binding' = [i \in BindingSlot |->
                     IF binding[i].macAddr = c /\ binding[i].ipAddr = held[c]
                     THEN Unbound ELSE binding[i]]
    /\ UNCHANGED <<bindingAge, nextIpAddr>>

\* DHCPRELEASE: the binding stays, without a valid lease.
dhcpServerParseRelease(c, heard) ==
    /\ held[c] # 0
    /\ held' = [held EXCEPT ![c] = 0]
    /\ binding' = [i \in BindingSlot |->
                     IF heard /\ binding[i].macAddr = c /\ binding[i].ipAddr = held[c]
                     THEN [binding[i] EXCEPT !.validLease = FALSE] ELSE binding[i]]
    /\ UNCHANGED <<bindingAge, nextIpAddr>>

\* dhcpServerTick finds a lease that is over.
dhcpServerTick(i) ==
    /\ binding[i].validLease
    /\ binding' = [binding EXCEPT ![i].validLease = FALSE]
    /\ held' = [held EXCEPT ![binding[i].macAddr] = 0]
    /\ UNCHANGED <<bindingAge, nextIpAddr>>

LeaseNext ==
    \/ \E c \in Hw, addr \in Wanted :
          \/ dhcpServerParseDiscover(c, addr)
          \/ \E heard \in BOOLEAN : dhcpServerParseRequest(c, addr, heard)
    \/ \E c \in Hw : dhcpServerParseDecline(c)
    \/ \E c \in Hw, heard \in BOOLEAN : dhcpServerParseRelease(c, heard)
    \/ \E i \in BindingSlot : dhcpServerTick(i)

LeaseSpec == LeaseInit /\ [][LeaseNext]_leaseVars

-----------------------------------------------------------------------------
\* The server remembers every lease it has granted until it is over, under a
\* binding of its own: offers, refusals, lost replies and the reuse of old
\* bindings never put an address in the hands of two clients.
LeasesRemembered ==
    /\ \A c \in Hw : held[c] # 0 =>
          \E i \in BindingSlot :
              binding[i] = [macAddr |-> c, ipAddr |-> held[c], validLease |-> TRUE]
    /\ \A i, j \in BindingSlot : i # j /\ binding[i].macAddr # NoHw =>
          binding[i].macAddr # binding[j].macAddr /\ binding[i].ipAddr # binding[j].ipAddr

=============================================================================
