CONSTANTS
    Addr = {a1, a2, a3}
    Mac = {m1, m2}
    ArpSlots = 2
    MaxPending = 2
    MaxRequests = 2
    MaxProbes = 2
    NoAddr = unset
    Task = {t1, t2}
    Name = {n1, n2, n3}
    NoName = nameless
    DnsSlots = 2
    PortCount = 2
    Id = {1}
    MaxTries = 1
    ServerCount = 2
    MaxCalls = 3
    Server = {s1, s2}
    Address = {d1}
    Unset = unset
    XidCount = 2
    RequestMaxRc = 2
    ProbeNum = 1
    RapidCommit = TRUE
    Datagram = {1, 2, 3}
    Length <- Lengths
    FragSlots = 2
    MaxUnits = 3
    Infinity = 5
    NoDatagram = 0
    Hw = {c1, c2, c3}
    NoHw = nobody
    RangeMax = 3
    MaxClients = 2
    Node = {n1, n2}
    Router = router
    MaxJoins = 2
    MaxQueue = 2
    Station = {st1, st2}
    LinkLocal = {l1, l2}
    NoLinkLocal = zero
    AutoIpProbes = 1
    Announces = 1
    MaxLost = 1
    Receiver = {r1, r2}
    RxQueueSize = 2
SPECIFICATION Spec
INVARIANT TypeOK
INVARIANT QueuedPacketsOwned
INVARIANT ResolverSound
INVARIANT UsedOnlyWhileLeased
INVARIANT RepliesToThisRound
INVARIANT HandedWhole
INVARIANT ReceiverWoken
INVARIANT LeasesRemembered
INVARIANT ListenersServed
INVARIANT LinkLocalUnique
PROPERTY NothingWaitsForEver
CHECK_DEADLOCK FALSE
