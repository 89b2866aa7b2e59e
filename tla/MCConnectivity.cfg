\* One task in charge of the network (NetworkPursued is about it), two callbacks in
\* two slots, two events waiting; two callers of every other interface;
\* of the BLE drivers two UUIDs, links and services, and room for one addition more.
CONSTANTS
    Tasks = {t1}
    Callbacks = {c1, c2}
    SlotCount = 2
    EventRoom = 2
    None = none
    MqttTasks = {m1, m2}
    HubThreads = {h1, h2}
    Filters <- MCFilters
    Topics <- MCTopics
    TcpTasks = {p1, p2}
    Servers = {s1, s2, s3}
    NoServer = noServer
    WifiTasks = {w1, w2}
    Networks = {n1, n2}
    NoNetwork = noNetwork
    WifiEventRoom = 3
    Uuids = {u1, u2}
    Links = {l1, l2}
    NoLink = noLink
    ServiceRoom = 3
    CallRoom = 2
    AdvTasks = {a1, a2}
    Peers = {q1, q2}
    NoPeer = noPeer
    PayloadRoom = 3
    PeerEventRoom = 2
    EntryRoom = 2
    CharRoom = 2
    HandleRoom = 3
    FailureRoom = 2
SPECIFICATION AllSpec
INVARIANTS
    TypesOK
    StatusAgreesAtRest
    ToldHoldsAtRest
    NetworkPursued
    NeverSilentWhileUp
    NothingDangles
    RegisteredIsHeard
    OneServer
    ReachesTheRightEnd
    AdvertisesWhole
