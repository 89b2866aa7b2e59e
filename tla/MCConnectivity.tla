--------------------------- MODULE MCConnectivity ---------------------------
(***************************************************************************)
(* The connectivity components in one run: the platform's Wi-Fi and the    *)
(* hub's, both MQTT clients, the TCP server, and the BLE driver of either    *)
(* stack.  Their variables are their own, so a behaviour of the program     *)
(* projects on each of them alone: the run picks one and lets only it move. *)
(***************************************************************************)
EXTENDS WifiNetwork

CONSTANTS
    MqttTasks, HubThreads, Filters, Topics, TcpTasks, Servers, NoServer,
    WifiTasks, Networks, NoNetwork, WifiEventRoom,
    Uuids, Links, NoLink, ServiceRoom, CallRoom,
    AdvTasks, PayloadRoom, Peers, NoPeer, PeerEventRoom,
    EntryRoom, CharRoom, HandleRoom, FailureRoom

\* NULL is not a task, an empty SSID not a network, an empty string not a filter, what is
\* freed no UUID.
ASSUME TcpAssumption == NoServer \notin Servers
ASSUME HubWifiAssumption == WifiEventRoom \in Nat /\ NoNetwork \notin Networks
ASSUME GapAssumption == PayloadRoom \in Nat
ASSUME PeersAssumption == PeerEventRoom \in Nat /\ NoPeer \notin Peers
ASSUME NimbleAssumption == {ServiceRoom, CallRoom} \subseteq Nat /\ "none" \notin Uuids
ASSUME BluedroidAssumption == {EntryRoom, CharRoom, HandleRoom, FailureRoom} \subseteq Nat /\ EntryRoom > 0
ASSUME HubAssumption == Filters \subseteq Seq(STRING) \ {<<>>} /\ Topics \subseteq Seq(STRING)

VARIABLES
    part,
    client, deaf, dispatching, handle, certHeld, isConnected, mqttCbs, mqttPc, stopFailed, configFailed,
    link, subscribed, actionCallbacks, connected, loop, loopEnd, adding, unheard,
    wifiUp, wifiMode, driverMode, network, radio, wifiEvents, wifiCalls, station, quiet,
    running, listening, serverTask, servers, tcpCallback, lastClient, tcpPc, untidy,
    host, attrs, links, ended, advertising, nimbleInitialized, nimbleCbs, accessDiff, services, current,
    isBleConnected, toAdd, nimblePc, calls, reused,
    gapUp, toSet, payloads, onAir, airConnectable, pendingMask, connectable, advPc, asked,
    unclean, peersUp, peers, peerEvents, conn,
    up, requests, made, hosted, diff, target, count, reg, regSvc, regChar, semaphore, addPc,
    oldCount, failed, refused

mqttVars == <<client, deaf, dispatching, handle, certHeld, isConnected, mqttCbs, mqttPc,
              stopFailed, configFailed>>
hubVars == <<link, subscribed, actionCallbacks, connected, loop, loopEnd, adding, unheard>>
hubWifiVars == <<wifiUp, wifiMode, driverMode, network, radio, wifiEvents, wifiCalls, station, quiet>>
tcpVars == <<running, listening, serverTask, servers, tcpCallback, lastClient, tcpPc, untidy>>
nimbleVars == <<host, attrs, links, ended, advertising, nimbleInitialized, nimbleCbs, accessDiff, services,
                current, isBleConnected, toAdd, nimblePc, calls, reused>>
gapVars == <<gapUp, toSet, payloads, onAir, airConnectable, pendingMask, connectable, advPc,
            asked, unclean>>
peersVars == <<peersUp, peers, peerEvents, conn>>
bdVars == <<up, requests, made, hosted, diff, target, count, reg, regSvc, regChar, semaphore,
            addPc, oldCount, failed, refused>>

\* Filters that overlap, with both wildcards; every topic of up to three levels.
MCFilters == {<<"a", "+">>, <<"a", "#">>, <<"+", "b", "#">>}
MCTopics == UNION {[1 .. n -> {"a", "b"}] : n \in 1 .. 3}

Mqtt == INSTANCE PlatformMqtt
Hub == INSTANCE HubMqtt
HubNet == INSTANCE HubWifi
Tcp == INSTANCE TcpServer
Nimble == INSTANCE BleNimble WITH adding <- toAdd
Gap == INSTANCE BluedroidGap
Remote == INSTANCE BluedroidPeers
Bluedroid == INSTANCE BluedroidServices

AllInit ==
    /\ Init /\ Mqtt!MqttStart /\ Hub!HubStart /\ HubNet!HubWifiStart /\ Tcp!TcpStart
    /\ Nimble!NimbleStart /\ Gap!GapStart /\ Remote!PeersStart /\ Bluedroid!BdStart
    /\ part \in {"network", "mqtt", "hub", "hubWifi", "tcp", "nimble", "gap", "peers", "services"}
    /\ part = "hub" \/ ~connected
    /\ part = "hubWifi" \/ network = NoNetwork

Network == part = "network" /\ Next
    /\ UNCHANGED <<part, mqttVars, hubVars, hubWifiVars, tcpVars, nimbleVars, gapVars, peersVars, bdVars>>
Platform == part = "mqtt" /\ Mqtt!MqttNext
    /\ UNCHANGED <<part, vars, hubVars, hubWifiVars, tcpVars, nimbleVars, gapVars, peersVars, bdVars>>
HubClient == part = "hub" /\ Hub!HubNext
    /\ UNCHANGED <<part, vars, mqttVars, hubWifiVars, tcpVars, nimbleVars, gapVars, peersVars, bdVars>>
HubStation == part = "hubWifi" /\ HubNet!HubWifiNext
    /\ UNCHANGED <<part, vars, mqttVars, hubVars, tcpVars, nimbleVars, gapVars, peersVars, bdVars>>
Local == part = "tcp" /\ Tcp!TcpNext
    /\ UNCHANGED <<part, vars, mqttVars, hubVars, hubWifiVars, nimbleVars, gapVars, peersVars, bdVars>>
NimbleDriver == part = "nimble" /\ Nimble!NimbleNext
    /\ UNCHANGED <<part, vars, mqttVars, hubVars, hubWifiVars, tcpVars, gapVars, peersVars, bdVars>>
BluedroidAir == part = "gap" /\ Gap!GapNext
    /\ UNCHANGED <<part, vars, mqttVars, hubVars, hubWifiVars, tcpVars, nimbleVars, peersVars, bdVars>>
BluedroidLinks == part = "peers" /\ Remote!PeersNext
    /\ UNCHANGED <<part, vars, mqttVars, hubVars, hubWifiVars, tcpVars, nimbleVars, gapVars, bdVars>>
BluedroidTable == part = "services" /\ Bluedroid!BdNext
    /\ UNCHANGED <<part, vars, mqttVars, hubVars, hubWifiVars, tcpVars, nimbleVars, gapVars, peersVars>>

AllNext ==
    \/ Network \/ Platform \/ HubClient \/ HubStation \/ Local
    \/ NimbleDriver \/ BluedroidAir \/ BluedroidLinks \/ BluedroidTable
AllSpec == AllInit /\ [][AllNext]_<<part, vars, mqttVars, hubVars, hubWifiVars, tcpVars, nimbleVars, gapVars, peersVars, bdVars>>

\* The types of the components (wifi.c, IOT_NetworkMgmt.c, IOT_MqttMgmt.c, Mqtt.cpp, Wifi.cpp,
\* IOT_TcpServer.c, IOT_BleMgmtNimble.c, IOT_BleMgmtBluedroid.c).
TypesOK ==
    /\ TypeOK /\ Mqtt!MqttTypeOK /\ Hub!HubTypeOK /\ HubNet!HubWifiTypeOK /\ Tcp!TcpTypeOK
    /\ Nimble!NimbleTypeOK /\ Gap!GapTypeOK /\ Remote!PeersTypeOK /\ Bluedroid!BdTypeOK

\* The properties of the others, by the names their modules give them:
\* wifi.c, Wifi.cpp, a station that should have a network is in it or on its way;
NetworkPursued == NeverLeftAlone /\ HubNet!NeverGivesUp
\* IOT_MqttMgmt.c, whoever may subscribe may publish;
NeverSilentWhileUp == Mqtt!NeverSilentWhileUp
\* IOT_MqttMgmt.c, nothing the client points to is freed before it;
NothingDangles == Mqtt!NothingDangles
\* Mqtt.cpp, what is registered is heard;
RegisteredIsHeard == Hub!RegisteredIsHeard
\* IOT_TcpServer.c, one server task, the one s_serverTask says;
OneServer == Tcp!OneServer
\* IOT_BleMgmtNimble.c, IOT_BleMgmtBluedroid.c, an access or a notification reaches the
\* characteristic that was registered, on a connection that is up;
ReachesTheRightEnd == Nimble!NimbleRightEnd /\ Bluedroid!BdRightEnd /\ Remote!NotifiesPeer
\* IOT_BleMgmtBluedroid.c, what is on the air is all that was asked for.
AdvertisesWhole == Gap!AdvertisesWhole
=============================================================================
