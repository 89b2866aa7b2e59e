------------------------- MODULE ConnectivityProofs -------------------------
(***************************************************************************)
(* Theorems about the components that MCConnectivity puts side by side, for *)
(* any tasks, threads, servers, networks and topics.  Every component has    *)
(* its own variables, so a step of the whole is a step of one of them or     *)
(* leaves it alone; each section has the inductive invariant of one.         *)
(***************************************************************************)
EXTENDS MCConnectivity, WifiNetworkProofs, FiniteSetTheorems, SequenceTheorems, WellFoundedInduction, TLAPS

allVars == <<part, vars, mqttVars, hubVars, hubWifiVars, tcpVars, nimbleVars, gapVars, peersVars, bdVars>>

-----------------------------------------------------------------------------
(* IOT_TcpServer.c: one server task *)

(* A server task that has ended its loop saw s_running cleared.  Of two      *)
(* calls one waits for nothing; a call that waits for the task has closed    *)
(* the socket; one that has opened it and has not created the task finds     *)
(* none.                                                                     *)
ServersInv ==
  ~untidy =>
    /\ \A s \in Servers : servers[s] # "none" => serverTask = s
    /\ serverTask # NoServer => serverTask \in Servers /\ servers[serverTask] # "none"
    /\ \A t, u \in TcpTasks : tcpPc[t] # "ready" /\ tcpPc[u] # "ready" => t = u
    /\ \A t \in TcpTasks : tcpPc[t] = "create" => running /\ serverTask = NoServer
    /\ \A t \in TcpTasks : tcpPc[t] = "wait" => ~running
    /\ listening <=> running
    /\ running => \A s \in Servers : servers[s] # "end"
    /\ (\A t \in TcpTasks : tcpPc[t] = "ready") => (running <=> serverTask # NoServer)

TcpInv == Tcp!TcpTypeOK /\ ServersInv

LEMMA TcpInit ==
  ASSUME Tcp!TcpStart
  PROVE  TcpInv
<1>1. Tcp!TcpTypeOK
  BY DEF Tcp!TcpStart, Tcp!TcpTypeOK
<1>2. ServersInv
  BY TcpAssumption DEF Tcp!TcpStart, ServersInv
<1> QED
  BY <1>1, <1>2 DEF TcpInv

LEMMA TcpTyped ==
  ASSUME Tcp!TcpTypeOK, Tcp!TcpNext
  PROVE  Tcp!TcpTypeOK'
<1>1. ASSUME NEW t \in TcpTasks, Tcp!OpenSocket(t)
      PROVE  Tcp!TcpTypeOK'
  BY <1>1 DEF Tcp!OpenSocket, Tcp!TcpGoto, Tcp!TcpTypeOK, Tcp!NoCall
<1>2. ASSUME NEW t \in TcpTasks, Tcp!CreateServer(t)
      PROVE  Tcp!TcpTypeOK'
  BY <1>2 DEF Tcp!CreateServer, Tcp!TcpGoto, Tcp!ServerAt, Tcp!TcpTypeOK
<1>3. ASSUME NEW t \in TcpTasks, Tcp!TcpDeinit(t)
      PROVE  Tcp!TcpTypeOK'
  BY <1>3 DEF Tcp!TcpDeinit, Tcp!TcpGoto, Tcp!TcpTypeOK, Tcp!NoCall
<1>4. ASSUME NEW t \in TcpTasks, Tcp!DeinitReturns(t)
      PROVE  Tcp!TcpTypeOK'
  BY <1>4 DEF Tcp!DeinitReturns, Tcp!TcpGoto, Tcp!TcpTypeOK
<1>5. ASSUME NEW t \in TcpTasks, NEW b \in BOOLEAN, Tcp!TcpSetCallback(t, b)
      PROVE  Tcp!TcpTypeOK'
  BY <1>5 DEF Tcp!TcpSetCallback, Tcp!TcpTypeOK
<1>6. ASSUME NEW s \in Servers, Tcp!LoopTest(s) \/ Tcp!Accept(s) \/ Tcp!Serve(s) \/ Tcp!ServerEnds(s)
      PROVE  Tcp!TcpTypeOK'
  BY <1>6 DEF Tcp!LoopTest, Tcp!Accept, Tcp!Serve, Tcp!ServerEnds, Tcp!ServerAt, Tcp!TcpTypeOK
<1> QED
  BY <1>1, <1>2, <1>3, <1>4, <1>5, <1>6 DEF Tcp!TcpNext

LEMMA TcpStep ==
  ASSUME TcpInv, Tcp!TcpNext \/ UNCHANGED tcpVars
  PROVE  TcpInv'
<1>1. CASE UNCHANGED tcpVars
  BY <1>1 DEF tcpVars, TcpInv, Tcp!TcpTypeOK, ServersInv
<1>2. CASE Tcp!TcpNext
  <2>1. Tcp!TcpTypeOK'
    BY <1>2, TcpTyped DEF TcpInv
  <2>2. tcpPc \in [TcpTasks -> {"ready", "create", "wait"}]
    BY DEF TcpInv, Tcp!TcpTypeOK
  <2>3. servers \in [Servers -> {"none", "loop", "accept", "serve", "receive", "call", "end"}]
    BY DEF TcpInv, Tcp!TcpTypeOK
  <2>4. ServersInv
    BY DEF TcpInv
  <2>5. ASSUME NEW t \in TcpTasks, Tcp!OpenSocket(t)
        PROVE  ServersInv'
    <3> SUFFICES ASSUME ~untidy'
                 PROVE  ServersInv'
      BY DEF ServersInv
    <3>1. ~untidy /\ ~running /\ (\A u \in TcpTasks : tcpPc[u] = "ready") /\ UNCHANGED <<serverTask, servers>>
      BY <2>5 DEF Tcp!OpenSocket, Tcp!NoCall
    <3>2. serverTask = NoServer /\ \A s \in Servers : servers[s] = "none"
      BY <2>4, <3>1, TcpAssumption DEF ServersInv
    <3>3. CASE listening' /\ running' /\ tcpPc' = [tcpPc EXCEPT ![t] = "create"]
      BY <2>2, <3>1, <3>2, <3>3 DEF ServersInv
    <3>4. CASE ~listening' /\ UNCHANGED <<running, tcpPc>>
      BY <3>1, <3>2, <3>4 DEF ServersInv
    <3> QED
      BY <2>5, <3>3, <3>4 DEF Tcp!OpenSocket, Tcp!TcpGoto
  <2>6. ASSUME NEW t \in TcpTasks, Tcp!CreateServer(t)
        PROVE  ServersInv'
    BY <2>2, <2>3, <2>4, <2>6, TcpAssumption
    DEF Tcp!CreateServer, Tcp!TcpGoto, Tcp!ServerAt, ServersInv
  <2>7. ASSUME NEW t \in TcpTasks, Tcp!TcpDeinit(t)
        PROVE  ServersInv'
    BY <2>2, <2>3, <2>4, <2>7 DEF Tcp!TcpDeinit, Tcp!TcpGoto, Tcp!NoCall, ServersInv
  <2>8. ASSUME NEW t \in TcpTasks, Tcp!DeinitReturns(t)
        PROVE  ServersInv'
    BY <2>2, <2>3, <2>4, <2>8 DEF Tcp!DeinitReturns, Tcp!TcpGoto, ServersInv
  <2>9. ASSUME NEW t \in TcpTasks, NEW b \in BOOLEAN, Tcp!TcpSetCallback(t, b)
        PROVE  ServersInv'
    BY <2>4, <2>9 DEF Tcp!TcpSetCallback, ServersInv
  <2>10. ASSUME NEW s \in Servers, Tcp!LoopTest(s) \/ Tcp!Accept(s) \/ Tcp!Serve(s)
         PROVE  ServersInv'
    <3>1. PICK place \in {"loop", "accept", "serve", "receive", "call", "end"} :
            servers' = [servers EXCEPT ![s] = place] /\ (place = "end" => ~running)
      BY <2>10 DEF Tcp!LoopTest, Tcp!Accept, Tcp!Serve, Tcp!ServerAt
    <3>2. servers[s] # "none" /\ UNCHANGED <<running, listening, serverTask, tcpPc, untidy>>
      BY <2>10 DEF Tcp!LoopTest, Tcp!Accept, Tcp!Serve
    <3> QED
      BY <2>3, <2>4, <3>1, <3>2 DEF ServersInv
  <2>11. ASSUME NEW s \in Servers, Tcp!ServerEnds(s)
         PROVE  ServersInv'
    BY <2>3, <2>4, <2>11, TcpAssumption DEF Tcp!ServerEnds, Tcp!ServerAt, ServersInv
  <2> QED
    BY <1>2, <2>1, <2>5, <2>6, <2>7, <2>8, <2>9, <2>10, <2>11 DEF Tcp!TcpNext, TcpInv
<1> QED
  BY <1>1, <1>2

LEMMA TcpAlways == AllSpec => []TcpInv
<1>1. AllInit => TcpInv
  BY TcpInit DEF AllInit
<1>2. TcpInv /\ [AllNext]_allVars => TcpInv'
  <2> SUFFICES ASSUME TcpInv, [AllNext]_allVars
               PROVE  TcpInv'
    OBVIOUS
  <2>1. Tcp!TcpNext \/ UNCHANGED tcpVars
    BY DEF AllNext, allVars, Network, Platform, HubClient, HubStation, Local, NimbleDriver,
           BluedroidAir, BluedroidLinks, BluedroidTable
  <2> QED
    BY <2>1, TcpStep
<1> QED
  BY <1>1, <1>2, PTL DEF AllSpec, allVars

(* As long as calls of IOT_TcpInit and IOT_TcpDeinit do not overlap and no  *)
(* deinit gave up its wait, there is at most one server task, s_serverTask  *)
(* says which, and between calls it is there exactly when s_running says so, *)
(* for any number of tasks that call and of servers.                        *)
THEOREM OneServerAtATime == AllSpec => []OneServer
<1>1. TcpInv => OneServer
  <2> SUFFICES ASSUME TcpInv, ~untidy
               PROVE  Tcp!OneServer
    BY DEF OneServer, Tcp!OneServer
  <2>1. Tcp!Alive # {} <=> serverTask # NoServer
    BY TcpAssumption DEF TcpInv, ServersInv, Tcp!Alive
  <2>2. \A s \in Tcp!Alive : serverTask = s /\ s \in Servers
    BY DEF TcpInv, ServersInv, Tcp!Alive
  <2>3. ASSUME Tcp!NoCall
        PROVE  /\ running <=> serverTask # NoServer
               /\ listening <=> running
               /\ running => \A s \in Servers : servers[s] # "end"
    BY <2>3 DEF TcpInv, ServersInv, Tcp!NoCall
  <2> QED
    BY <2>1, <2>2, <2>3 DEF Tcp!OneServer
<1> QED
  BY <1>1, TcpAlways, PTL

-----------------------------------------------------------------------------
(* IOT_MqttMgmt.c: the handle and its client                               *)

Within(t) == mqttPc[t] \in {"replace", "create", "free"}

(* Whoever replaces or destroys the client is alone; after the first step   *)
(* there is none.  The handle lives while a call or a client needs it, and   *)
(* only a configuration that is under way, or failed, leaves the client      *)
(* without its certificate.                                                  *)
HandleInv ==
  /\ \A t, u \in MqttTasks : Within(t) /\ mqttPc[u] # "ready" => t = u
  /\ \A t \in MqttTasks : mqttPc[t] # "ready" => handle = "live"
  /\ \A t \in MqttTasks : mqttPc[t] \in {"create", "free"} => client = "none" /\ certHeld /\ ~deaf
  /\ client # "none" => handle = "live"
  /\ client # "none" /\ ~certHeld => configFailed \/ \E t \in MqttTasks : Within(t)

(* What the client's task dispatches while the session is up is that it is   *)
(* up; the flag says so too, but for a stop that is under way or failed and  *)
(* a client without a handler.                                               *)
FlagInv ==
  /\ client = "up" /\ dispatching # "nothing" => dispatching = "CONNECTED"
  /\ client = "up" /\ dispatching = "nothing" /\ ~stopFailed /\ ~deaf /\ ~isConnected
       => \E t \in MqttTasks : mqttPc[t] = "stop"
  /\ deaf => configFailed \/ \E t \in MqttTasks : Within(t)

MqttInv == Mqtt!MqttTypeOK /\ HandleInv /\ FlagInv

LEMMA MqttBegins ==
  ASSUME Mqtt!MqttStart
  PROVE  MqttInv
BY DEF Mqtt!MqttStart, MqttInv, Mqtt!MqttTypeOK, HandleInv, FlagInv, Within

(* The client's task. *)
LEMMA MqttEvent ==
  ASSUME MqttInv, Mqtt!SessionChanges \/ Mqtt!MqttHandle
  PROVE  MqttInv'
<1>1. CASE Mqtt!SessionChanges
  BY <1>1 DEF Mqtt!SessionChanges, Mqtt!Unlocked, Mqtt!MqttEvents, MqttInv, Mqtt!MqttTypeOK,
              HandleInv, FlagInv, Within
<1>2. CASE Mqtt!MqttHandle
  BY <1>2 DEF Mqtt!MqttHandle, MqttInv, Mqtt!MqttTypeOK, HandleInv, FlagInv, Within
<1> QED
  BY <1>1, <1>2

(* Calls that leave the client alone: the flag, the callbacks, a new handle. *)
LEMMA MqttCall ==
  ASSUME MqttInv, NEW t \in MqttTasks,
         \/ Mqtt!MqttInit(t) \/ Mqtt!MqttConnect(t) \/ Mqtt!MqttDisconnect(t) \/ Mqtt!Stop(t)
         \/ \E e \in Mqtt!MqttEvents : Mqtt!MqttRegister(t, e) \/ Mqtt!MqttUnregister(t, e)
  PROVE  MqttInv'
<1> USE DEF MqttInv, Mqtt!MqttTypeOK, HandleInv, FlagInv, Within
<1>1. CASE Mqtt!MqttInit(t)
  BY <1>1 DEF Mqtt!MqttInit, Mqtt!Calling
<1>2. CASE Mqtt!MqttConnect(t)
  BY <1>2 DEF Mqtt!MqttConnect, Mqtt!Replacing, Mqtt!Unlocked
<1>3. CASE Mqtt!MqttDisconnect(t)
  BY <1>3 DEF Mqtt!MqttDisconnect, Mqtt!Replacing, Mqtt!MqttGoto
<1>4. CASE Mqtt!Stop(t)
  BY <1>4 DEF Mqtt!Stop, Mqtt!Unlocked, Mqtt!MqttGoto
<1>5. ASSUME NEW e \in Mqtt!MqttEvents, Mqtt!MqttRegister(t, e) \/ Mqtt!MqttUnregister(t, e)
      PROVE  MqttInv'
  BY <1>5 DEF Mqtt!MqttRegister, Mqtt!MqttUnregister
<1> QED
  BY <1>1, <1>2, <1>3, <1>4, <1>5

(* The steps that replace or destroy the client. *)
LEMMA MqttReplaces ==
  ASSUME MqttInv, NEW t \in MqttTasks,
         \/ Mqtt!DropClient(t) \/ Mqtt!CreateClient(t) \/ Mqtt!StartDeinit(t) \/ Mqtt!EndDeinit(t)
         \/ \E withCert \in BOOLEAN : Mqtt!StartConfig(t, withCert)
  PROVE  MqttInv'
<1> USE DEF MqttInv, Mqtt!MqttTypeOK, HandleInv, FlagInv, Within, Mqtt!MqttGoto
<1>1. CASE Mqtt!DropClient(t)
  BY <1>1 DEF Mqtt!DropClient, Mqtt!Unlocked
<1>2. CASE Mqtt!CreateClient(t)
  <2>1. certHeld /\ handle = "live" /\ mqttPc[t] = "create" /\ mqttPc' = [mqttPc EXCEPT ![t] = "ready"]
    BY <1>2 DEF Mqtt!CreateClient
  <2>2. UNCHANGED <<mqttCbs, dispatching, handle, certHeld, isConnected, stopFailed>>
    BY <1>2 DEF Mqtt!CreateClient
  <2>3. \A u \in MqttTasks : mqttPc'[u] = "ready"
    BY <2>1
  <2>4. CASE client' = "idle" /\ deaf' \in BOOLEAN /\ configFailed' = deaf'
    BY <2>1, <2>2, <2>3, <2>4
  <2>5. CASE configFailed' = TRUE /\ UNCHANGED <<client, deaf>>
    BY <2>1, <2>2, <2>3, <2>5
  <2> QED
    BY <1>2, <2>4, <2>5 DEF Mqtt!CreateClient
<1>3. CASE Mqtt!StartDeinit(t)
  BY <1>3 DEF Mqtt!StartDeinit, Mqtt!Calling, Mqtt!Unlocked
<1>4. CASE Mqtt!EndDeinit(t)
  BY <1>4 DEF Mqtt!EndDeinit
<1>5. ASSUME NEW withCert \in BOOLEAN, Mqtt!StartConfig(t, withCert)
      PROVE  MqttInv'
  BY <1>5 DEF Mqtt!StartConfig, Mqtt!Calling
<1> QED
  BY <1>1, <1>2, <1>3, <1>4, <1>5

LEMMA MqttStep ==
  ASSUME MqttInv, Mqtt!MqttNext \/ UNCHANGED mqttVars
  PROVE  MqttInv'
<1>1. CASE UNCHANGED mqttVars
  BY <1>1 DEF mqttVars, MqttInv, Mqtt!MqttTypeOK, HandleInv, FlagInv, Within
<1> QED
  BY <1>1, MqttEvent, MqttCall, MqttReplaces DEF Mqtt!MqttNext

LEMMA MqttAlways == AllSpec => []MqttInv
<1>1. AllInit => MqttInv
  BY MqttBegins DEF AllInit
<1>2. MqttInv /\ [AllNext]_allVars => MqttInv'
  <2> SUFFICES ASSUME MqttInv, [AllNext]_allVars
               PROVE  MqttInv'
    OBVIOUS
  <2>1. Mqtt!MqttNext \/ UNCHANGED mqttVars
    BY DEF AllNext, allVars, Network, Platform, HubClient, HubStation, Local, NimbleDriver,
           BluedroidAir, BluedroidLinks, BluedroidTable
  <2> QED
    BY <2>1, MqttStep
<1> QED
  BY <1>1, <1>2, PTL DEF AllSpec, allVars

(* The client of esp-mqtt, whose task may dispatch at any time, never       *)
(* outlives the handle it points to, nor its certificate outside a           *)
(* configuration, whichever tasks configure, connect, stop and deinit.       *)
THEOREM ClientKeepsHandle == AllSpec => []NothingDangles
<1>1. MqttInv => NothingDangles
  BY DEF MqttInv, HandleInv, Within, NothingDangles, Mqtt!NothingDangles, Mqtt!Replacing
<1> QED
  BY <1>1, MqttAlways, PTL

(* While the session is up isConnected says so, after any stops, restarts   *)
(* and losses, unless the last stop or configuration failed: a caller that   *)
(* may subscribe may publish.                                                *)
THEOREM FlagFollowsSession == AllSpec => []NeverSilentWhileUp
<1>1. MqttInv => NeverSilentWhileUp
  <2> SUFFICES ASSUME MqttInv, Mqtt!CanSubscribe, Mqtt!Unlocked, ~Mqtt!Calling, ~stopFailed, ~configFailed
               PROVE  Mqtt!CanSend
    BY DEF NeverSilentWhileUp, Mqtt!NeverSilentWhileUp
  <2>1. ~deaf /\ \A t \in MqttTasks : mqttPc[t] # "stop"
    BY DEF MqttInv, FlagInv, Within, Mqtt!Calling
  <2> QED
    BY <2>1 DEF MqttInv, Mqtt!MqttTypeOK, FlagInv, Mqtt!CanSubscribe, Mqtt!CanSend,
                Mqtt!ConnectionStatus, Mqtt!Unlocked
<1> QED
  BY <1>1, MqttAlways, PTL

-----------------------------------------------------------------------------
(* Wifi.cpp and wifi.c: a station that keeps to its network                *)

(* Unless something happened that nobody hears of: a station that is off is  *)
(* within a call, which turns it on; one that believes in its mode and is    *)
(* idle beside a network has an event to handle, or a call that has still to  *)
(* set its network; one that is on is in the network that was set last.       *)
StationInv ==
  /\ radio = "off" /\ wifiMode # "NULL" /\ ~quiet => \E t \in WifiTasks : wifiCalls[t].pc # "ready"
  /\ radio = "idle" /\ wifiMode = "STA" /\ network # NoNetwork /\ wifiEvents = <<>> /\ ~quiet
       => \E t \in WifiTasks : wifiCalls[t].pc \in {"set", "config"}
  /\ radio \in {"joining", "joined"} /\ ~quiet => station = network

HubWifiInv == HubNet!HubWifiTypeOK /\ StationInv

LEMMA HubWifiBegins ==
  ASSUME HubNet!HubWifiStart
  PROVE  HubWifiInv
<1>1. wifiEvents \in Seq({"START", "DISCONNECTED"}) /\ Len(wifiEvents) <= WifiEventRoom
  BY HubWifiAssumption DEF HubNet!HubWifiStart
<1>2. HubNet!Ready \in [pc : {"ready", "mode", "set", "config", "start"},
                       op : {"none", "connect", "startAp", "startSta"}, net : Networks \cup {NoNetwork}]
  BY DEF HubNet!Ready
<1> QED
  BY <1>1, <1>2 DEF HubNet!HubWifiStart, HubWifiInv, HubNet!HubWifiTypeOK, StationInv

LEMMA AbortStep ==
  ASSUME HubWifiInv, NEW net \in Networks \cup {NoNetwork}, HubNet!AbortsWith(net)
  PROVE  HubWifiInv'
<1>1. wifiEvents' \in Seq({"START", "DISCONNECTED"}) /\ Len(wifiEvents') <= WifiEventRoom
  BY HubWifiAssumption DEF HubNet!AbortsWith
<1>2. HubNet!Ready \in [pc : {"ready", "mode", "set", "config", "start"},
                       op : {"none", "connect", "startAp", "startSta"}, net : Networks \cup {NoNetwork}]
  BY DEF HubNet!Ready
<1> QED
  BY <1>1, <1>2 DEF HubNet!AbortsWith, HubWifiInv, HubNet!HubWifiTypeOK, StationInv

LEMMA TellTyped ==
  ASSUME HubWifiInv, NEW e \in {"START", "DISCONNECTED"}, HubNet!Tell(e)
  PROVE  /\ wifiEvents' \in Seq({"START", "DISCONNECTED"})
         /\ Len(wifiEvents') <= WifiEventRoom
         /\ wifiEvents' # <<>>
<1>1. wifiEvents \in Seq({"START", "DISCONNECTED"}) /\ Len(wifiEvents) < WifiEventRoom
  BY DEF HubNet!Tell, HubWifiInv, HubNet!HubWifiTypeOK
<1>2. wifiEvents' = Append(wifiEvents, e)
  BY DEF HubNet!Tell
<1> QED
  BY <1>1, <1>2, HubWifiAssumption

(* The driver and its events. *)
LEMMA WifiEventStep ==
  ASSUME HubWifiInv, HubNet!WifiInit \/ HubNet!WifiEvent \/ HubNet!StationJoins \/ HubNet!NetworkLost
  PROVE  HubWifiInv'
<1> USE DEF HubWifiInv, HubNet!HubWifiTypeOK, StationInv
<1>1. CASE HubNet!WifiInit
  <2>1. CASE radio' = "idle" /\ HubNet!Tell("START")
    BY <1>1, <2>1, TellTyped DEF HubNet!WifiInit
  <2>2. CASE UNCHANGED <<wifiMode, driverMode, radio, wifiEvents>>
    BY <1>1, <2>2 DEF HubNet!WifiInit
  <2> QED
    BY <1>1, <2>1, <2>2 DEF HubNet!WifiInit
<1>2. CASE HubNet!WifiEvent
  <2>1. /\ Head(wifiEvents) \in {"START", "DISCONNECTED"}
        /\ wifiEvents' \in Seq({"START", "DISCONNECTED"}) /\ Len(wifiEvents') <= WifiEventRoom
    BY <1>2, HubWifiAssumption DEF HubNet!WifiEvent
  <2>2. \/ radio' = "joining" /\ station' = network /\ quiet' = FALSE
        \/ /\ UNCHANGED <<radio, station>> /\ quiet' \in BOOLEAN
           /\ quiet => quiet'
    BY <1>2 DEF HubNet!WifiEvent, HubNet!Connect
  <2>3. radio = "idle" /\ wifiMode = "STA" => radio' = "joining" \/ quiet'
    BY <1>2, <2>1 DEF HubNet!WifiEvent, HubNet!Connect, HubNet!Reconnects
  <2>4. UNCHANGED <<wifiUp, wifiMode, driverMode, network, wifiCalls>>
    BY <1>2 DEF HubNet!WifiEvent
  <2> QED
    BY <2>1, <2>2, <2>3, <2>4
<1>3. CASE HubNet!StationJoins
  BY <1>3 DEF HubNet!StationJoins
<1>4. CASE HubNet!NetworkLost
  BY <1>4, TellTyped DEF HubNet!NetworkLost
<1> QED
  BY <1>1, <1>2, <1>3, <1>4

(* A step of a call. *)
LEMMA WifiCallStep ==
  ASSUME HubWifiInv, NEW t \in WifiTasks,
         \/ \E op \in {"connect", "startAp", "startSta"}, net \in Networks \cup {NoNetwork} : HubNet!Begin(t, op, net)
         \/ HubNet!AssignMode(t) \/ HubNet!SetMode(t) \/ HubNet!StartRadio(t)
  PROVE  HubWifiInv'
<1> USE DEF HubWifiInv, HubNet!HubWifiTypeOK, StationInv
<1>1. ASSUME NEW op \in {"connect", "startAp", "startSta"}, NEW net \in Networks \cup {NoNetwork},
             HubNet!Begin(t, op, net)
      PROVE  HubWifiInv'
  <2>1. CASE wifiMode # HubNet!ModeOf(op) /\ radio \in {"joining", "joined"}
    BY <1>1, <2>1, TellTyped DEF HubNet!Begin
  <2>2. CASE wifiMode # HubNet!ModeOf(op) /\ radio \notin {"joining", "joined"}
    BY <1>1, <2>2 DEF HubNet!Begin
  <2>3. CASE wifiMode = HubNet!ModeOf(op)
    BY <1>1, <2>3 DEF HubNet!Begin
  <2> QED
    BY <2>1, <2>2, <2>3
<1>2. CASE HubNet!AssignMode(t)
  BY <1>2 DEF HubNet!AssignMode, HubNet!Step, HubNet!ModeOf
<1>3. CASE HubNet!SetMode(t)
  <2> DEFINE call == [wifiCalls[t] EXCEPT !.pc = "config"]
             net == IF wifiCalls[t].op = "startSta" THEN network ELSE call.net
             places == [pc : {"ready", "mode", "set", "config", "start"},
                        op : {"none", "connect", "startAp", "startSta"}, net : Networks \cup {NoNetwork}]
  <2>1. CASE /\ wifiCalls' = [wifiCalls EXCEPT ![t].pc = "config",
                                  ![t].net = IF wifiCalls[t].op = "startSta" THEN network ELSE @]
             /\ driverMode' = wifiMode /\ UNCHANGED quiet
    <3>1. wifiCalls' = [[wifiCalls EXCEPT ![t] = call] EXCEPT ![t] = [call EXCEPT !.net = net]]
      BY <2>1
    <3>2. [call EXCEPT !.net = net] \in places
      OBVIOUS
    <3>3. wifiCalls' \in [WifiTasks -> places] /\ wifiCalls'[t].pc = "config"
      BY <3>1, <3>2
    <3>4. wifiCalls[t].pc = "set" /\ driverMode' = wifiMode
          /\ UNCHANGED <<wifiUp, wifiMode, network, radio, wifiEvents, station, quiet>>
      BY <1>3, <2>1 DEF HubNet!SetMode
    <3> HIDE DEF call, net
    <3> QED
      BY <3>3, <3>4
  <2>2. CASE /\ wifiCalls' = [wifiCalls EXCEPT ![t] = HubNet!Ready] /\ UNCHANGED driverMode
             /\ quiet' = (quiet \/ radio \in {"off", "idle"})
    <3>1. HubNet!Ready \in places
      BY DEF HubNet!Ready
    <3>2. wifiCalls' \in [WifiTasks -> places]
      BY <2>2, <3>1
    <3>3. UNCHANGED <<wifiUp, wifiMode, network, radio, wifiEvents, station>>
      BY <1>3 DEF HubNet!SetMode
    <3> QED
      BY <2>2, <3>2, <3>3
  <2> QED
    BY <1>3, <2>1, <2>2 DEF HubNet!SetMode
<1>4. CASE HubNet!StartRadio(t)
  <2>1. /\ wifiCalls' = [wifiCalls EXCEPT ![t] = HubNet!Ready] /\ wifiCalls[t].pc = "start"
        /\ wifiCalls' \in [WifiTasks -> [pc : {"ready", "mode", "set", "config", "start"},
                                    op : {"none", "connect", "startAp", "startSta"},
                                    net : Networks \cup {NoNetwork}]]
    BY <1>4 DEF HubNet!StartRadio, HubNet!Ready
  <2>2. CASE radio = "off"
    <3>1. /\ radio' = "idle" /\ HubNet!Tell("START")
          /\ UNCHANGED <<wifiUp, wifiMode, driverMode, network, station, quiet>>
      BY <1>4, <2>2 DEF HubNet!StartRadio
    <3>2. /\ wifiEvents' \in Seq({"START", "DISCONNECTED"}) /\ Len(wifiEvents') <= WifiEventRoom
          /\ wifiEvents' # <<>>
      BY <3>1, TellTyped
    <3>3. HubNet!HubWifiTypeOK'
      BY <2>1, <3>1, <3>2
    <3>4. StationInv'
      BY <3>1, <3>2
    <3> QED
      BY <3>3, <3>4
  <2>3. CASE radio # "off"
    BY <1>4, <2>1, <2>3 DEF HubNet!StartRadio
  <2> QED
    BY <2>2, <2>3
<1> QED
  BY <1>1, <1>2, <1>3, <1>4

LEMMA SetConfigStep ==
  ASSUME HubWifiInv, NEW t \in WifiTasks, HubNet!SetConfig(t)
  PROVE  HubWifiInv'
<1>1. CASE HubNet!AbortsWith(network) \/ HubNet!AbortsWith(NoNetwork)
  BY <1>1, AbortStep DEF HubWifiInv, HubNet!HubWifiTypeOK
<1>2. CASE /\ network' = wifiCalls[t].net /\ HubNet!Step(t, "start")
           /\ quiet' = CASE radio = "off"  -> quiet
                         [] radio = "idle" -> quiet \/ wifiEvents = <<>>
                         [] OTHER          -> station # wifiCalls[t].net
           /\ UNCHANGED <<wifiUp, wifiMode, driverMode, radio, wifiEvents, station>>
  <2>1. HubNet!HubWifiTypeOK'
    BY <1>2 DEF HubNet!Step, HubWifiInv, HubNet!HubWifiTypeOK
  <2>2. StationInv'
    BY <1>2 DEF HubNet!Step, HubWifiInv, HubNet!HubWifiTypeOK, StationInv
  <2> QED
    BY <2>1, <2>2 DEF HubWifiInv
<1> QED
  BY <1>1, <1>2 DEF HubNet!SetConfig

LEMMA HubWifiStep ==
  ASSUME HubWifiInv, HubNet!HubWifiNext \/ UNCHANGED hubWifiVars
  PROVE  HubWifiInv'
<1>1. CASE UNCHANGED hubWifiVars
  BY <1>1 DEF hubWifiVars, HubWifiInv, HubNet!HubWifiTypeOK, StationInv
<1>2. ASSUME NEW t \in WifiTasks, HubNet!ScanAborts(t)
      PROVE  HubWifiInv'
  BY <1>2, AbortStep DEF HubNet!ScanAborts, HubWifiInv, HubNet!HubWifiTypeOK
<1>3. ASSUME NEW t \in WifiTasks,
             \/ \E net \in Networks : HubNet!ConnectToWifi(t, net)
             \/ HubNet!WifiStartAP(t) \/ HubNet!WifiStartSta(t)
      PROVE  HubWifiInv'
  BY <1>3, WifiCallStep DEF HubNet!ConnectToWifi, HubNet!WifiStartAP, HubNet!WifiStartSta
<1> QED
  BY <1>1, <1>2, <1>3, WifiEventStep, WifiCallStep, SetConfigStep DEF HubNet!HubWifiNext

LEMMA HubWifiAlways == AllSpec => []HubWifiInv
<1>1. AllInit => HubWifiInv
  BY HubWifiBegins DEF AllInit
<1>2. HubWifiInv /\ [AllNext]_allVars => HubWifiInv'
  <2> SUFFICES ASSUME HubWifiInv, [AllNext]_allVars
               PROVE  HubWifiInv'
    OBVIOUS
  <2>1. HubNet!HubWifiNext \/ UNCHANGED hubWifiVars
    BY DEF AllNext, allVars, Network, Platform, HubClient, HubStation, Local, NimbleDriver,
           BluedroidAir, BluedroidLinks, BluedroidTable
  <2> QED
    BY <2>1, HubWifiStep
<1> QED
  BY <1>1, <1>2, PTL DEF AllSpec, allVars

(* A behaviour of the whole is one of the platform's network. *)
LEMMA NetworkProjects == AllSpec => Spec
<1>1. AllInit => Init
  BY DEF AllInit
<1>2. [AllNext]_allVars => [Next]_vars
  BY DEF AllNext, allVars, Network, Platform, HubClient, HubStation, Local, NimbleDriver,
         BluedroidAir, BluedroidLinks, BluedroidTable
<1> QED
  BY <1>1, <1>2, PTL DEF AllSpec, Spec, allVars

(* Neither station is left alone: the platform's, when one task is in       *)
(* charge of it, is up, being connected or about to be again; the hub's, for  *)
(* any tasks that call it, is in the network set last or joining it once       *)
(* nothing is under way.  What nobody hears of is excepted by both, and named  *)
(* by their histories: a connection the driver refused to the event handler,   *)
(* and in the hub a network set while the radio was on and idle or in another,  *)
(* or that could not be read back.                                            *)
THEOREM StationsKeepOn == AllSpec => []NetworkPursued
<1>1. HubWifiInv => HubNet!NeverGivesUp
  BY DEF HubWifiInv, HubNet!HubWifiTypeOK, StationInv, HubNet!NeverGivesUp
<1>2. NeverLeftAlone /\ HubNet!NeverGivesUp => NetworkPursued
  BY DEF NetworkPursued
<1> QED
  BY <1>1, <1>2, HubWifiAlways, NetworkProjects, ConnectionPursued, PTL

-----------------------------------------------------------------------------
(* IOT_BleMgmtBluedroid.c: advertising with all of its payloads            *)

(* Where the tasks are: none asks; none gives payloads; only t asks.         *)
NoneAsks(place) == \A t \in AdvTasks : place[t] = "ready"
NoneGives(place) == \A t \in AdvTasks : place[t] \notin {"rsp", "data"}
OnlyAt(place, t, at) == place[t] = at /\ \A s \in AdvTasks \ {t} : place[s] = "ready"

(* What is on the air is whole, or nothing is.                               *)
AirSettled(place, set, mask, air, fit) ==
  NoneGives(place) /\ set = <<>> /\ (air = "no" \/ (air = "whole" /\ mask = {} /\ fit))

(* What is still to be set, in the order in which the stack sets it, and what  *)
(* the one task that asks has still to give, is what the mask says.            *)
Underway(place, set, mask, rsp) ==
  \/ NoneAsks(place) /\ set = <<"data">> /\ mask = {"data"} /\ rsp
  \/ NoneAsks(place) /\ set = <<"rsp", "data">> /\ mask = {"data", "rsp"}
  \/ \E t \in AdvTasks : OnlyAt(place, t, "rsp") /\ set = <<>> /\ mask = {"data", "rsp"}
  \/ \E t \in AdvTasks : OnlyAt(place, t, "data") /\ set = <<"rsp">> /\ mask = {"data", "rsp"}
  \/ \E t \in AdvTasks : OnlyAt(place, t, "data") /\ set = <<>> /\ mask = {"data"} /\ rsp

HasRsp == asked = "named" => "rsp" \in payloads
AdvInv ==
  ~unclean =>
    \/ AirSettled(advPc, toSet, pendingMask, onAir, airConnectable = (asked # "beacon"))
    \/ /\ Underway(advPc, toSet, pendingMask, HasRsp)
       /\ onAir \in {"no", "changing"} /\ connectable = (asked # "beacon")

GapInv == Gap!GapTypeOK /\ AdvInv

(* Nobody else may ask while one does and the start stays clean. *)
LEMMA AskStep ==
  ASSUME GapInv, NEW t \in AdvTasks, NEW kind \in Gap!Kinds, Gap!StartAdv(t, kind)
  PROVE  AdvInv'
<1> SUFFICES ASSUME ~unclean'
             PROVE  AdvInv'
  BY DEF AdvInv
<1>1. /\ ~unclean /\ toSet = <<>> /\ \A s \in AdvTasks \ {t} : advPc[s] = "ready"
      /\ advPc[t] = "ready" /\ advPc' = [advPc EXCEPT ![t] = kind]
      /\ UNCHANGED <<toSet, pendingMask, onAir, airConnectable, asked>>
  BY DEF Gap!StartAdv, Gap!OthersAsk
<1>2. NoneAsks(advPc)
  BY <1>1 DEF NoneAsks
<1>3. AirSettled(advPc, toSet, pendingMask, onAir, airConnectable = (asked # "beacon"))
  BY <1>1, <1>2 DEF GapInv, AdvInv, Underway, OnlyAt, NoneAsks
<1>4. NoneGives(advPc')
  BY <1>1, <1>2 DEF NoneAsks, NoneGives, GapInv, Gap!GapTypeOK, Gap!Kinds
<1> QED
  BY <1>1, <1>3, <1>4 DEF AdvInv, AirSettled

LEMMA MaskStep ==
  ASSUME GapInv, NEW t \in AdvTasks, NEW kind \in Gap!Kinds, Gap!SetMask(t, kind)
  PROVE  AdvInv'
<1> SUFFICES ASSUME ~unclean'
             PROVE  AdvInv'
  BY DEF AdvInv
<1>0. advPc[t] = kind /\ kind \notin {"ready", "rsp", "data"} /\ DOMAIN advPc = AdvTasks
  BY DEF Gap!SetMask, Gap!Kinds, GapInv, Gap!GapTypeOK
<1>1. CASE /\ pendingMask' = IF kind = "named" THEN Gap!Payloads ELSE {"data"}
           /\ advPc' = [advPc EXCEPT ![t] = IF kind = "named" THEN "rsp" ELSE "data"]
           /\ asked' = kind /\ payloads' = {}
           /\ onAir' = IF onAir = "no" THEN "no" ELSE "changing"
           /\ unclean' = (toSet # <<>> \/ Gap!OthersAsk(t) \/ connectable # (kind # "beacon"))
  <2>1. /\ toSet = <<>> /\ \A s \in AdvTasks \ {t} : advPc[s] = "ready"
        /\ connectable = (kind # "beacon")
    BY <1>1 DEF Gap!OthersAsk, GapInv, Gap!GapTypeOK
  <2>2. UNCHANGED <<toSet, connectable>>
    BY DEF Gap!SetMask
  <2>3. OnlyAt(advPc', t, IF kind = "named" THEN "rsp" ELSE "data")
    BY <1>0, <1>1, <2>1 DEF OnlyAt
  <2>4. Underway(advPc, toSet, pendingMask, HasRsp)'
    <3>1. CASE kind = "named"
      BY <1>1, <2>1, <2>2, <2>3, <3>1 DEF Underway, Gap!Payloads
    <3>2. CASE kind # "named"
      BY <1>1, <2>1, <2>2, <2>3, <3>2 DEF Underway, HasRsp
    <3> QED
      BY <3>1, <3>2
  <2> QED
    BY <1>1, <2>1, <2>2, <2>4 DEF AdvInv
<1>2. CASE /\ advPc' = [advPc EXCEPT ![t] = "ready"]
           /\ UNCHANGED <<pendingMask, asked, payloads, onAir, unclean>>
  <2>1. ~unclean /\ UNCHANGED <<toSet, airConnectable>>
    BY <1>2 DEF Gap!SetMask
  <2>2. ~Underway(advPc, toSet, pendingMask, HasRsp)
    BY <1>0 DEF Underway, NoneAsks, OnlyAt
  <2>3. AirSettled(advPc, toSet, pendingMask, onAir, airConnectable = (asked # "beacon"))
    BY <2>1, <2>2 DEF GapInv, AdvInv
  <2>4. NoneGives(advPc')
    BY <1>0, <1>2, <2>3 DEF AirSettled, NoneGives
  <2> QED
    BY <1>2, <2>1, <2>3, <2>4 DEF AdvInv, AirSettled
<1> QED
  BY <1>1, <1>2 DEF Gap!SetMask

LEMMA GiveStep ==
  ASSUME GapInv, NEW t \in AdvTasks, Gap!ConfigRsp(t) \/ Gap!ConfigData(t)
  PROVE  AdvInv'
<1> SUFFICES ASSUME ~unclean'
             PROVE  AdvInv'
  BY DEF AdvInv
<1>1. PICK which, next :
        /\ \/ advPc[t] = "rsp" /\ which = "rsp" /\ next = "data"
           \/ advPc[t] = "data" /\ which = "data" /\ next = "ready"
        /\ Gap!Config(t, which, next)
  BY DEF Gap!ConfigRsp, Gap!ConfigData
<1>2. /\ ~unclean /\ toSet' = Append(toSet, which) /\ advPc' = [advPc EXCEPT ![t] = next]
      /\ UNCHANGED <<pendingMask, payloads, onAir, connectable, asked>>
  BY <1>1 DEF Gap!Config
<1>3. /\ Underway(advPc, toSet, pendingMask, HasRsp) /\ onAir \in {"no", "changing"}
      /\ connectable = (asked # "beacon")
  BY <1>1, <1>2 DEF GapInv, AdvInv, AirSettled, NoneGives
<1>4. /\ DOMAIN advPc = AdvTasks
      /\ \A s \in AdvTasks \ {t} : advPc[s] = "ready"
      /\ \/ which = "rsp" /\ toSet = <<>> /\ pendingMask = {"data", "rsp"}
         \/ which = "data" /\ toSet = <<"rsp">> /\ pendingMask = {"data", "rsp"}
         \/ which = "data" /\ toSet = <<>> /\ pendingMask = {"data"} /\ HasRsp
  <2>1. DOMAIN advPc = AdvTasks
    BY DEF GapInv, Gap!GapTypeOK
  <2>2. ~NoneAsks(advPc)
    BY <1>1 DEF NoneAsks
  <2>3. ASSUME NEW s \in AdvTasks, NEW at, OnlyAt(advPc, s, at)
        PROVE  s = t
    BY <1>1, <2>3 DEF OnlyAt
  <2> QED
    BY <1>1, <1>3, <2>1, <2>2, <2>3 DEF Underway, OnlyAt
<1>5. HasRsp' = HasRsp
  BY <1>2 DEF HasRsp
<1>6. Underway(advPc, toSet, pendingMask, HasRsp)'
  <2>1. CASE which = "rsp"
    <3>1. OnlyAt(advPc', t, "data")
      BY <1>1, <1>2, <1>4, <2>1 DEF OnlyAt
    <3>2. toSet' = <<"rsp">> /\ pendingMask' = {"data", "rsp"}
      BY <1>2, <1>4, <2>1
    <3> QED
      BY <3>1, <3>2 DEF Underway
  <2>2. CASE which = "data"
    <3>1. NoneAsks(advPc')
      BY <1>1, <1>2, <1>4, <2>2 DEF NoneAsks
    <3>2. CASE toSet = <<"rsp">> /\ pendingMask = {"data", "rsp"}
      <4>1. toSet' = Append(<<"rsp">>, "data") /\ pendingMask' = {"data", "rsp"}
        BY <1>2, <2>2, <3>2
      <4>2. Append(<<"rsp">>, "data") = <<"rsp", "data">>
        <5>1. <<"rsp">> \in Seq({"rsp", "data"}) /\ Len(<<"rsp">>) = 1 /\ <<"rsp">>[1] = "rsp"
          OBVIOUS
        <5>2. /\ Append(<<"rsp">>, "data") \in Seq({"rsp", "data"}) /\ Len(Append(<<"rsp">>, "data")) = 2
              /\ Append(<<"rsp">>, "data")[1] = "rsp" /\ Append(<<"rsp">>, "data")[2] = "data"
          BY <5>1, AppendProperties
        <5>3. /\ <<"rsp", "data">> \in Seq({"rsp", "data"}) /\ Len(<<"rsp", "data">>) = 2
              /\ <<"rsp", "data">>[1] = "rsp" /\ <<"rsp", "data">>[2] = "data"
          OBVIOUS
        <5>4. \A i \in 1 .. 2 : Append(<<"rsp">>, "data")[i] = <<"rsp", "data">>[i]
          BY <5>2, <5>3
        <5> QED
          BY <5>2, <5>3, <5>4, SeqEqual
      <4> QED
        BY <3>1, <4>1, <4>2 DEF Underway
    <3>3. CASE toSet = <<>> /\ pendingMask = {"data"} /\ HasRsp
      <4>1. toSet' = <<"data">> /\ pendingMask' = {"data"} /\ HasRsp'
        BY <1>2, <1>5, <2>2, <3>3
      <4> QED
        BY <3>1, <4>1 DEF Underway
    <3> QED
      BY <1>4, <2>2, <3>2, <3>3
  <2> QED
    BY <1>1, <2>1, <2>2
<1> QED
  BY <1>2, <1>3, <1>6 DEF AdvInv

LEMMA PayloadStep ==
  ASSUME GapInv, Gap!PayloadSet
  PROVE  AdvInv'
<1> SUFFICES ASSUME ~unclean'
             PROVE  AdvInv'
  BY DEF AdvInv
<1>1. /\ ~unclean /\ toSet # <<>> /\ toSet' = Tail(toSet)
      /\ pendingMask' = pendingMask \ {Head(toSet)}
      /\ Head(toSet) \in payloads' /\ payloads \subseteq payloads'
      /\ UNCHANGED <<connectable, advPc, asked>>
  BY DEF Gap!PayloadSet, Gap!askVars
<1>2. /\ Underway(advPc, toSet, pendingMask, HasRsp) /\ onAir \in {"no", "changing"}
      /\ connectable = (asked # "beacon")
  BY <1>1 DEF GapInv, AdvInv, AirSettled
<1>3. CASE NoneAsks(advPc) /\ toSet = <<"data">> /\ pendingMask = {"data"} /\ HasRsp
  <2>1. Head(toSet) = "data" /\ Tail(toSet) = <<>>
    BY <1>3
  <2>2. Gap!AirOf(payloads') = "whole" /\ pendingMask' = {}
    BY <1>1, <1>3, <2>1 DEF Gap!AirOf, HasRsp
  <2>3. \/ onAir' = "whole" /\ airConnectable' = connectable
        \/ onAir' = "no"
    <3>1. Gap!StartsWith(Head(toSet))
      BY <1>3, <2>1 DEF Gap!StartsWith
    <3> QED
      BY <2>2, <3>1 DEF Gap!PayloadSet
  <2>4. NoneGives(advPc')
    BY <1>1, <1>3 DEF NoneAsks, NoneGives
  <2> QED
    BY <1>1, <1>2, <2>1, <2>2, <2>3, <2>4 DEF AdvInv, AirSettled
<1>4. CASE Head(toSet) = "rsp" /\ pendingMask = {"data", "rsp"}
  <2>1. onAir' = onAir
    <3>1. ~Gap!StartsWith(Head(toSet))
      <4>1. "data" \in pendingMask /\ "data" \notin {Head(toSet)}
        BY <1>4
      <4> QED
        BY <4>1 DEF Gap!StartsWith
    <3> QED
      BY <3>1 DEF Gap!PayloadSet
  <2>2. pendingMask' = {"data"} /\ HasRsp'
    BY <1>1, <1>4 DEF HasRsp
  <2>3. \/ NoneAsks(advPc) /\ toSet' = <<"data">>
        \/ \E t \in AdvTasks : OnlyAt(advPc, t, "data") /\ toSet' = <<>>
    <3>1. CASE toSet = <<"rsp", "data">>
      BY <1>1, <1>2, <3>1 DEF Underway
    <3>2. CASE toSet = <<"rsp">>
      BY <1>1, <1>2, <3>2 DEF Underway
    <3> QED
      BY <1>1, <1>2, <1>4, <3>1, <3>2 DEF Underway
  <2>4. Underway(advPc, toSet, pendingMask, HasRsp)'
    BY <1>1, <2>2, <2>3 DEF Underway
  <2> QED
    BY <1>1, <1>2, <2>1, <2>4 DEF AdvInv
<1> QED
  BY <1>1, <1>2, <1>3, <1>4 DEF Underway

LEMMA GapTyped ==
  ASSUME GapInv, Gap!GapNext
  PROVE  Gap!GapTypeOK'
<1> USE DEF GapInv, Gap!GapTypeOK, Gap!Payloads, Gap!askVars
<1>1. ASSUME NEW t \in AdvTasks, Gap!ConfigRsp(t) \/ Gap!ConfigData(t)
      PROVE  Gap!GapTypeOK'
  <2>1. PICK which \in {"data", "rsp"}, next \in {"data", "ready"} : Gap!Config(t, which, next)
    BY <1>1 DEF Gap!ConfigRsp, Gap!ConfigData
  <2>2. toSet' \in Seq({"data", "rsp"}) /\ Len(toSet') <= PayloadRoom
    BY <2>1, GapAssumption DEF Gap!Config
  <2> QED
    BY <2>1, <2>2 DEF Gap!Config
<1>2. CASE Gap!PayloadSet
  <2>1. toSet' \in Seq({"data", "rsp"}) /\ Len(toSet') <= PayloadRoom /\ Head(toSet) \in {"data", "rsp"}
    BY <1>2, GapAssumption DEF Gap!PayloadSet
  <2>2. onAir' \in {"no", "partial", "changing", "whole"} /\ airConnectable' \in BOOLEAN /\ unclean' \in BOOLEAN
    BY <1>2 DEF Gap!PayloadSet, Gap!AirOf
  <2>3. payloads' \subseteq {"data", "rsp"} /\ pendingMask' \subseteq {"data", "rsp"}
        /\ UNCHANGED <<gapUp, connectable, advPc, asked>>
    BY <1>2, <2>1 DEF Gap!PayloadSet
  <2> QED
    BY <2>1, <2>2, <2>3
<1>3. CASE Gap!GapDeinit
  <2>1. toSet' \in Seq({"data", "rsp"}) /\ Len(toSet') <= PayloadRoom
    BY <1>3, GapAssumption DEF Gap!GapDeinit
  <2> QED
    BY <1>3, <2>1 DEF Gap!GapDeinit
<1>4. CASE Gap!GapInit \/ Gap!StopAdv \/ Gap!AirTaken
  BY <1>4 DEF Gap!GapInit, Gap!StopAdv, Gap!AirTaken
<1>5. ASSUME NEW t \in AdvTasks, NEW kind \in Gap!Kinds, Gap!StartAdv(t, kind) \/ Gap!SetMask(t, kind)
      PROVE  Gap!GapTypeOK'
  <2>1. CASE Gap!StartAdv(t, kind)
    BY <1>5, <2>1 DEF Gap!StartAdv
  <2>2. CASE Gap!SetMask(t, kind)
    BY <1>5, <2>2 DEF Gap!SetMask
  <2> QED
    BY <1>5, <2>1, <2>2
<1> QED
  BY <1>1, <1>2, <1>3, <1>4, <1>5 DEF Gap!GapNext, Gap!StartBeacon, Gap!StartAdvertising, Gap!Kinds

LEMMA GapStep ==
  ASSUME GapInv, Gap!GapNext \/ UNCHANGED gapVars
  PROVE  GapInv'
<1>1. CASE UNCHANGED gapVars
  <2>1. /\ HasRsp' = HasRsp
        /\ UNCHANGED <<gapUp, toSet, payloads, onAir, airConnectable, pendingMask, connectable, advPc, asked, unclean>>
    BY <1>1 DEF gapVars, HasRsp
  <2> QED
    BY <2>1 DEF GapInv, Gap!GapTypeOK, AdvInv
<1>2. CASE Gap!GapNext
  <2>1. ASSUME Gap!GapInit
        PROVE  AdvInv'
    <3>1. HasRsp' = HasRsp /\ UNCHANGED <<toSet, onAir, airConnectable, pendingMask, connectable, advPc, asked, unclean>>
      BY <2>1 DEF Gap!GapInit, Gap!askVars, HasRsp
    <3> QED
      BY <3>1 DEF GapInv, AdvInv
  <2>2. ASSUME Gap!GapDeinit
        PROVE  AdvInv'
    <3>1. toSet' = <<>> /\ onAir' = "no" /\ advPc' = advPc /\ (~unclean' => ~unclean /\ NoneAsks(advPc))
      BY <2>2 DEF Gap!GapDeinit, Gap!askVars, Gap!Asking, NoneAsks
    <3> QED
      BY <3>1 DEF AdvInv, AirSettled, NoneAsks, NoneGives
  <2>3. ASSUME Gap!StopAdv \/ Gap!AirTaken
        PROVE  AdvInv'
    <3>1. /\ HasRsp' = HasRsp /\ onAir' = "no"
          /\ UNCHANGED <<toSet, airConnectable, pendingMask, connectable, advPc, asked, unclean>>
      BY <2>3 DEF Gap!StopAdv, Gap!AirTaken, Gap!askVars, HasRsp
    <3> QED
      BY <3>1 DEF GapInv, AdvInv, AirSettled
  <2>4. AdvInv'
    <3>1. ASSUME NEW t \in AdvTasks, Gap!StartBeacon(t) \/ Gap!StartAdvertising(t)
          PROVE  AdvInv'
      BY <3>1, AskStep DEF Gap!StartBeacon, Gap!StartAdvertising, Gap!Kinds
    <3> QED
      BY <1>2, <2>1, <2>2, <2>3, <3>1, PayloadStep, MaskStep, GiveStep DEF Gap!GapNext
  <2> QED
    BY <1>2, <2>4, GapTyped DEF GapInv
<1> QED
  BY <1>1, <1>2

LEMMA GapAlways == AllSpec => []GapInv
<1>1. AllInit => GapInv
  <2>1. Gap!GapStart => toSet \in Seq({"data", "rsp"}) /\ Len(toSet) <= PayloadRoom
    BY GapAssumption DEF Gap!GapStart
  <2>2. Gap!GapStart => Gap!GapTypeOK
    BY <2>1 DEF Gap!GapStart, Gap!GapTypeOK, Gap!Payloads, Gap!Kinds
  <2>3. Gap!GapStart => AdvInv
    BY DEF Gap!GapStart, AdvInv, AirSettled, NoneGives
  <2> QED
    BY <2>2, <2>3 DEF AllInit, GapInv
<1>2. GapInv /\ [AllNext]_allVars => GapInv'
  <2> SUFFICES ASSUME GapInv, [AllNext]_allVars
               PROVE  GapInv'
    OBVIOUS
  <2>1. Gap!GapNext \/ UNCHANGED gapVars
    BY DEF AllNext, allVars, Network, Platform, HubClient, HubStation, Local, NimbleDriver,
           BluedroidAir, BluedroidLinks, BluedroidTable
  <2> QED
    BY <2>1, GapStep
<1> QED
  BY <1>1, <1>2, PTL DEF AllSpec, allVars

(* "Advertising may only start once BOTH have completed" (the comment on    *)
(* adv_pending_mask): what is on the air has the payloads last asked for and  *)
(* can be connected to only if it is no beacon, unless the start met another   *)
(* task's, or a payload or the start was refused.                              *)
THEOREM AdvertisingIsWhole == AllSpec => []AdvertisesWhole
<1>1. GapInv => AdvertisesWhole
  BY DEF GapInv, AdvInv, AirSettled, Underway, AdvertisesWhole, Gap!AdvertisesWhole
<1> QED
  BY <1>1, GapAlways, PTL

-----------------------------------------------------------------------------
(* IOT_BleMgmtBluedroid.c: connections                                      *)

(* The end of a connection is among the events, after one of them.           *)
EndAfter(ev, i, p) == \E j \in i + 1 .. Len(ev) : ev[j] = [up |-> FALSE, peer |-> p]

(* A connection that is noted, or is still to be, is up, or its end is still   *)
(* to be handled.                                                              *)
ToldInv ==
  /\ peerEvents \in Seq([up : BOOLEAN, peer : Peers])
  /\ conn # NoPeer => conn \in peers \/ EndAfter(peerEvents, 0, conn)
  /\ \A i \in 1 .. Len(peerEvents) :
       peerEvents[i].up => peerEvents[i].peer \in peers \/ EndAfter(peerEvents, i, peerEvents[i].peer)

PeersInv == Remote!PeersTypeOK /\ ToldInv

LEMMA TellStep ==
  ASSUME PeersInv, NEW p \in Peers, NEW b \in BOOLEAN, Remote!Tell(b, p),
         peers \subseteq peers' \/ (~b /\ peers' = peers \ {p}), b => p \in peers', UNCHANGED conn
  PROVE  ToldInv'
<1> DEFINE e == [up |-> b, peer |-> p]
           n == Len(peerEvents)
<1>1. peerEvents' = Append(peerEvents, e) /\ peerEvents \in Seq([up : BOOLEAN, peer : Peers]) /\ e \in [up : BOOLEAN, peer : Peers]
  BY DEF Remote!Tell, PeersInv, ToldInv
<1>2. /\ peerEvents' \in Seq([up : BOOLEAN, peer : Peers]) /\ Len(peerEvents') = n + 1 /\ n \in Nat
      /\ \A i \in 1 .. n : peerEvents'[i] = peerEvents[i]
      /\ peerEvents'[n + 1] = e
  BY <1>1, AppendProperties
<1> HIDE DEF n, e
<1>3. ASSUME NEW q, NEW i \in 0 .. n, q \in peers \/ EndAfter(peerEvents, i, q)
      PROVE  q \in peers' \/ EndAfter(peerEvents', i, q)
  <2>1. CASE EndAfter(peerEvents, i, q)
    BY <1>2, <2>1 DEF EndAfter, n
  <2>2. CASE q \in peers /\ q \notin peers'
    <3>1. b = FALSE /\ q = p
      BY <2>2
    <3>2. n + 1 \in i + 1 .. Len(peerEvents') /\ peerEvents'[n + 1] = [up |-> FALSE, peer |-> q]
      <4>1. n + 1 \in i + 1 .. Len(peerEvents')
        BY <1>2
      <4>2. e = [up |-> FALSE, peer |-> q]
        BY <3>1 DEF e
      <4> QED
        BY <1>2, <4>1, <4>2
    <3> QED
      BY <3>2 DEF EndAfter
  <2> QED
    BY <1>3, <2>1, <2>2
<1>4. conn' # NoPeer => conn' \in peers' \/ EndAfter(peerEvents', 0, conn')
  BY <1>2, <1>3 DEF PeersInv, ToldInv
<1>5. ASSUME NEW i \in 1 .. Len(peerEvents'), peerEvents'[i].up
      PROVE  peerEvents'[i].peer \in peers' \/ EndAfter(peerEvents', i, peerEvents'[i].peer)
  <2>1. CASE i \in 1 .. n
    BY <1>2, <1>3, <1>5, <2>1 DEF PeersInv, ToldInv, n
  <2>2. CASE i = n + 1
    BY <1>2, <1>5, <2>2 DEF e
  <2> QED
    BY <1>2, <2>1, <2>2
<1> QED
  BY <1>2, <1>4, <1>5 DEF ToldInv

LEMMA ToldStep ==
  ASSUME PeersInv, Remote!ConnectTold \/ Remote!DisconnectTold
  PROVE  ToldInv'
<1>1. /\ peerEvents \in Seq([up : BOOLEAN, peer : Peers]) /\ peerEvents # <<>> /\ peerEvents' = Tail(peerEvents)
      /\ UNCHANGED peers
  BY DEF Remote!ConnectTold, Remote!DisconnectTold, PeersInv, ToldInv
<1>2. /\ peerEvents' \in Seq([up : BOOLEAN, peer : Peers]) /\ Len(peerEvents') = Len(peerEvents) - 1
      /\ Len(peerEvents) \in Nat /\ Len(peerEvents) > 0 /\ Head(peerEvents) = peerEvents[1]
      /\ \A i \in 1 .. Len(peerEvents) - 1 : peerEvents'[i] = peerEvents[i + 1]
  BY <1>1, HeadTailProperties
<1>3. ASSUME NEW i \in 1 .. Len(peerEvents), NEW q, EndAfter(peerEvents, i, q)
      PROVE  EndAfter(peerEvents', i - 1, q)
  <2>1. PICK j \in i + 1 .. Len(peerEvents) : peerEvents[j] = [up |-> FALSE, peer |-> q]
    BY <1>3 DEF EndAfter
  <2>2. j - 1 \in (i - 1) + 1 .. Len(peerEvents') /\ peerEvents'[j - 1] = peerEvents[j]
    <3>1. j - 1 \in 1 .. Len(peerEvents) - 1 /\ (j - 1) + 1 = j
      BY <1>2, <2>1
    <3> QED
      BY <1>2, <2>1, <3>1
  <2> QED
    BY <2>1, <2>2 DEF EndAfter
<1>4. conn' # NoPeer => conn' \in peers' \/ EndAfter(peerEvents', 0, conn')
  <2>1. CASE Remote!ConnectTold
    <3>1. conn' = peerEvents[1].peer /\ peerEvents[1].up /\ 1 \in 1 .. Len(peerEvents)
      BY <1>2, <2>1 DEF Remote!ConnectTold
    <3>2. conn' \in peers \/ EndAfter(peerEvents, 1, conn')
      BY <3>1 DEF PeersInv, ToldInv
    <3>3. EndAfter(peerEvents, 1, conn') => EndAfter(peerEvents', 1 - 1, conn')
      BY <1>3, <3>1
    <3> QED
      BY <1>1, <3>2, <3>3
  <2>2. CASE Remote!DisconnectTold
    BY <2>2 DEF Remote!DisconnectTold
  <2> QED
    BY <2>1, <2>2
<1>5. ASSUME NEW i \in 1 .. Len(peerEvents'), peerEvents'[i].up
      PROVE  peerEvents'[i].peer \in peers' \/ EndAfter(peerEvents', i, peerEvents'[i].peer)
  <2>1. i + 1 \in 1 .. Len(peerEvents) /\ peerEvents'[i] = peerEvents[i + 1] /\ (i + 1) - 1 = i
    BY <1>2
  <2>2. peerEvents[i + 1].peer \in peers \/ EndAfter(peerEvents, i + 1, peerEvents[i + 1].peer)
    BY <1>5, <2>1 DEF PeersInv, ToldInv
  <2>3. EndAfter(peerEvents, i + 1, peerEvents[i + 1].peer) => EndAfter(peerEvents', (i + 1) - 1, peerEvents[i + 1].peer)
    BY <1>3, <2>1
  <2> QED
    BY <1>1, <2>1, <2>2, <2>3
<1> QED
  BY <1>2, <1>4, <1>5 DEF ToldInv

LEMMA PeersStep ==
  ASSUME PeersInv, Remote!PeersNext \/ UNCHANGED peersVars
  PROVE  PeersInv'
<1>1. CASE UNCHANGED peersVars \/ Remote!PeersInit
  <2>1. peersUp' \in BOOLEAN /\ UNCHANGED <<peers, peerEvents, conn>>
    BY <1>1 DEF peersVars, Remote!PeersInit, PeersInv, Remote!PeersTypeOK
  <2> QED
    BY <2>1 DEF PeersInv, ToldInv, Remote!PeersTypeOK
<1>2. CASE Remote!PeersDeinit
  <2>1. peersUp' = FALSE /\ peers' = {} /\ peerEvents' = <<>> /\ conn' = NoPeer
    BY <1>2 DEF Remote!PeersDeinit
  <2>2. /\ Len(peerEvents') = 0 /\ peerEvents' \in Seq([up : BOOLEAN, peer : Peers])
        /\ Len(peerEvents') <= PeerEventRoom
    BY <2>1, PeersAssumption
  <2>3. ToldInv'
    BY <2>1, <2>2 DEF ToldInv
  <2>4. Remote!PeersTypeOK'
    BY <2>1, <2>2 DEF Remote!PeersTypeOK
  <2> QED
    BY <2>3, <2>4 DEF PeersInv
<1>3. ASSUME NEW p \in Peers, Remote!PeerConnects(p) \/ Remote!PeerEnds(p)
      PROVE  PeersInv'
  <2>1. ToldInv'
    <3>1. CASE Remote!PeerConnects(p)
      BY <3>1, TellStep DEF Remote!PeerConnects
    <3>2. CASE Remote!PeerEnds(p)
      BY <3>2, TellStep DEF Remote!PeerEnds
    <3> QED
      BY <1>3, <3>1, <3>2
  <2>2. PICK b \in BOOLEAN : Remote!Tell(b, p)
    BY <1>3 DEF Remote!PeerConnects, Remote!PeerEnds
  <2>3. Len(peerEvents') <= PeerEventRoom
    <3>1. peerEvents \in Seq([up : BOOLEAN, peer : Peers]) /\ Len(peerEvents) < PeerEventRoom
          /\ peerEvents' = Append(peerEvents, [up |-> b, peer |-> p])
      BY <2>2 DEF PeersInv, ToldInv, Remote!Tell
    <3>2. Len(peerEvents') = Len(peerEvents) + 1
      BY <3>1, AppendProperties
    <3> QED
      BY <3>1, <3>2, PeersAssumption
  <2> QED
    BY <1>3, <2>1, <2>3 DEF PeersInv, ToldInv, Remote!PeersTypeOK, Remote!PeerConnects, Remote!PeerEnds
<1>4. CASE Remote!ConnectTold \/ Remote!DisconnectTold
  <2>1. ToldInv'
    BY <1>4, ToldStep
  <2>2. /\ peerEvents \in Seq([up : BOOLEAN, peer : Peers]) /\ peerEvents # <<>> /\ peerEvents' = Tail(peerEvents)
        /\ Len(peerEvents) <= PeerEventRoom
    BY <1>4 DEF Remote!ConnectTold, Remote!DisconnectTold, PeersInv, ToldInv, Remote!PeersTypeOK
  <2>3. Len(peerEvents') <= PeerEventRoom /\ Head(peerEvents).peer \in Peers
    <3>1. Len(peerEvents') = Len(peerEvents) - 1 /\ Head(peerEvents) \in [up : BOOLEAN, peer : Peers]
      BY <2>2, HeadTailProperties
    <3> QED
      BY <2>2, <3>1, PeersAssumption
  <2> QED
    BY <1>4, <2>1, <2>3 DEF PeersInv, ToldInv, Remote!PeersTypeOK, Remote!ConnectTold, Remote!DisconnectTold
<1>5. CASE Remote!Disconnect
  <2>1. conn \in Peers /\ Remote!PeerEnds(conn)
    BY <1>5 DEF Remote!Disconnect, Remote!CanNotify, Remote!BdIsConnected, PeersInv, Remote!PeersTypeOK
  <2>2. PICK p \in Peers : p = conn
    BY <2>1
  <2>3. Remote!PeerEnds(p)
    BY <2>1, <2>2
  <2> QED
    BY <1>3, <2>3
<1> QED
  BY <1>1, <1>2, <1>3, <1>4, <1>5 DEF Remote!PeersNext

LEMMA PeersAlways == AllSpec => []PeersInv
<1>1. AllInit => PeersInv
  <2> SUFFICES ASSUME Remote!PeersStart
               PROVE  PeersInv
    BY DEF AllInit
  <2>1. peersUp = FALSE /\ peers = {} /\ peerEvents = <<>> /\ conn = NoPeer
    BY DEF Remote!PeersStart
  <2>2. /\ Len(peerEvents) = 0 /\ peerEvents \in Seq([up : BOOLEAN, peer : Peers])
        /\ Len(peerEvents) <= PeerEventRoom
    BY <2>1, PeersAssumption
  <2>3. ToldInv
    BY <2>1, <2>2 DEF ToldInv
  <2>4. Remote!PeersTypeOK
    BY <2>1, <2>2 DEF Remote!PeersTypeOK
  <2> QED
    BY <2>3, <2>4 DEF PeersInv
<1>2. PeersInv /\ [AllNext]_allVars => PeersInv'
  <2> SUFFICES ASSUME PeersInv, [AllNext]_allVars
               PROVE  PeersInv'
    OBVIOUS
  <2>1. Remote!PeersNext \/ UNCHANGED peersVars
    BY DEF AllNext, allVars, Network, Platform, HubClient, HubStation, Local, NimbleDriver,
           BluedroidAir, BluedroidLinks, BluedroidTable
  <2> QED
    BY <2>1, PeersStep
<1> QED
  BY <1>1, <1>2, PTL DEF AllSpec, allVars

LEMMA NotifiedRight ==
  ASSUME PeersInv
  PROVE  Remote!NotifiesPeer
<1>1. ASSUME EndAfter(peerEvents, 0, conn)
      PROVE  \E i \in 1 .. Len(peerEvents) : peerEvents[i] = [up |-> FALSE, peer |-> conn]
  BY <1>1 DEF EndAfter
<1> QED
  BY <1>1 DEF PeersInv, ToldInv, Remote!NotifiesPeer, Remote!CanNotify, Remote!BdIsConnected

-----------------------------------------------------------------------------
(* Mqtt.cpp: whoever registered hears                                      *)

(* The callback k is subscribed, or known not to be, or still to come in    *)
(* the loop of on_connected.                                                 *)
Covered(k) ==
  \/ actionCallbacks[k] \in subscribed \cup unheard
  \/ loop # 0 /\ k \in loop .. loopEnd

(* While the session is up every callback is covered, or its thread has not *)
(* come to the second half of addActionCallback, and finds connected set.    *)
HeardInv ==
  link = "up" =>
    /\ loop = 0 => connected
    /\ \A k \in 1 .. Len(actionCallbacks) :
         Covered(k) \/ (loop = 0 /\ \E t \in HubThreads : adding[t] = actionCallbacks[k])

HubInv == Hub!HubTypeOK /\ HeardInv

LEMMA HubBegins ==
  ASSUME Hub!HubStart
  PROVE  HubInv
<1>1. actionCallbacks \in Seq(Filters) /\ Len(actionCallbacks) = 0
  BY DEF Hub!HubStart
<1> QED
  BY <1>1 DEF Hub!HubStart, Hub!NoFilter, HubInv, Hub!HubTypeOK, HeardInv

LEMMA CallbackTyped ==
  ASSUME HubInv, NEW k \in 1 .. Len(actionCallbacks)
  PROVE  actionCallbacks[k] \in Filters
BY DEF HubInv, Hub!HubTypeOK

(* The session, on the task of the client. *)
LEMMA SessionStep ==
  ASSUME HubInv, Hub!SessionBegins \/ Hub!Resubscribe \/ Hub!ConnectedSet \/ Hub!LinkLost \/ Hub!LossNoticed
  PROVE  HubInv'
<1>0. Len(actionCallbacks) \in Nat
  BY DEF HubInv, Hub!HubTypeOK
<1> USE DEF HubInv, Hub!HubTypeOK, HeardInv, Covered
<1>1. CASE Hub!SessionBegins
  BY <1>0, <1>1 DEF Hub!SessionBegins
<1>2. CASE Hub!Resubscribe
  <2>1. loop \in 1 .. Len(actionCallbacks) /\ loop \in 1 .. loopEnd
    BY <1>0, <1>2 DEF Hub!Resubscribe
  <2>2. actionCallbacks[loop] \in Filters
    BY <2>1, CallbackTyped
  <2>3. /\ subscribed \subseteq subscribed' /\ unheard \subseteq unheard'
        /\ actionCallbacks[loop] \in subscribed' \cup unheard'
        /\ subscribed' \subseteq Filters /\ unheard' \subseteq Filters
    BY <1>2, <2>2 DEF Hub!Resubscribe, Hub!SubscribeTo
  <2>4. loop' = loop + 1 /\ UNCHANGED <<link, actionCallbacks, connected, loopEnd, adding>>
    BY <1>2 DEF Hub!Resubscribe
  <2> QED
    BY <1>0, <2>1, <2>3, <2>4
<1>3. CASE Hub!ConnectedSet
  BY <1>0, <1>3 DEF Hub!ConnectedSet
<1>4. CASE Hub!LinkLost
  BY <1>0, <1>4 DEF Hub!LinkLost
<1>5. CASE Hub!LossNoticed
  BY <1>0, <1>5 DEF Hub!LossNoticed
<1> QED
  BY <1>1, <1>2, <1>3, <1>4, <1>5

(* addActionCallback, its two halves. *)
LEMMA PushStep ==
  ASSUME HubInv, NEW t \in HubThreads, NEW f \in Filters, Hub!PushCallback(t, f)
  PROVE  HubInv'
<1>1. /\ actionCallbacks \in Seq(Filters) /\ actionCallbacks' = Append(actionCallbacks, f)
      /\ adding' = [adding EXCEPT ![t] = f] /\ adding[t] = <<>>
      /\ unheard' = IF loop = 0 THEN unheard ELSE unheard \cup {f}
      /\ UNCHANGED <<link, subscribed, connected, loop, loopEnd>>
  BY DEF Hub!PushCallback, Hub!NoFilter, HubInv, Hub!HubTypeOK
<1>2. /\ actionCallbacks' \in Seq(Filters)
      /\ Len(actionCallbacks') = Len(actionCallbacks) + 1 /\ Len(actionCallbacks) \in Nat
      /\ \A k \in 1 .. Len(actionCallbacks) : actionCallbacks'[k] = actionCallbacks[k]
      /\ actionCallbacks'[Len(actionCallbacks) + 1] = f
  BY <1>1
<1>3. Hub!HubTypeOK'
  BY <1>1, <1>2 DEF HubInv, Hub!HubTypeOK
<1>4. ASSUME link = "up"
      PROVE  \A k \in 1 .. Len(actionCallbacks) + 1 :
               Covered(k)' \/ (loop' = 0 /\ \E u \in HubThreads : adding'[u] = actionCallbacks'[k])
  <2>1. ASSUME NEW k \in 1 .. Len(actionCallbacks)
        PROVE  Covered(k)' \/ (loop' = 0 /\ \E u \in HubThreads : adding'[u] = actionCallbacks'[k])
    <3>1. CASE Covered(k)
      BY <1>1, <1>2, <3>1 DEF Covered
    <3>2. ASSUME loop = 0, NEW u \in HubThreads, adding[u] = actionCallbacks[k]
          PROVE  adding'[u] = actionCallbacks'[k]
      <4>1. actionCallbacks[k] # <<>>
        BY CallbackTyped, HubAssumption
      <4> QED
        BY <1>1, <1>2, <3>2, <4>1 DEF HubInv, Hub!HubTypeOK
    <3> QED
      BY <1>1, <1>4, <3>1, <3>2 DEF HubInv, HeardInv
  <2>2. ASSUME NEW k, k = Len(actionCallbacks) + 1
        PROVE  Covered(k)' \/ (loop' = 0 /\ \E u \in HubThreads : adding'[u] = actionCallbacks'[k])
    <3>1. actionCallbacks'[k] = f /\ adding'[t] = f
      BY <1>1, <1>2, <2>2 DEF HubInv, Hub!HubTypeOK
    <3>2. CASE loop = 0
      BY <1>1, <3>1, <3>2
    <3>3. CASE loop # 0
      BY <1>1, <3>1, <3>3 DEF Covered
    <3> QED
      BY <3>2, <3>3
  <2>3. \A k \in 1 .. Len(actionCallbacks) + 1 : k \in 1 .. Len(actionCallbacks) \/ k = Len(actionCallbacks) + 1
    BY <1>2
  <2> QED
    BY <2>1, <2>2, <2>3
<1> QED
  BY <1>1, <1>2, <1>3, <1>4 DEF HubInv, HeardInv

LEMMA SubscribeStep ==
  ASSUME HubInv, NEW t \in HubThreads, Hub!SubscribeNew(t)
  PROVE  HubInv'
<1>1. /\ adding[t] # <<>> /\ adding' = [adding EXCEPT ![t] = <<>>] /\ adding[t] \in Filters
      /\ UNCHANGED <<link, actionCallbacks, connected, loop, loopEnd>>
  BY DEF Hub!SubscribeNew, Hub!NoFilter, HubInv, Hub!HubTypeOK
<1>2. /\ subscribed \subseteq subscribed' /\ unheard \subseteq unheard'
      /\ subscribed' \subseteq Filters /\ unheard' \subseteq Filters
      /\ connected => adding[t] \in subscribed' \cup unheard'
  BY <1>1 DEF Hub!SubscribeNew, Hub!SubscribeTo, HubInv, Hub!HubTypeOK
<1>3. Hub!HubTypeOK'
  BY <1>1, <1>2 DEF HubInv, Hub!HubTypeOK, Hub!NoFilter
<1>4. ASSUME link = "up", NEW k \in 1 .. Len(actionCallbacks)
      PROVE  Covered(k)' \/ (loop' = 0 /\ \E u \in HubThreads : adding'[u] = actionCallbacks'[k])
  <2>1. CASE Covered(k)
    BY <1>1, <1>2, <2>1 DEF Covered
  <2>2. CASE loop = 0 /\ adding[t] = actionCallbacks[k]
    BY <1>1, <1>2, <1>4, <2>2 DEF Covered, HubInv, HeardInv
  <2>3. ASSUME NEW u \in HubThreads, u # t, loop = 0, adding[u] = actionCallbacks[k]
        PROVE  loop' = 0 /\ adding'[u] = actionCallbacks'[k]
    BY <1>1, <2>3 DEF HubInv, Hub!HubTypeOK
  <2> QED
    BY <1>4, <2>1, <2>2, <2>3 DEF HubInv, HeardInv
<1> QED
  BY <1>1, <1>3, <1>4 DEF HubInv, HeardInv

(* What the broker sends for a filter matches it in checkMqttTopic, but for *)
(* the parent level of 'a/#'.                                                *)
LEMMA SentMatches ==
  ASSUME NEW topic \in Seq(STRING), NEW f \in Seq(STRING), f # <<>>,
         Hub!BrokerSends(topic, f), Len(topic) + 1 # Len(f)
  PROVE  Hub!Matches(topic, f)
<1>1. Len(f) \in Nat \ {0} /\ Len(topic) \in Nat
  OBVIOUS
<1>2. CASE f[Len(f)] = "#"
  <2>1. Len(topic) >= Len(f) - 1 /\ \A j \in 1 .. Len(f) - 1 : f[j] \in {"+", topic[j]}
    BY <1>1, <1>2 DEF Hub!BrokerSends
  <2>2. Len(f) \in 1 .. Len(topic)
    BY <1>1, <2>1
  <2> QED
    BY <1>1, <1>2, <2>1, <2>2 DEF Hub!Matches
<1>3. CASE f[Len(f)] # "#"
  <2>1. Len(topic) = Len(f) /\ \A j \in 1 .. Len(f) : f[j] \in {"+", topic[j]}
    BY <1>1, <1>3 DEF Hub!BrokerSends
  <2> QED
    BY <2>1 DEF Hub!Matches
<1> QED
  BY <1>2, <1>3

(* A set of positions has a first one: of the intervals up to each, one     *)
(* holds no other.                                                           *)
LEMMA FirstPosition ==
  ASSUME NEW n \in Nat, NEW S \in SUBSET (1 .. n), S # {}
  PROVE  \E m \in S : \A l \in S : m <= l
<1> DEFINE T == {1 .. k : k \in S}
<1>1. \A k \in S : k \in Nat /\ 1 .. k \in FiniteSubsetsOf(Nat)
  <2> SUFFICES ASSUME NEW k \in S
               PROVE  k \in Nat /\ 1 .. k \in FiniteSubsetsOf(Nat)
    OBVIOUS
  <2>1. IsFiniteSet(1 .. k)
    BY FS_Interval
  <2> QED
    BY <2>1 DEF FiniteSubsetsOf
<1>2. T \subseteq FiniteSubsetsOf(Nat) /\ T # {}
  BY <1>1
<1>3. PICK x \in T : \A y \in T : <<y, x>> \notin StrictSubsetOrdering(Nat)
  <2>1. IsWellFoundedOn(StrictSubsetOrdering(Nat), FiniteSubsetsOf(Nat))
    BY FS_StrictSubsetOrderingWellFounded
  <2> HIDE DEF T
  <2> QED
    BY <1>2, <2>1, WFMin
<1>4. PICK m \in S : x = 1 .. m
  OBVIOUS
<1>5. ASSUME NEW l \in S, l < m
      PROVE  FALSE
  <2>1. 1 .. l \subseteq 1 .. m /\ 1 .. l # 1 .. m
    <3>1. m \in 1 .. m /\ m \notin 1 .. l
      BY <1>1, <1>5
    <3> QED
      BY <1>1, <1>5, <3>1
  <2>2. 1 .. l \in SUBSET Nat /\ 1 .. m \in SUBSET Nat
    OBVIOUS
  <2>3. <<1 .. l, 1 .. m>> \in StrictSubsetOrdering(Nat)
    BY <2>1, <2>2 DEF StrictSubsetOrdering
  <2> QED
    BY <1>3, <1>4, <2>3
<1> QED
  BY <1>1, <1>5

LEMMA FoundFirst ==
  ASSUME HubInv, NEW topic, NEW k \in 1 .. Len(actionCallbacks), Hub!Matches(topic, actionCallbacks[k])
  PROVE  Hub!Found(topic) \in 1 .. k
<1> DEFINE fit == {l \in 1 .. Len(actionCallbacks) : Hub!Matches(topic, actionCallbacks[l])}
<1>1. Len(actionCallbacks) \in Nat /\ fit \in SUBSET (1 .. Len(actionCallbacks)) /\ k \in fit
  BY DEF HubInv, Hub!HubTypeOK
<1>2. Hub!Found(topic) = CHOOSE m \in fit : \A l \in fit : m <= l
  BY <1>1 DEF Hub!Found
<1> HIDE DEF fit
<1>3. \E m \in fit : \A l \in fit : m <= l
  BY <1>1, FirstPosition
<1>4. Hub!Found(topic) \in fit /\ Hub!Found(topic) <= k
  BY <1>1, <1>2, <1>3
<1>5. Hub!Found(topic) \in 1 .. Len(actionCallbacks)
  BY <1>1, <1>4
<1> QED
  BY <1>1, <1>4, <1>5

LEMMA HubAlways == AllSpec => []HubInv
<1>1. AllInit => HubInv
  BY HubBegins DEF AllInit
<1>2. HubInv /\ [AllNext]_allVars => HubInv'
  <2> SUFFICES ASSUME HubInv, [AllNext]_allVars
               PROVE  HubInv'
    OBVIOUS
  <2>1. Hub!HubNext \/ UNCHANGED hubVars
    BY DEF AllNext, allVars, Network, Platform, HubClient, HubStation, Local, NimbleDriver,
           BluedroidAir, BluedroidLinks, BluedroidTable
  <2>2. CASE UNCHANGED hubVars
    BY <2>2 DEF hubVars, HubInv, Hub!HubTypeOK, HeardInv, Covered
  <2> QED
    BY <2>1, <2>2, SessionStep, PushStep, SubscribeStep DEF Hub!HubNext
<1> QED
  BY <1>1, <1>2, PTL DEF AllSpec, allVars

(* Whoever registered a filter hears what is published under it while the   *)
(* session is up, for any threads and filters: the broker has the filter, and *)
(* what it sends for it reaches a callback no later than its own.            *)
THEOREM EverybodyHears == AllSpec => []RegisteredIsHeard
<1>1. HubInv => RegisteredIsHeard
  <2> SUFFICES ASSUME HubInv, link = "up", loop = 0, \A t \in HubThreads : adding[t] = Hub!NoFilter,
                      NEW k \in 1 .. Len(actionCallbacks), actionCallbacks[k] \notin unheard
               PROVE  /\ actionCallbacks[k] \in subscribed
                      /\ \A topic \in Topics :
                           Hub!BrokerSends(topic, actionCallbacks[k]) /\ Len(topic) + 1 # Len(actionCallbacks[k])
                             => Hub!Found(topic) \in 1 .. k
    BY DEF RegisteredIsHeard, Hub!RegisteredIsHeard
  <2>1. actionCallbacks[k] \in Filters /\ actionCallbacks[k] # <<>> /\ actionCallbacks[k] \in Seq(STRING)
    BY CallbackTyped, HubAssumption
  <2>2. actionCallbacks[k] \in subscribed
    BY <2>1 DEF HubInv, HeardInv, Covered, Hub!NoFilter
  <2>3. ASSUME NEW topic \in Topics, Hub!BrokerSends(topic, actionCallbacks[k]),
               Len(topic) + 1 # Len(actionCallbacks[k])
        PROVE  Hub!Found(topic) \in 1 .. k
    <3>1. topic \in Seq(STRING)
      BY HubAssumption
    <3>2. Hub!Matches(topic, actionCallbacks[k])
      BY <2>1, <2>3, <3>1, SentMatches
    <3> QED
      BY <3>2, FoundFirst
  <2> QED
    BY <2>2, <2>3
<1> QED
  BY <1>1, HubAlways, PTL

-----------------------------------------------------------------------------
(* IOT_BleMgmtNimble.c: an access reaches what was registered for it        *)

NimbleEntries == [uuid : Uuids \cup {Nimble!NoUuid}, cb : Nat, handle : 0 .. ServiceRoom]

(* The counted entries that NimBLE has been asked for, or never will be. *)
AskedOf(at, s, d) == IF at = "register" THEN s - d ELSE s
AskedFor == AskedOf(nimblePc, services, Len(toAdd))

(* A table of e entries of which s count, of a call at a place that has d      *)
(* still to register: these are the last of it; and of the a attributes each   *)
(* has one of the others.                                                      *)
Sizes(at, e, a, d, s) ==
  /\ e \in Nat /\ a \in Nat /\ d \in Nat /\ s \in Nat
  /\ s <= e /\ e <= ServiceRoom /\ a <= AskedOf(at, s, d)
  /\ at \in {"ready", "moved", "filled", "register"} /\ (at \in {"ready", "moved"} => d = 0)
  /\ at = "filled" => e = s + d
  /\ at = "register" => e = s /\ d <= s

TableTyped ==
  /\ accessDiff \in Seq(NimbleEntries) /\ attrs \in Seq([uuid : Uuids, cb : Nat]) /\ toAdd \in Seq(Uuids)
  /\ calls \in 0 .. CallRoom

(* What a call has still to register is filled in, in its order, and has no   *)
(* handle.                                                                     *)
ToRegister(e, d, cb) ==
  \A j \in 1 .. Len(d) : e[Len(e) - Len(d) + j] = [uuid |-> d[j], cb |-> cb, handle |-> 0]

(* The attributes of the call under way, or of the last one, are the last.     *)
LatestLast(a, cb) ==
  /\ \A h \in 1 .. Len(a) : a[h].cb <= cb
  /\ \A g, h \in 1 .. Len(a) : g < h /\ a[g].cb = cb => a[h].cb = cb

TableShape ==
  /\ TableTyped /\ Sizes(nimblePc, Len(accessDiff), Len(attrs), Len(toAdd), services)
  /\ ToRegister(accessDiff, toAdd, calls) /\ LatestLast(attrs, calls)
  /\ nimblePc # "ready" => calls # 0

OnlyOneOf(a, h) ==
  a[h].cb # 0 /\ \A g \in 1 .. Len(a) : a[g].uuid = a[h].uuid /\ g # h => g < h /\ a[g].cb = 0

(* Of the attributes a, and of a table e of which s entries count and n are   *)
(* asked for: every attribute whose definitions are there has the entry it was *)
(* registered with, which keeps its handle unless the UUID comes again;        *)
HasEntry(a, e, n) ==
  \A h \in 1 .. Len(a) : a[h].cb # 0 =>
    \E p \in 1 .. n : e[p].uuid = a[h].uuid /\ e[p].cb = a[h].cb /\ (OnlyOneOf(a, h) => e[p].handle = h)
(* every entry asked for is an attribute's, or was emptied;                    *)
HasAttribute(a, e, n) ==
  \A i \in 1 .. n : e[i].uuid # Nimble!NoUuid =>
    e[i].cb # 0 /\ \E h \in 1 .. Len(a) : a[h].uuid = e[i].uuid /\ a[h].cb = e[i].cb
(* two entries are not one attribute's;                                        *)
TwoOf(a, u, x, y) ==
  \E g, h \in 1 .. Len(a) : g # h /\ a[g].uuid = u /\ a[h].uuid = u /\ a[g].cb = x /\ a[h].cb = y
SharedByTwo(a, e, n) ==
  \A i, j \in 1 .. n : e[i].uuid = e[j].uuid /\ e[i].uuid # Nimble!NoUuid /\ i # j =>
    TwoOf(a, e[i].uuid, e[i].cb, e[j].cb)
(* and no handle is at an entry with another UUID.                             *)
HandleFits(a, e, s) ==
  \A i \in 1 .. s : e[i].handle # 0 => e[i].handle \in 1 .. Len(a) /\ a[e[i].handle].uuid = e[i].uuid

WellRegistered(a, e, n, s) == HasEntry(a, e, n) /\ HasAttribute(a, e, n) /\ SharedByTwo(a, e, n) /\ HandleFits(a, e, s)

(* All of that until the stack is stopped. *)
TableInv == TableShape /\ (~reused => WellRegistered(attrs, accessDiff, AskedFor, services))

(* The rest: the stack's own state, and the connection that is noted. *)
LinkInv ==
  /\ host \in BOOLEAN /\ nimbleInitialized \in BOOLEAN /\ isBleConnected \in BOOLEAN
  /\ reused \in BOOLEAN /\ links \subseteq Links /\ {current, ended} \subseteq Links \cup {NoLink}
  /\ advertising \in {"no", "asked", "other", "beacon"} /\ nimbleCbs \subseteq {"CONNECTED"}
  /\ isBleConnected /\ current # NoLink => current \in links \cup {ended}

NimbleInv == TableInv /\ LinkInv

LEMMA LinkStep ==
  ASSUME LinkInv, Nimble!NimbleNext
  PROVE  LinkInv'
<1>1. CASE Nimble!NimbleInit \/ Nimble!NimbleDeinit \/ Nimble!PortStops
  <2>1. CASE Nimble!NimbleInit
    BY <2>1 DEF Nimble!NimbleInit, LinkInv
  <2>2. CASE Nimble!NimbleDeinit
    BY <2>2 DEF Nimble!NimbleDeinit, LinkInv
  <2>3. CASE Nimble!PortStops
    <3>1. UNCHANGED <<links, ended, nimbleInitialized, nimbleCbs, current, isBleConnected>>
      BY <2>3 DEF Nimble!PortStops
    <3>2. host' = FALSE /\ advertising' = "no" /\ reused' = TRUE
      BY <2>3 DEF Nimble!PortStops
    <3> QED
      BY <3>1, <3>2 DEF LinkInv
  <2> QED
    BY <1>1, <2>1, <2>2, <2>3
<1>2. ASSUME NEW uuids, Nimble!AddServices(uuids)
      PROVE  LinkInv'
  <2>1. UNCHANGED <<host, links, ended, advertising, nimbleInitialized, nimbleCbs, current, isBleConnected, reused>>
    BY <1>2 DEF Nimble!AddServices
  <2> QED
    BY <2>1 DEF LinkInv
<1>3. CASE \/ Nimble!MoveTable \/ Nimble!CountServices \/ Nimble!RegisterService
           \/ Nimble!AddingEnds \/ Nimble!RegisterFails
  <2>1. UNCHANGED <<host, links, ended, advertising, nimbleInitialized, nimbleCbs, current, isBleConnected, reused>>
    BY <1>3 DEF Nimble!MoveTable, Nimble!CountServices, Nimble!RegisterService, Nimble!AddingEnds, Nimble!RegisterFails
  <2> QED
    BY <2>1 DEF LinkInv
<1>4. CASE Nimble!StartAdvertising \/ Nimble!StartBeacon \/ Nimble!StopAdvertising \/ Nimble!Notify
  <2>1. CASE Nimble!StartAdvertising
    BY <2>1 DEF Nimble!StartAdvertising, LinkInv
  <2>2. CASE Nimble!StartBeacon
    BY <2>2 DEF Nimble!StartBeacon, LinkInv
  <2>3. CASE Nimble!StopAdvertising
    BY <2>3 DEF Nimble!StopAdvertising, LinkInv
  <2>4. CASE Nimble!Notify
    BY <2>4 DEF Nimble!Notify, LinkInv
  <2> QED
    BY <1>4, <2>1, <2>2, <2>3, <2>4
<1>5. ASSUME NEW l \in Links, Nimble!Connected(l)
      PROVE  LinkInv'
  BY <1>5 DEF Nimble!Connected, LinkInv
<1>6. CASE Nimble!Disconnected \/ \E l \in Links : Nimble!LinkEnds(l)
  <2>1. CASE Nimble!Disconnected
    BY <2>1 DEF Nimble!Disconnected, Nimble!Forget, LinkInv
  <2>2. ASSUME NEW l \in Links, Nimble!LinkEnds(l)
        PROVE  LinkInv'
    BY <2>2 DEF Nimble!LinkEnds, LinkInv
  <2> QED
    BY <1>6, <2>1, <2>2
<1>7. CASE Nimble!ConnectFails
  BY <1>7 DEF Nimble!ConnectFails, Nimble!Forget, LinkInv
<1>8. ASSUME NEW e \in {"CONNECTED"}, Nimble!NimbleRegister(e) \/ Nimble!NimbleUnregister(e)
      PROVE  LinkInv'
  <2>1. CASE Nimble!NimbleRegister(e)
    BY <2>1 DEF Nimble!NimbleRegister, LinkInv
  <2>2. CASE Nimble!NimbleUnregister(e)
    BY <2>2 DEF Nimble!NimbleUnregister, LinkInv
  <2> QED
    BY <1>8, <2>1, <2>2
<1> QED
  BY <1>1, <1>2, <1>3, <1>4, <1>5, <1>6, <1>7, <1>8 DEF Nimble!NimbleNext, Nimble!LinkEvents

(* The table's entries, as records. *)
LEMMA EntryShape ==
  ASSUME TableTyped, NEW i \in 1 .. Len(accessDiff)
  PROVE  accessDiff[i] \in NimbleEntries
BY DEF TableTyped

LEMMA IsSequence ==
  ASSUME NEW S, NEW n \in Nat, NEW f \in [1 .. n -> S]
  PROVE  f \in Seq(S) /\ Len(f) = n
OBVIOUS

(* The first s entries are as they were, and so is what is said of them.      *)
LEMMA RegisteredStays ==
  ASSUME NEW a, NEW e, NEW f, NEW n \in Nat, NEW s \in Nat, n <= s,
         \A i \in 1 .. s : f[i] = e[i], WellRegistered(a, e, n, s)
  PROVE  WellRegistered(a, f, n, s)
<1>1. \A i \in 1 .. n : f[i] = e[i]
  OBVIOUS
<1>2. HasEntry(a, f, n)
  BY <1>1 DEF WellRegistered, HasEntry
<1>3. HasAttribute(a, f, n)
  BY <1>1 DEF WellRegistered, HasAttribute
<1>4. SharedByTwo(a, f, n)
  BY <1>1 DEF WellRegistered, SharedByTwo
<1>5. HandleFits(a, f, s)
  BY DEF WellRegistered, HandleFits
<1> QED
  BY <1>2, <1>3, <1>4, <1>5 DEF WellRegistered

(* More entries that count have no handle, or, if they are asked for, no UUID. *)
LEMMA RegisteredGrows ==
  ASSUME NEW a, NEW e, NEW n \in Nat, NEW s \in Nat, NEW m \in Nat, NEW t \in Nat, n <= s, n <= m,
         \A i \in n + 1 .. m : e[i].uuid = Nimble!NoUuid,
         \A i \in 1 .. t : i \in 1 .. s \/ e[i].handle = 0,
         WellRegistered(a, e, n, s)
  PROVE  WellRegistered(a, e, m, t)
<1>1. \A i \in 1 .. m : e[i].uuid # Nimble!NoUuid => i \in 1 .. n
  OBVIOUS
<1>2. HasEntry(a, e, m)
  <2>1. \A i \in 1 .. n : i \in 1 .. m
    OBVIOUS
  <2> QED
    BY <2>1 DEF WellRegistered, HasEntry
<1>3. HasAttribute(a, e, m)
  BY <1>1 DEF WellRegistered, HasAttribute
<1>4. SharedByTwo(a, e, m)
  BY <1>1 DEF WellRegistered, SharedByTwo
<1>5. HandleFits(a, e, t)
  BY DEF WellRegistered, HandleFits
<1> QED
  BY <1>2, <1>3, <1>4, <1>5 DEF WellRegistered

(* Steps that leave the table and the attributes alone. *)
LEMMA TableUntouched ==
  ASSUME TableInv, UNCHANGED <<attrs, accessDiff, services, toAdd, nimblePc, calls, reused>>
  PROVE  TableInv'
<1>1. AskedFor' = AskedFor
  BY DEF AskedFor
<1> QED
  BY <1>1 DEF TableInv, TableShape, TableTyped

(* A call fills as many entries as it has services, after those that count. *)
LEMMA FilledShape ==
  ASSUME TableTyped, services \in Nat, services <= Len(accessDiff),
         NEW f \in Seq(NimbleEntries), NEW CONSTANT g, g = SubSeq(accessDiff, 1, services) \o f
  PROVE  /\ g \in Seq(NimbleEntries) /\ Len(g) = services + Len(f)
         /\ \A i \in 1 .. services : g[i] = accessDiff[i]
         /\ \A j \in 1 .. Len(f) : g[services + j] = f[j]
<1> DEFINE before == SubSeq(accessDiff, 1, services)
<1>1. before \in Seq(NimbleEntries) /\ Len(before) = services /\ \A i \in 1 .. services : before[i] = accessDiff[i]
  BY SubSeqProperties DEF TableTyped
<1> HIDE DEF before
<1>2. Len(f) \in Nat /\ g = before \o f
  BY DEF before
<1>3. /\ g \in Seq(NimbleEntries) /\ Len(g) = services + Len(f)
      /\ \A i \in 1 .. services + Len(f) : g[i] = IF i <= services THEN before[i] ELSE f[i - services]
  BY <1>1, <1>2, ConcatProperties
<1>4. \A j \in 1 .. Len(f) : services + j \in 1 .. services + Len(f) /\ ~(services + j <= services)
                             /\ services + j - services = j
  BY <1>2
<1>5. \A i \in 1 .. services : i \in 1 .. services + Len(f) /\ i <= services
  BY <1>2
<1> QED
  BY <1>1, <1>3, <1>4, <1>5

LEMMA AddTable ==
  ASSUME TableInv, NEW uuids \in Seq(Uuids), Nimble!AddServices(uuids)
  PROVE  TableInv'
<1> DEFINE f == Nimble!Filled(uuids, calls)
           e == Nimble!Emptied(uuids)
<1>1. /\ nimblePc = "moved" /\ services + Len(uuids) <= ServiceRoom
      /\ \/ accessDiff' = SubSeq(accessDiff, 1, services) \o f /\ toAdd' = uuids /\ nimblePc' = "filled"
         \/ accessDiff' = SubSeq(accessDiff, 1, services) \o e /\ nimblePc' = "ready" /\ UNCHANGED toAdd
      /\ UNCHANGED <<attrs, services, calls, reused>>
  BY DEF Nimble!AddServices
<1>2. /\ TableTyped /\ services \in Nat /\ services <= Len(accessDiff) /\ Len(toAdd) = 0
      /\ Len(attrs) \in Nat /\ Len(attrs) <= services /\ Len(accessDiff) <= ServiceRoom /\ Len(accessDiff) \in Nat
      /\ LatestLast(attrs, calls) /\ calls # 0
  BY <1>1 DEF TableInv, TableShape, Sizes, AskedOf
<1>3. calls \in Nat /\ calls' \in 0 .. CallRoom /\ Len(uuids) \in Nat
  BY <1>1, <1>2, NimbleAssumption DEF TableTyped
<1>4. f \in Seq(NimbleEntries) /\ Len(f) = Len(uuids)
      /\ \A j \in 1 .. Len(uuids) : f[j] = [uuid |-> uuids[j], cb |-> calls, handle |-> 0]
  <2>1. \A j \in 1 .. Len(uuids) : [uuid |-> uuids[j], cb |-> calls, handle |-> 0] \in NimbleEntries
    BY <1>3, NimbleAssumption DEF NimbleEntries
  <2>2. f = [j \in 1 .. Len(uuids) |-> [uuid |-> uuids[j], cb |-> calls, handle |-> 0]]
    BY DEF Nimble!Filled
  <2> HIDE DEF f
  <2>3. f \in [1 .. Len(uuids) -> NimbleEntries]
    BY <2>1, <2>2
  <2>4. f \in Seq(NimbleEntries) /\ Len(f) = Len(uuids)
    BY ONLY <1>3, <2>3, IsSequence
  <2> QED
    BY <2>2, <2>4
<1>5. e \in Seq(NimbleEntries) /\ Len(e) = Len(uuids)
  <2>1. Nimble!Freed \in NimbleEntries
    BY NimbleAssumption DEF NimbleEntries, Nimble!Freed
  <2>2. e = [j \in 1 .. Len(uuids) |-> Nimble!Freed]
    BY DEF Nimble!Emptied
  <2> HIDE DEF e
  <2>3. e \in [1 .. Len(uuids) -> NimbleEntries]
    BY <2>1, <2>2
  <2> QED
    BY ONLY <1>3, <2>3, IsSequence
<1> HIDE DEF f, e
<1>6. AskedFor = services /\ AskedFor' = services
  BY <1>1 DEF AskedFor, AskedOf
<1>7. CASE accessDiff' = SubSeq(accessDiff, 1, services) \o f /\ toAdd' = uuids /\ nimblePc' = "filled"
  <2>1. /\ accessDiff' \in Seq(NimbleEntries) /\ Len(accessDiff') = services + Len(uuids)
        /\ \A i \in 1 .. services : accessDiff'[i] = accessDiff[i]
        /\ \A j \in 1 .. Len(uuids) : accessDiff'[services + j] = f[j]
    <3>1. f \in Seq(NimbleEntries) /\ Len(f) = Len(uuids)
      BY <1>4
    <3>2. /\ accessDiff' \in Seq(NimbleEntries) /\ Len(accessDiff') = services + Len(f)
          /\ \A i \in 1 .. services : accessDiff'[i] = accessDiff[i]
          /\ \A j \in 1 .. Len(f) : accessDiff'[services + j] = f[j]
      BY ONLY <1>2, <1>7, <3>1, FilledShape
    <3> QED
      BY <3>1, <3>2
  <2>2. TableTyped'
    BY <1>1, <1>2, <1>3, <1>7, <2>1 DEF TableTyped
  <2>3. Sizes(nimblePc, Len(accessDiff), Len(attrs), Len(toAdd), services)'
    BY <1>1, <1>2, <1>3, <1>7, <2>1 DEF Sizes, AskedOf
  <2>4. ToRegister(accessDiff, toAdd, calls)'
    <3>1. Len(accessDiff') - Len(toAdd') = services
      BY <1>2, <1>3, <1>7, <2>1
    <3> QED
      BY <1>1, <1>4, <1>7, <2>1, <3>1 DEF ToRegister
  <2>5. ~reused => WellRegistered(attrs, accessDiff', services, services)
    BY <1>2, <1>6, <2>1, RegisteredStays DEF TableInv
  <2> QED
    BY <1>1, <1>2, <1>6, <1>7, <2>2, <2>3, <2>4, <2>5 DEF TableInv, TableShape
<1>8. CASE accessDiff' = SubSeq(accessDiff, 1, services) \o e /\ nimblePc' = "ready" /\ UNCHANGED toAdd
  <2>1. /\ accessDiff' \in Seq(NimbleEntries) /\ Len(accessDiff') = services + Len(uuids)
        /\ \A i \in 1 .. services : accessDiff'[i] = accessDiff[i]
    BY ONLY <1>2, <1>5, <1>8, FilledShape
  <2>2. TableTyped'
    BY <1>1, <1>2, <1>3, <1>8, <2>1 DEF TableTyped
  <2>3. Sizes(nimblePc, Len(accessDiff), Len(attrs), Len(toAdd), services)'
    BY <1>1, <1>2, <1>3, <1>8, <2>1 DEF Sizes, AskedOf
  <2>4. ToRegister(accessDiff, toAdd, calls)'
    BY <1>2, <1>8 DEF ToRegister
  <2>5. ~reused => WellRegistered(attrs, accessDiff', services, services)
    BY <1>2, <1>6, <2>1, RegisteredStays DEF TableInv
  <2> QED
    BY <1>1, <1>2, <1>6, <1>8, <2>2, <2>3, <2>4, <2>5 DEF TableInv, TableShape
<1> QED
  BY <1>1, <1>7, <1>8

LEMMA MoveTableStep ==
  ASSUME TableInv, Nimble!MoveTable
  PROVE  TableInv'
<1>1. /\ nimblePc = "ready" /\ calls < CallRoom /\ calls' = calls + 1 /\ nimblePc' \in {"ready", "moved"}
      /\ UNCHANGED <<attrs, accessDiff, services, toAdd, reused>>
  BY DEF Nimble!MoveTable
<1>2. /\ TableTyped /\ LatestLast(attrs, calls) /\ calls \in 0 .. CallRoom
      /\ Sizes(nimblePc, Len(accessDiff), Len(attrs), Len(toAdd), services)
  BY DEF TableInv, TableShape, TableTyped
<1>3. calls' \in 0 .. CallRoom /\ calls' # 0
  BY <1>1, <1>2, NimbleAssumption
<1>4. LatestLast(attrs, calls)'
  <2>1. ASSUME NEW h \in 1 .. Len(attrs)
        PROVE  attrs[h].cb \in Nat /\ attrs[h].cb <= calls
    <3>1. attrs \in Seq([uuid : Uuids, cb : Nat])
      BY <1>2 DEF TableTyped
    <3>2. attrs[h] \in [uuid : Uuids, cb : Nat]
      BY <2>1, <3>1, ElementOfSeq
    <3> QED
      BY <1>2, <3>2 DEF LatestLast
  <2>2. \A h \in 1 .. Len(attrs) : attrs[h].cb <= calls + 1 /\ attrs[h].cb # calls + 1
    BY <1>2, <2>1
  <2> QED
    BY <1>1, <2>2 DEF LatestLast
<1>5. Len(toAdd) = 0 /\ AskedFor' = AskedFor
  BY <1>1, <1>2 DEF Sizes, AskedFor, AskedOf
<1>6. Sizes(nimblePc, Len(accessDiff), Len(attrs), Len(toAdd), services)'
  BY <1>1, <1>2 DEF Sizes, AskedOf
<1>7. ToRegister(accessDiff, toAdd, calls)'
  BY <1>1, <1>5 DEF ToRegister
<1>8. TableTyped'
  BY <1>1, <1>2, <1>3 DEF TableTyped
<1> QED
  BY <1>1, <1>3, <1>4, <1>5, <1>6, <1>7, <1>8 DEF TableInv, TableShape

(* What fail_cleanup leaves: the entries of a call are emptied, and of the     *)
(* attributes it has registered the definitions are freed.  The others keep    *)
(* theirs, also where the UUIDs are the same, as those of the call are last.    *)
CleanedOf(a, b, e, f, c, n, m) ==
  /\ Len(b) = Len(a) /\ Len(a) \in Nat
  /\ \A h \in 1 .. Len(a) : b[h].uuid = a[h].uuid /\ b[h].cb = IF a[h].cb = c THEN 0 ELSE a[h].cb
  /\ \A i \in 1 .. m : f[i] = IF e[i].cb = c THEN Nimble!Freed ELSE e[i]
  /\ \A i \in 1 .. m : i \in 1 .. n \/ e[i].cb = c
  /\ \A g, h \in 1 .. Len(a) : g < h /\ a[g].cb = c => a[h].cb = c

LEMMA CleanedUp ==
  ASSUME NEW a, NEW b, NEW e, NEW f, NEW c, NEW n \in Nat, NEW s \in Nat, NEW m \in Nat, n <= s, s <= m,
         CleanedOf(a, b, e, f, c, n, m), WellRegistered(a, e, n, s)
  PROVE  WellRegistered(b, f, m, m)
<1> USE DEF CleanedOf
<1>0. \A i \in 1 .. n : i \in 1 .. m /\ i \in 1 .. s
  OBVIOUS
<1>1. \A i \in 1 .. m : f[i].uuid # Nimble!NoUuid => i \in 1 .. n /\ e[i].cb # c /\ f[i] = e[i]
  BY DEF Nimble!Freed
<1>2. \A i \in 1 .. m : f[i].handle # 0 => i \in 1 .. s /\ f[i] = e[i]
  BY <1>0 DEF Nimble!Freed
<1>3. HasEntry(b, f, m)
  <2> SUFFICES ASSUME NEW h \in 1 .. Len(a), b[h].cb # 0
               PROVE  \E p \in 1 .. m :
                        f[p].uuid = b[h].uuid /\ f[p].cb = b[h].cb /\ (OnlyOneOf(b, h) => f[p].handle = h)
    BY DEF HasEntry
  <2>1. a[h].cb # c /\ a[h].cb # 0 /\ b[h].cb = a[h].cb
    OBVIOUS
  <2>2. PICK p \in 1 .. n : e[p].uuid = a[h].uuid /\ e[p].cb = a[h].cb /\ (OnlyOneOf(a, h) => e[p].handle = h)
    BY <2>1 DEF WellRegistered, HasEntry
  <2>3. f[p] = e[p] /\ p \in 1 .. m
    BY <1>0, <2>1, <2>2
  <2>4. ASSUME OnlyOneOf(b, h), NEW g \in 1 .. Len(a), a[g].uuid = a[h].uuid, g # h
        PROVE  g < h /\ a[g].cb = 0
    <3>1. g < h /\ b[g].cb = 0
      BY <2>4 DEF OnlyOneOf
    <3>2. a[g].cb # c
      BY <2>1, <3>1
    <3> QED
      BY <3>1, <3>2
  <2>5. OnlyOneOf(b, h) => OnlyOneOf(a, h)
    BY <2>1, <2>4 DEF OnlyOneOf
  <2> QED
    BY <2>1, <2>2, <2>3, <2>5
<1>4. HasAttribute(b, f, m)
  <2> SUFFICES ASSUME NEW i \in 1 .. m, f[i].uuid # Nimble!NoUuid
               PROVE  f[i].cb # 0 /\ \E h \in 1 .. Len(a) : b[h].uuid = f[i].uuid /\ b[h].cb = f[i].cb
    BY DEF HasAttribute
  <2>1. i \in 1 .. n /\ e[i].cb # c /\ f[i] = e[i]
    BY <1>1
  <2>2. e[i].cb # 0 /\ \E h \in 1 .. Len(a) : a[h].uuid = e[i].uuid /\ a[h].cb = e[i].cb
    BY <2>1 DEF WellRegistered, HasAttribute
  <2> QED
    BY <2>1, <2>2
<1>5. SharedByTwo(b, f, m)
  <2> SUFFICES ASSUME NEW i \in 1 .. m, NEW j \in 1 .. m, f[i].uuid = f[j].uuid, f[i].uuid # Nimble!NoUuid, i # j
               PROVE  TwoOf(b, f[i].uuid, f[i].cb, f[j].cb)
    BY DEF SharedByTwo
  <2>1. /\ i \in 1 .. n /\ e[i].cb # c /\ f[i] = e[i]
        /\ j \in 1 .. n /\ e[j].cb # c /\ f[j] = e[j]
    BY <1>1
  <2>2. PICK g \in 1 .. Len(a), h \in 1 .. Len(a) :
          /\ g # h /\ a[g].uuid = e[i].uuid /\ a[h].uuid = e[i].uuid
          /\ a[g].cb = e[i].cb /\ a[h].cb = e[j].cb
    BY <2>1 DEF WellRegistered, SharedByTwo, TwoOf
  <2> QED
    BY <2>1, <2>2 DEF TwoOf
<1>6. HandleFits(b, f, m)
  <2> SUFFICES ASSUME NEW i \in 1 .. m, f[i].handle # 0
               PROVE  f[i].handle \in 1 .. Len(a) /\ b[f[i].handle].uuid = f[i].uuid
    BY DEF HandleFits
  <2>1. i \in 1 .. s /\ f[i] = e[i]
    BY <1>2
  <2>2. e[i].handle \in 1 .. Len(a) /\ a[e[i].handle].uuid = e[i].uuid
    BY <2>1 DEF WellRegistered, HandleFits
  <2> QED
    BY <2>1, <2>2
<1> QED
  BY <1>3, <1>4, <1>5, <1>6 DEF WellRegistered

LEMMA EmptiedTable ==
  ASSUME TableInv, nimblePc \in {"filled", "register"}, Nimble!Cleanup, services' = Len(accessDiff),
         UNCHANGED <<calls, reused>>
  PROVE  TableInv'
<1>1. /\ accessDiff' = [i \in 1 .. Len(accessDiff) |->
                          IF accessDiff[i].cb = calls THEN Nimble!Freed ELSE accessDiff[i]]
      /\ attrs' = [h \in 1 .. Len(attrs) |->
                     IF attrs[h].cb = calls THEN [attrs[h] EXCEPT !.cb = 0] ELSE attrs[h]]
      /\ toAdd' = <<>> /\ nimblePc' = "ready"
  BY DEF Nimble!Cleanup
<1>2. /\ TableTyped /\ services \in Nat /\ services <= Len(accessDiff) /\ Len(toAdd) \in Nat
      /\ Len(attrs) \in Nat /\ Len(accessDiff) <= ServiceRoom /\ Len(accessDiff) \in Nat
      /\ AskedFor = Len(accessDiff) - Len(toAdd) /\ AskedFor \in Nat /\ AskedFor <= services /\ Len(attrs) <= AskedFor
      /\ ToRegister(accessDiff, toAdd, calls) /\ LatestLast(attrs, calls) /\ calls # 0 /\ calls \in Nat
  BY NimbleAssumption DEF TableInv, TableShape, TableTyped, Sizes, AskedOf, AskedFor
<1>3. accessDiff' \in Seq(NimbleEntries) /\ Len(accessDiff') = Len(accessDiff)
  <2>1. \A i \in 1 .. Len(accessDiff) : accessDiff'[i] \in NimbleEntries
    BY <1>1, <1>2, EntryShape, NimbleAssumption DEF NimbleEntries, Nimble!Freed
  <2>2. accessDiff' \in [1 .. Len(accessDiff) -> NimbleEntries]
    BY <1>1, <2>1
  <2> QED
    BY ONLY <1>2, <2>2, IsSequence
<1>4. /\ attrs' \in Seq([uuid : Uuids, cb : Nat]) /\ Len(attrs') = Len(attrs)
      /\ \A h \in 1 .. Len(attrs) :
           /\ attrs[h] \in [uuid : Uuids, cb : Nat] /\ attrs[h].cb <= calls
           /\ attrs'[h].uuid = attrs[h].uuid /\ attrs'[h].cb = IF attrs[h].cb = calls THEN 0 ELSE attrs[h].cb
  <2>1. ASSUME NEW h \in 1 .. Len(attrs)
        PROVE  /\ attrs[h] \in [uuid : Uuids, cb : Nat] /\ attrs[h].cb <= calls
               /\ attrs'[h] \in [uuid : Uuids, cb : Nat]
               /\ attrs'[h].uuid = attrs[h].uuid /\ attrs'[h].cb = IF attrs[h].cb = calls THEN 0 ELSE attrs[h].cb
    <3>1. attrs \in Seq([uuid : Uuids, cb : Nat])
      BY <1>2 DEF TableTyped
    <3>2. attrs[h] \in [uuid : Uuids, cb : Nat] /\ attrs[h].cb <= calls
      BY <1>2, <2>1, <3>1, ElementOfSeq DEF LatestLast
    <3>3. attrs'[h] = IF attrs[h].cb = calls THEN [attrs[h] EXCEPT !.cb = 0] ELSE attrs[h]
      BY <1>1, <2>1
    <3> QED
      BY <3>2, <3>3
  <2>2. attrs' \in [1 .. Len(attrs) -> [uuid : Uuids, cb : Nat]]
    BY <1>1, <2>1
  <2>3. attrs' \in Seq([uuid : Uuids, cb : Nat]) /\ Len(attrs') = Len(attrs)
    BY ONLY <1>2, <2>2, IsSequence
  <2> QED
    BY <2>1, <2>3
<1>5. Len(toAdd') = 0 /\ toAdd' \in Seq(Uuids) /\ AskedFor' = Len(accessDiff)
  BY <1>1 DEF AskedFor, AskedOf
<1>6. TableTyped'
  BY <1>2, <1>3, <1>4, <1>5 DEF TableTyped
<1>7. Sizes(nimblePc, Len(accessDiff), Len(attrs), Len(toAdd), services)'
  BY <1>1, <1>2, <1>3, <1>4, <1>5 DEF Sizes, AskedOf
<1>8. ToRegister(accessDiff, toAdd, calls)' /\ LatestLast(attrs, calls)'
  <2>1. ASSUME NEW h \in 1 .. Len(attrs)
        PROVE  attrs'[h].cb <= calls /\ attrs'[h].cb # calls
    <3>1. attrs'[h].cb = 0 \/ (attrs'[h].cb <= calls /\ attrs'[h].cb # calls)
      BY <1>4
    <3>2. calls \in Nat /\ calls # 0
      BY <1>2
    <3> QED
      BY <3>1, <3>2
  <2> QED
    BY <1>4, <1>5, <2>1 DEF ToRegister, LatestLast
<1>9. ASSUME WellRegistered(attrs, accessDiff, AskedFor, services)
      PROVE  WellRegistered(attrs', accessDiff', Len(accessDiff), Len(accessDiff))
  <2>1. ASSUME NEW i \in 1 .. Len(accessDiff), i \notin 1 .. AskedFor
        PROVE  accessDiff[i].cb = calls
    <3>1. i - AskedFor \in 1 .. Len(toAdd) /\ Len(accessDiff) - Len(toAdd) + (i - AskedFor) = i
      BY <1>2, <2>1
    <3>2. accessDiff[Len(accessDiff) - Len(toAdd) + (i - AskedFor)]
            = [uuid |-> toAdd[i - AskedFor], cb |-> calls, handle |-> 0]
      BY <1>2, <3>1 DEF ToRegister
    <3> QED
      BY <3>1, <3>2
  <2>2. \A i \in 1 .. Len(accessDiff) :
          accessDiff'[i] = IF accessDiff[i].cb = calls THEN Nimble!Freed ELSE accessDiff[i]
    BY <1>1
  <2>3. \A g, h \in 1 .. Len(attrs) : g < h /\ attrs[g].cb = calls => attrs[h].cb = calls
    BY <1>2 DEF LatestLast
  <2>4. \A i \in 1 .. Len(accessDiff) : i \in 1 .. AskedFor \/ accessDiff[i].cb = calls
    BY <2>1
  <2>5. \A h \in 1 .. Len(attrs) :
          attrs'[h].uuid = attrs[h].uuid /\ attrs'[h].cb = IF attrs[h].cb = calls THEN 0 ELSE attrs[h].cb
    BY <1>4
  <2>6. Len(attrs') = Len(attrs)
    BY <1>4
  <2> QED
    <3>1. CleanedOf(attrs, attrs', accessDiff, accessDiff', calls, AskedFor, Len(accessDiff))
      BY <1>2, <2>2, <2>3, <2>4, <2>5, <2>6 DEF CleanedOf
    <3>2. AskedFor \in Nat /\ services \in Nat /\ Len(accessDiff) \in Nat /\ AskedFor <= services
          /\ services <= Len(accessDiff)
      BY <1>2
    <3> QED
      BY ONLY <1>9, <3>1, <3>2, CleanedUp
<1> QED
  BY <1>1, <1>3, <1>5, <1>6, <1>7, <1>8, <1>9 DEF TableInv, TableShape

LEMMA CountTable ==
  ASSUME TableInv, Nimble!CountServices
  PROVE  TableInv'
<1>1. /\ nimblePc = "filled" /\ services' = Len(accessDiff)
      /\ UNCHANGED <<calls, reused>>
      /\ (nimblePc' = "register" /\ UNCHANGED <<accessDiff, attrs, toAdd>>) \/ Nimble!Cleanup
  BY DEF Nimble!CountServices
<1>2. /\ Sizes(nimblePc, Len(accessDiff), Len(attrs), Len(toAdd), services)
      /\ ToRegister(accessDiff, toAdd, calls) /\ TableTyped /\ LatestLast(attrs, calls) /\ calls # 0
  BY <1>1 DEF TableInv, TableShape
<1>3. /\ services = Len(accessDiff) - Len(toAdd) /\ Len(accessDiff) = services + Len(toAdd) /\ AskedFor = services
      /\ services \in Nat /\ Len(toAdd) \in Nat
  BY <1>1, <1>2 DEF Sizes, AskedOf, AskedFor
<1>4. CASE nimblePc' = "register" /\ UNCHANGED <<accessDiff, attrs, toAdd>>
  <2>1. AskedFor' = services
    BY <1>1, <1>3, <1>4 DEF AskedFor, AskedOf
  <2>2. Sizes(nimblePc, Len(accessDiff), Len(attrs), Len(toAdd), services)'
    BY <1>1, <1>2, <1>3, <1>4 DEF Sizes, AskedOf
  <2>3. ASSUME WellRegistered(attrs, accessDiff, services, services)
        PROVE  WellRegistered(attrs, accessDiff, services, Len(accessDiff))
    <3>1. \A i \in 1 .. Len(accessDiff) : i \in 1 .. services \/ accessDiff[i].handle = 0
      <4> SUFFICES ASSUME NEW i \in 1 .. Len(accessDiff), i \notin 1 .. services
                   PROVE  accessDiff[i].handle = 0
        OBVIOUS
      <4>1. i - services \in 1 .. Len(toAdd) /\ i = services + (i - services)
        BY <1>3
      <4> QED
        <5>1. Len(accessDiff) - Len(toAdd) + (i - services) = i
          BY <1>3
        <5>2. accessDiff[Len(accessDiff) - Len(toAdd) + (i - services)]
                = [uuid |-> toAdd[i - services], cb |-> calls, handle |-> 0]
          BY <1>2, <4>1 DEF ToRegister
        <5> QED
          BY <5>1, <5>2
    <3> QED
      BY <1>3, <2>3, <3>1, RegisteredGrows
  <2> QED
    BY <1>1, <1>2, <1>3, <1>4, <2>1, <2>2, <2>3 DEF TableInv, TableShape, TableTyped
<1>5. CASE Nimble!Cleanup
  BY <1>1, <1>5, EmptiedTable
<1> QED
  BY <1>1, <1>4, <1>5

LEMMA RegisterFailsTable ==
  ASSUME TableInv, Nimble!RegisterFails
  PROVE  TableInv'
<1>1. /\ nimblePc = "register" /\ Nimble!Cleanup
      /\ UNCHANGED <<calls, reused, services>>
  BY DEF Nimble!RegisterFails
<1>2. services = Len(accessDiff)
  BY <1>1 DEF TableInv, TableShape, Sizes
<1> QED
  BY <1>1, <1>2, EmptiedTable

(* With nothing left to register the call ends. *)
LEMMA EndsTable ==
  ASSUME TableInv, Nimble!AddingEnds
  PROVE  TableInv'
<1>1. /\ nimblePc = "register" /\ toAdd = <<>> /\ nimblePc' = "ready"
      /\ UNCHANGED <<attrs, accessDiff, services, toAdd, calls, reused>>
  BY DEF Nimble!AddingEnds
<1>2. Len(toAdd) = 0 /\ Sizes(nimblePc, Len(accessDiff), Len(attrs), Len(toAdd), services)
  BY <1>1 DEF TableInv, TableShape
<1>3. AskedFor' = AskedFor
  BY <1>1, <1>2 DEF AskedFor, AskedOf, Sizes
<1>4. Sizes(nimblePc, Len(accessDiff), Len(attrs), Len(toAdd), services)'
  BY <1>1, <1>2 DEF Sizes, AskedOf
<1> QED
  BY <1>1, <1>3, <1>4 DEF TableInv, TableShape, TableTyped

(* RegisterService: the entry gets its handle, and so does the first one with *)
(* its UUID.                                                                   *)
NotedAt(f, p, u, n) ==
  /\ p = services - Len(toAdd) + 1 /\ u = accessDiff[p].uuid
  /\ f = [Nimble!Noted(u, n) EXCEPT ![p].handle = n]

LEMMA NotedShape ==
  ASSUME TableInv, nimblePc = "register", toAdd # <<>>, NEW p, NEW u, NEW n \in 0 .. ServiceRoom,
         NEW f, NotedAt(f, p, u, n)
  PROVE  /\ f \in Seq(NimbleEntries) /\ Len(f) = Len(accessDiff)
         /\ \A i \in 1 .. Len(accessDiff) :
              /\ f[i].uuid = accessDiff[i].uuid /\ f[i].cb = accessDiff[i].cb
              /\ i = p => f[i].handle = n
              /\ f[i].handle # accessDiff[i].handle => f[i].handle = n /\ accessDiff[i].uuid = u
              /\ f[i] # accessDiff[i] => i \in 1 .. p
<1> DEFINE same == {i \in 1 .. services : accessDiff[i].uuid = u}
           q == CHOOSE i \in same : \A j \in same : i <= j
<1>1. /\ TableTyped /\ services \in Nat /\ services = Len(accessDiff) /\ p \in 1 .. services
  BY DEF TableInv, TableShape, Sizes, TableTyped, NotedAt
<1>2. p \in same
  BY <1>1 DEF NotedAt
<1>3. q \in same /\ q <= p
  <2>1. \E m \in same : \A l \in same : m <= l
    <3>1. same \in SUBSET (1 .. services) /\ same # {}
      BY <1>2
    <3> QED
      BY ONLY <1>1, <3>1, FirstPosition
  <2> HIDE DEF same
  <2> QED
    BY <1>2, <2>1
<1>4. Nimble!Noted(u, n) = [accessDiff EXCEPT ![q].handle = n]
  BY <1>2 DEF Nimble!Noted
<1> HIDE DEF q
<1>5. \A i \in 1 .. services : accessDiff[i] \in NimbleEntries
  BY <1>1, EntryShape
<1>6. f = [i \in 1 .. services |-> IF i = q \/ i = p THEN [accessDiff[i] EXCEPT !.handle = n] ELSE accessDiff[i]]
  <2> DEFINE g == [accessDiff EXCEPT ![q].handle = n]
  <2>1. accessDiff \in [1 .. services -> NimbleEntries]
    BY <1>1 DEF TableTyped
  <2>2. g = [i \in 1 .. services |-> IF i = q THEN [accessDiff[q] EXCEPT !.handle = n] ELSE accessDiff[i]]
    BY <1>3, <2>1
  <2> HIDE DEF g
  <2>3. f = [i \in 1 .. services |-> IF i = p THEN [g[p] EXCEPT !.handle = n] ELSE g[i]]
    BY <1>1, <1>4, <2>2 DEF g, NotedAt
  <2>4. [g[p] EXCEPT !.handle = n] = [accessDiff[p] EXCEPT !.handle = n]
    <3>1. CASE p = q
      <4>1. g[p] = [accessDiff[p] EXCEPT !.handle = n]
        BY <1>1, <2>2, <3>1
      <4>2. accessDiff[p] \in NimbleEntries
        BY <1>1, <1>5
      <4> QED
        BY <4>1, <4>2 DEF NimbleEntries
    <3>2. CASE p # q
      BY <1>1, <2>2, <3>2
    <3> QED
      BY <3>1, <3>2
  <2>5. ASSUME NEW i \in 1 .. services
        PROVE  (IF i = p THEN [g[p] EXCEPT !.handle = n] ELSE g[i])
                 = IF i = q \/ i = p THEN [accessDiff[i] EXCEPT !.handle = n] ELSE accessDiff[i]
    <3>1. CASE i = p
      BY <2>4, <3>1
    <3>2. CASE i # p /\ i = q
      <4>1. g[i] = [accessDiff[q] EXCEPT !.handle = n]
        BY <2>2, <2>5, <3>2
      <4> QED
        BY <3>2, <4>1
    <3>3. CASE i # p /\ i # q
      <4>1. g[i] = accessDiff[i]
        BY <2>2, <2>5, <3>3
      <4> QED
        BY <3>3, <4>1
    <3> QED
      BY <3>1, <3>2, <3>3
  <2> QED
    BY ONLY <2>3, <2>5
<1>7. \A i \in 1 .. services :
        /\ f[i] \in NimbleEntries /\ f[i].uuid = accessDiff[i].uuid /\ f[i].cb = accessDiff[i].cb
        /\ i = p => f[i].handle = n
        /\ f[i].handle # accessDiff[i].handle => f[i].handle = n /\ accessDiff[i].uuid = u
        /\ f[i] # accessDiff[i] => i \in 1 .. p
  <2> SUFFICES ASSUME NEW i \in 1 .. services
               PROVE  /\ f[i] \in NimbleEntries /\ f[i].uuid = accessDiff[i].uuid /\ f[i].cb = accessDiff[i].cb
                      /\ i = p => f[i].handle = n
                      /\ f[i].handle # accessDiff[i].handle => f[i].handle = n /\ accessDiff[i].uuid = u
                      /\ f[i] # accessDiff[i] => i \in 1 .. p
    OBVIOUS
  <2>1. accessDiff[i] \in NimbleEntries
    BY <1>5
  <2>2. CASE i # q /\ i # p
    BY <1>6, <2>1, <2>2
  <2>3. CASE i = q \/ i = p
    <3>1. f[i] = [accessDiff[i] EXCEPT !.handle = n]
      BY <1>6, <2>3
    <3>2. f[i] \in NimbleEntries /\ f[i].uuid = accessDiff[i].uuid /\ f[i].cb = accessDiff[i].cb /\ f[i].handle = n
      BY <2>1, <3>1 DEF NimbleEntries
    <3>3. accessDiff[i].uuid = u /\ i \in 1 .. p
      BY <1>1, <1>2, <1>3, <2>3
    <3> QED
      BY <3>2, <3>3
  <2> QED
    BY <2>2, <2>3
<1>8. f \in [1 .. services -> NimbleEntries]
  BY <1>6, <1>7
<1>9. f \in Seq(NimbleEntries) /\ Len(f) = services
  BY ONLY <1>1, <1>8, IsSequence
<1> QED
  BY <1>1, <1>7, <1>9

(* An attribute more, of the entry p, which is the next to be asked for. *)
LEMMA RegisteredMore ==
  ASSUME NEW a, NEW b, NEW e, NEW f, NEW p \in Nat \ {0}, NEW s \in Nat, p <= s, Len(a) \in Nat,
         Len(b) = Len(a) + 1, \A h \in 1 .. Len(a) : b[h] = a[h],
         b[Len(b)].uuid = e[p].uuid, b[Len(b)].cb = e[p].cb, e[p].uuid # Nimble!NoUuid, e[p].cb # 0,
         \A i \in 1 .. s : f[i].uuid = e[i].uuid /\ f[i].cb = e[i].cb,
         \A i \in 1 .. s : f[i].handle # e[i].handle => f[i].handle = Len(b) /\ e[i].uuid = e[p].uuid,
         f[p].handle = Len(b),
         WellRegistered(a, e, p - 1, s)
  PROVE  WellRegistered(b, f, p, s)
<1> DEFINE n == Len(b)
<1>0. /\ \A i \in 1 .. p : i \in 1 .. p - 1 \/ i = p
      /\ \A h \in 1 .. n : h \in 1 .. Len(a) \/ h = n
      /\ \A h \in 1 .. Len(a) : h \in 1 .. n /\ h # n
      /\ \A i \in 1 .. p - 1 : i \in 1 .. p
      /\ \A i \in 1 .. p : i \in 1 .. s
      /\ n \in 1 .. n /\ p \in 1 .. p
  OBVIOUS
<1>1. HasEntry(b, f, p)
  <2> SUFFICES ASSUME NEW h \in 1 .. n, b[h].cb # 0
               PROVE  \E i \in 1 .. p :
                        f[i].uuid = b[h].uuid /\ f[i].cb = b[h].cb /\ (OnlyOneOf(b, h) => f[i].handle = h)
    BY DEF HasEntry
  <2>1. CASE h = n
    BY <1>0, <2>1
  <2>2. CASE h \in 1 .. Len(a)
    <3>0. b[h] = a[h]
      BY <2>2
    <3>1. PICK i \in 1 .. p - 1 : e[i].uuid = a[h].uuid /\ e[i].cb = a[h].cb /\ (OnlyOneOf(a, h) => e[i].handle = h)
      BY <2>2, <3>0 DEF WellRegistered, HasEntry
    <3>2. i \in 1 .. p /\ i \in 1 .. s
      BY <1>0
    <3>3. ASSUME OnlyOneOf(b, h) PROVE f[i].handle = h
      <4>1. OnlyOneOf(a, h)
        <5>1. ASSUME NEW g \in 1 .. Len(a), a[g].uuid = a[h].uuid, g # h
              PROVE  g < h /\ a[g].cb = 0
          <6>1. g \in 1 .. n /\ b[g] = a[g]
            BY <1>0
          <6> QED
            BY <3>0, <3>3, <5>1, <6>1 DEF OnlyOneOf
        <5> QED
          BY <3>0, <5>1 DEF OnlyOneOf
      <4>2. b[n].uuid # b[h].uuid
        <5>1. n # h /\ ~(n < h)
          BY <2>2
        <5> QED
          BY <1>0, <3>3, <5>1 DEF OnlyOneOf
      <4> QED
        BY <3>0, <3>1, <3>2, <4>1, <4>2
    <3> QED
      BY <3>0, <3>1, <3>2, <3>3
  <2> QED
    BY <1>0, <2>1, <2>2
<1>2. HasAttribute(b, f, p)
  <2> SUFFICES ASSUME NEW i \in 1 .. p, e[i].uuid # Nimble!NoUuid
               PROVE  e[i].cb # 0 /\ \E h \in 1 .. n : b[h].uuid = e[i].uuid /\ b[h].cb = e[i].cb
    BY <1>0 DEF HasAttribute
  <2>1. CASE i = p
    BY <1>0, <2>1
  <2>2. CASE i \in 1 .. p - 1
    BY <1>0, <2>2 DEF WellRegistered, HasAttribute
  <2> QED
    BY <1>0, <2>1, <2>2
<1>3. SharedByTwo(b, f, p)
  <2>1. ASSUME NEW i \in 1 .. p - 1, e[i].uuid = e[p].uuid
        PROVE  \E g \in 1 .. n : g # n /\ b[g].uuid = e[p].uuid /\ b[g].cb = e[i].cb
    <3>1. PICK g \in 1 .. Len(a) : a[g].uuid = e[i].uuid /\ a[g].cb = e[i].cb
      BY <2>1 DEF WellRegistered, HasAttribute
    <3> QED
      BY <1>0, <2>1, <3>1
  <2>2. ASSUME NEW i \in 1 .. p - 1, NEW j \in 1 .. p - 1, e[i].uuid = e[j].uuid, e[i].uuid # Nimble!NoUuid, i # j
        PROVE  TwoOf(b, e[i].uuid, e[i].cb, e[j].cb)
    <3>1. PICK g \in 1 .. Len(a), h \in 1 .. Len(a) :
            g # h /\ a[g].uuid = e[i].uuid /\ a[h].uuid = e[i].uuid /\ a[g].cb = e[i].cb /\ a[h].cb = e[j].cb
      BY <2>2 DEF WellRegistered, SharedByTwo, TwoOf
    <3>2. g \in 1 .. n /\ h \in 1 .. n /\ b[g] = a[g] /\ b[h] = a[h]
      BY <1>0
    <3> QED
      BY <3>1, <3>2 DEF TwoOf
  <2>3. \A i \in 1 .. p : f[i].uuid = e[i].uuid /\ f[i].cb = e[i].cb
    BY <1>0
  <2> SUFFICES SharedByTwo(b, e, p)
    BY <2>3 DEF SharedByTwo
  <2> SUFFICES ASSUME NEW i \in 1 .. p, NEW j \in 1 .. p, e[i].uuid = e[j].uuid, e[i].uuid # Nimble!NoUuid, i # j
               PROVE  TwoOf(b, e[i].uuid, e[i].cb, e[j].cb)
    BY DEF SharedByTwo
  <2>4. CASE i = p
    <3>1. j \in 1 .. p - 1 /\ e[j].uuid = e[p].uuid
      BY <1>0, <2>4
    <3>2. PICK g \in 1 .. n : g # n /\ b[g].uuid = e[p].uuid /\ b[g].cb = e[j].cb
      BY <2>1, <3>1
    <3> QED
      BY <1>0, <2>4, <3>2 DEF TwoOf
  <2>5. CASE j = p
    <3>1. i \in 1 .. p - 1 /\ e[i].uuid = e[p].uuid
      BY <1>0, <2>5
    <3>2. PICK g \in 1 .. n : g # n /\ b[g].uuid = e[p].uuid /\ b[g].cb = e[i].cb
      BY <2>1, <3>1
    <3> QED
      BY <1>0, <2>5, <3>1, <3>2 DEF TwoOf
  <2>6. CASE i # p /\ j # p
    <3>1. i \in 1 .. p - 1 /\ j \in 1 .. p - 1
      BY <1>0, <2>6
    <3> QED
      BY ONLY <2>2, <3>1, e[i].uuid = e[j].uuid, e[i].uuid # Nimble!NoUuid, i # j
  <2> QED
    BY <2>4, <2>5, <2>6
<1>4. HandleFits(b, f, s)
  <2> SUFFICES ASSUME NEW i \in 1 .. s, f[i].handle # 0
               PROVE  f[i].handle \in 1 .. n /\ b[f[i].handle].uuid = e[i].uuid
    BY DEF HandleFits
  <2>1. CASE f[i].handle # e[i].handle
    BY <1>0, <2>1
  <2>2. CASE f[i].handle = e[i].handle
    BY <1>0, <2>2 DEF WellRegistered, HandleFits
  <2> QED
    BY <2>1, <2>2
<1> QED
  BY <1>1, <1>2, <1>3, <1>4 DEF WellRegistered

LEMMA RegisterTable ==
  ASSUME TableInv, Nimble!RegisterService
  PROVE  TableInv'
<1> DEFINE p == services - Len(toAdd) + 1
           n == Len(attrs) + 1
           u == Head(toAdd)
           a == Append(attrs, [uuid |-> u, cb |-> calls])
<1>1. /\ nimblePc = "register" /\ toAdd # <<>> /\ attrs' = a
      /\ accessDiff' = [Nimble!Noted(u, Len(attrs')) EXCEPT ![p].handle = Len(attrs')]
      /\ toAdd' = Tail(toAdd) /\ UNCHANGED <<services, nimblePc, calls, reused>>
  BY DEF Nimble!RegisterService
<1>2. /\ TableTyped /\ Sizes(nimblePc, Len(accessDiff), Len(attrs), Len(toAdd), services)
      /\ ToRegister(accessDiff, toAdd, calls) /\ LatestLast(attrs, calls) /\ calls # 0
  BY <1>1 DEF TableInv, TableShape
<1>3. /\ Len(toAdd) \in Nat /\ Len(toAdd) > 0 /\ u = toAdd[1] /\ u \in Uuids
      /\ toAdd' \in Seq(Uuids) /\ Len(toAdd') = Len(toAdd) - 1 /\ \A j \in 1 .. Len(toAdd') : toAdd'[j] = toAdd[j + 1]
      /\ (toAdd' = <<>> <=> Len(toAdd') = 0)
  <2>1. toAdd \in Seq(Uuids) /\ toAdd # <<>> /\ toAdd' = Tail(toAdd)
    BY <1>1, <1>2 DEF TableTyped
  <2>2. Len(toAdd) \in Nat /\ Len(toAdd) > 0
    BY <2>1
  <2>3. u = toAdd[1] /\ u \in Uuids
    BY <2>1, <2>2
  <2>4. toAdd' \in Seq(Uuids) /\ Len(toAdd') = Len(toAdd) - 1 /\ \A j \in 1 .. Len(toAdd) - 1 : toAdd'[j] = toAdd[j + 1]
    BY <2>1, HeadTailProperties
  <2>5. toAdd' = <<>> <=> Len(toAdd') = 0
    BY <2>4, EmptySeq
  <2> QED
    BY <2>2, <2>3, <2>4, <2>5
<1>4. /\ services \in Nat /\ services = Len(accessDiff) /\ services <= ServiceRoom /\ p \in 1 .. services /\ p \in Nat \ {0}
      /\ p <= services /\ Len(attrs) \in Nat /\ n <= p /\ n \in 0 .. ServiceRoom /\ AskedFor = p - 1
  <2>1. /\ services \in Nat /\ services = Len(accessDiff) /\ services <= ServiceRoom /\ Len(toAdd) <= services
        /\ Len(attrs) \in Nat /\ Len(attrs) <= services - Len(toAdd)
    BY <1>1, <1>2 DEF Sizes, AskedOf
  <2>2. AskedFor = services - Len(toAdd)
    BY <1>1 DEF AskedFor, AskedOf
  <2>3. p \in 1 .. services
    BY <1>3, <2>1
  <2>4. n <= p /\ n \in 0 .. ServiceRoom
    BY <1>3, <2>1, NimbleAssumption
  <2> QED
    BY <2>1, <2>2, <2>3, <2>4
<1>5. accessDiff[p] = [uuid |-> u, cb |-> calls, handle |-> 0]
  <2>1. Len(accessDiff) - Len(toAdd) + 1 = p /\ 1 \in 1 .. Len(toAdd)
    BY <1>3, <1>4
  <2> QED
    BY <1>2, <1>3, <2>1 DEF ToRegister
<1>6. /\ a \in Seq([uuid : Uuids, cb : Nat]) /\ Len(a) = n /\ \A h \in 1 .. Len(attrs) : a[h] = attrs[h]
      /\ a[n] = [uuid |-> u, cb |-> calls]
  <2>1. attrs \in Seq([uuid : Uuids, cb : Nat]) /\ [uuid |-> u, cb |-> calls] \in [uuid : Uuids, cb : Nat]
    BY <1>2, <1>3, NimbleAssumption DEF TableTyped
  <2> QED
    BY <2>1, AppendProperties
<1> HIDE DEF p, n, u, a
<1>7. /\ accessDiff' \in Seq(NimbleEntries) /\ Len(accessDiff') = Len(accessDiff)
      /\ \A i \in 1 .. Len(accessDiff) :
           /\ accessDiff'[i].uuid = accessDiff[i].uuid /\ accessDiff'[i].cb = accessDiff[i].cb
           /\ i = p => accessDiff'[i].handle = n
           /\ accessDiff'[i].handle # accessDiff[i].handle => accessDiff'[i].handle = n /\ accessDiff[i].uuid = u
           /\ accessDiff'[i] # accessDiff[i] => i \in 1 .. p
  <2>1. NotedAt(accessDiff', p, u, n)
    BY <1>1, <1>5, <1>6 DEF p, NotedAt
  <2>2. TableInv /\ nimblePc = "register" /\ toAdd # <<>> /\ n \in 0 .. ServiceRoom
    BY <1>1, <1>4
  <2> QED
    BY ONLY <2>1, <2>2, NotedShape
<1>8. TableTyped'
  BY <1>1, <1>2, <1>3, <1>6, <1>7 DEF TableTyped
<1>9. AskedFor' = p /\ Sizes(nimblePc, Len(accessDiff), Len(attrs), Len(toAdd), services)'
  <2>1. Len(toAdd') = services - p
    BY <1>3, <1>4 DEF p
  <2> QED
    <3>0. nimblePc' = "register"
      BY <1>1
    <3>1. AskedFor' = p
      <4>1. services' = services
        BY <1>1
      <4> QED
        BY <1>4, <2>1, <3>0, <4>1 DEF AskedFor, AskedOf
    <3>2. Len(accessDiff') = services /\ Len(attrs') = n /\ services' = services
      BY <1>1, <1>4, <1>6, <1>7
    <3>3. n \in Nat /\ Len(toAdd') \in Nat /\ Len(toAdd') <= services
      BY <1>3, <1>4, <2>1
    <3>4. Sizes(nimblePc', services, n, Len(toAdd'), services)
      BY <1>4, <2>1, <3>0, <3>3, NimbleAssumption DEF Sizes, AskedOf
    <3> QED
      BY <3>1, <3>2, <3>4
<1>10. ToRegister(accessDiff, toAdd, calls)'
  <2> SUFFICES ASSUME NEW j \in 1 .. Len(toAdd')
               PROVE  accessDiff'[Len(accessDiff') - Len(toAdd') + j] = [uuid |-> toAdd'[j], cb |-> calls', handle |-> 0]
    BY DEF ToRegister
  <2>1. /\ Len(accessDiff') - Len(toAdd') + j = Len(accessDiff) - Len(toAdd) + (j + 1)
        /\ Len(accessDiff) - Len(toAdd) + (j + 1) \in 1 .. Len(accessDiff)
        /\ Len(accessDiff) - Len(toAdd) + (j + 1) \notin 1 .. p
        /\ j + 1 \in 1 .. Len(toAdd)
    BY <1>3, <1>4, <1>7 DEF p
  <2>2. accessDiff[Len(accessDiff) - Len(toAdd) + (j + 1)] = [uuid |-> toAdd[j + 1], cb |-> calls, handle |-> 0]
    BY <1>2, <2>1 DEF ToRegister
  <2> QED
    BY <1>1, <1>3, <1>7, <2>1, <2>2
<1>11. ASSUME WellRegistered(attrs, accessDiff, p - 1, services)
       PROVE  WellRegistered(attrs', accessDiff', p, services)
  <2>1. u # Nimble!NoUuid
    BY <1>3, NimbleAssumption DEF Nimble!NoUuid
  <2>2. Len(attrs') = Len(attrs) + 1 /\ \A h \in 1 .. Len(attrs) : attrs'[h] = attrs[h]
    BY <1>1, <1>6 DEF n
  <2>3. attrs'[Len(attrs')].uuid = accessDiff[p].uuid /\ attrs'[Len(attrs')].cb = accessDiff[p].cb
        /\ accessDiff[p].uuid # Nimble!NoUuid /\ accessDiff[p].cb # 0
    BY <1>1, <1>2, <1>5, <1>6, <2>1
  <2>4. \A i \in 1 .. services : accessDiff'[i].uuid = accessDiff[i].uuid /\ accessDiff'[i].cb = accessDiff[i].cb
    BY <1>4, <1>7
  <2>5. \A i \in 1 .. services : accessDiff'[i].handle # accessDiff[i].handle =>
          accessDiff'[i].handle = Len(attrs') /\ accessDiff[i].uuid = accessDiff[p].uuid
    BY <1>1, <1>4, <1>5, <1>6, <1>7
  <2>6. accessDiff'[p].handle = Len(attrs')
    BY <1>1, <1>4, <1>6, <1>7
  <2> QED
    BY ONLY <1>4, <1>11, <2>2, <2>3, <2>4, <2>5, <2>6, RegisteredMore
<1>12. LatestLast(attrs, calls)'
  <2>1. \A h \in 1 .. n : h \in 1 .. Len(attrs) \/ h = n
    BY <1>4 DEF n
  <2>2. ASSUME NEW h \in 1 .. n
        PROVE  a[h].cb <= calls
    <3>1. CASE h = n
      <4>1. calls \in Nat
        BY <1>2, NimbleAssumption DEF TableTyped
      <4> QED
        BY <1>6, <3>1, <4>1
    <3>2. CASE h \in 1 .. Len(attrs)
      BY <1>2, <1>6, <3>2 DEF LatestLast
    <3> QED
      BY <2>1, <3>1, <3>2
  <2>3. ASSUME NEW g \in 1 .. n, NEW h \in 1 .. n, g < h, a[g].cb = calls
        PROVE  a[h].cb = calls
    <3>1. CASE h = n
      BY <1>6, <3>1
    <3>2. CASE h \in 1 .. Len(attrs)
      <4>1. g \in 1 .. Len(attrs)
        BY <1>4, <2>3, <3>2
      <4> QED
        BY <1>2, <1>6, <2>3, <3>2, <4>1 DEF LatestLast
    <3> QED
      BY <2>1, <3>1, <3>2
  <2> QED
    BY <1>1, <1>6, <2>2, <2>3 DEF LatestLast
<1> QED
  BY <1>1, <1>2, <1>4, <1>8, <1>9, <1>10, <1>11, <1>12 DEF TableInv, TableShape

LEMMA PortTable ==
  ASSUME TableInv, Nimble!PortStops
  PROVE  TableInv'
<1>1. /\ attrs' = <<>> /\ reused' = TRUE /\ UNCHANGED <<accessDiff, services, toAdd, nimblePc, calls>>
  BY DEF Nimble!PortStops
<1>2. Len(attrs') = 0 /\ attrs' \in Seq([uuid : Uuids, cb : Nat])
  BY <1>1
<1>3. TableTyped'
  BY <1>1, <1>2 DEF TableInv, TableShape, TableTyped
<1>4. Sizes(nimblePc, Len(accessDiff), Len(attrs), Len(toAdd), services)'
  BY <1>1, <1>2 DEF TableInv, TableShape, Sizes, AskedOf
<1>5. LatestLast(attrs, calls)'
  BY <1>2 DEF LatestLast
<1> QED
  BY <1>1, <1>3, <1>4, <1>5 DEF TableInv, TableShape

LEMMA NimbleTableStep ==
  ASSUME TableInv, Nimble!NimbleNext
  PROVE  TableInv'
<1>1. ASSUME Nimble!NimbleInit \/ Nimble!NimbleDeinit
      PROVE  TableInv'
  <2>1. UNCHANGED <<attrs, accessDiff, services, toAdd, nimblePc, calls, reused>>
    BY <1>1 DEF Nimble!NimbleInit, Nimble!NimbleDeinit
  <2> QED
    BY <2>1, TableUntouched
<1>2. ASSUME NEW u \in Uuids, NEW v \in Uuids, Nimble!AddServices(<<u>>) \/ Nimble!AddServices(<<u, v>>)
      PROVE  TableInv'
  <2>1. <<u>> \in Seq(Uuids) /\ <<u, v>> \in Seq(Uuids)
    OBVIOUS
  <2> QED
    BY <1>2, <2>1, AddTable
<1>3. ASSUME Nimble!StartAdvertising \/ Nimble!StartBeacon \/ Nimble!StopAdvertising \/ Nimble!Notify
      PROVE  TableInv'
  <2>1. UNCHANGED <<attrs, accessDiff, services, toAdd, nimblePc, calls, reused>>
    BY <1>3 DEF Nimble!StartAdvertising, Nimble!StartBeacon, Nimble!StopAdvertising, Nimble!Notify
  <2> QED
    BY <2>1, TableUntouched
<1>4. ASSUME NEW l \in Links, Nimble!Connected(l) \/ Nimble!LinkEnds(l)
      PROVE  TableInv'
  <2>1. UNCHANGED <<attrs, accessDiff, services, toAdd, nimblePc, calls, reused>>
    BY <1>4 DEF Nimble!Connected, Nimble!LinkEnds
  <2> QED
    BY <2>1, TableUntouched
<1>5. ASSUME Nimble!ConnectFails \/ Nimble!Disconnected
      PROVE  TableInv'
  <2>1. UNCHANGED <<attrs, accessDiff, services, toAdd, nimblePc, calls, reused>>
    BY <1>5 DEF Nimble!ConnectFails, Nimble!Disconnected
  <2> QED
    BY <2>1, TableUntouched
<1>6. ASSUME NEW e, Nimble!NimbleRegister(e) \/ Nimble!NimbleUnregister(e)
      PROVE  TableInv'
  <2>1. UNCHANGED <<attrs, accessDiff, services, toAdd, nimblePc, calls, reused>>
    BY <1>6 DEF Nimble!NimbleRegister, Nimble!NimbleUnregister
  <2> QED
    BY <2>1, TableUntouched
<1> QED
  <2>1. CASE Nimble!PortStops
    BY <2>1, PortTable
  <2>2. CASE Nimble!CountServices
    BY <2>2, CountTable
  <2>3. CASE Nimble!RegisterService
    BY <2>3, RegisterTable
  <2>4. CASE Nimble!RegisterFails
    BY <2>4, RegisterFailsTable
  <2>5. CASE Nimble!MoveTable
    BY <2>5, MoveTableStep
  <2>6. CASE Nimble!AddingEnds
    BY <2>6, EndsTable
  <2> QED
    BY <1>1, <1>2, <1>3, <1>4, <1>5, <1>6, <2>1, <2>2, <2>3, <2>4, <2>5, <2>6 DEF Nimble!NimbleNext

LEMMA NimbleBegins ==
  ASSUME Nimble!NimbleStart
  PROVE  NimbleInv
<1>1. /\ attrs = <<>> /\ accessDiff = <<>> /\ toAdd = <<>> /\ services = 0 /\ calls = 0 /\ nimblePc = "ready"
  BY DEF Nimble!NimbleStart
<1>2. Len(attrs) = 0 /\ Len(accessDiff) = 0 /\ Len(toAdd) = 0 /\ AskedFor = 0
  BY <1>1 DEF AskedFor, AskedOf
<1>3. TableShape
  BY <1>1, <1>2, NimbleAssumption DEF TableShape, TableTyped, Sizes, AskedOf, ToRegister, LatestLast
<1>4. WellRegistered(attrs, accessDiff, AskedFor, services)
  BY <1>1, <1>2 DEF WellRegistered, HasEntry, HasAttribute, SharedByTwo, HandleFits
<1>5. LinkInv
  BY DEF Nimble!NimbleStart, LinkInv
<1> QED
  BY <1>3, <1>4, <1>5 DEF NimbleInv, TableInv

LEMMA NimbleAlways == AllSpec => []NimbleInv
<1>1. AllInit => NimbleInv
  BY NimbleBegins DEF AllInit
<1>2. NimbleInv /\ [AllNext]_allVars => NimbleInv'
  <2> SUFFICES ASSUME NimbleInv, AllNext \/ UNCHANGED allVars
               PROVE  NimbleInv'
    BY DEF allVars
  <2>1. CASE Nimble!NimbleNext
    <3>1. TableInv /\ LinkInv
      BY DEF NimbleInv
    <3>2. TableInv'
      BY ONLY <2>1, <3>1, NimbleTableStep
    <3>3. LinkInv'
      BY ONLY <2>1, <3>1, LinkStep
    <3> QED
      BY <3>2, <3>3 DEF NimbleInv
  <2>2. CASE UNCHANGED nimbleVars
    <3>1. TableInv'
      BY <2>2, TableUntouched DEF nimbleVars, NimbleInv
    <3>2. LinkInv'
      BY <2>2 DEF nimbleVars, NimbleInv, LinkInv
    <3> QED
      BY <3>1, <3>2 DEF NimbleInv
  <2> QED
    BY <2>1, <2>2 DEF allVars, AllNext, Network, Platform, HubClient, HubStation, Local,
                      NimbleDriver, BluedroidAir, BluedroidLinks, BluedroidTable
<1> QED
  BY <1>1, <1>2, PTL DEF AllSpec, allVars

LEMMA NimbleTyped ==
  ASSUME NimbleInv
  PROVE  Nimble!NimbleTypeOK
<1>1. TableTyped /\ Sizes(nimblePc, Len(accessDiff), Len(attrs), Len(toAdd), services)
  BY DEF NimbleInv, TableInv, TableShape
<1>2. Len(accessDiff) \in Nat /\ Len(attrs) \in Nat /\ services \in 0 .. Len(accessDiff) /\ Len(accessDiff) <= ServiceRoom
      /\ nimblePc \in {"ready", "moved", "filled", "register"}
  BY <1>1 DEF Sizes
<1>3. accessDiff \in Seq([uuid : Uuids \cup {Nimble!NoUuid}, cb : Nat, handle : 0 .. Len(attrs) + ServiceRoom])
  <2> DEFINE Wide == [uuid : Uuids \cup {Nimble!NoUuid}, cb : Nat, handle : 0 .. Len(attrs) + ServiceRoom]
  <2>1. NimbleEntries \subseteq Wide
    BY <1>2, NimbleAssumption DEF NimbleEntries
  <2>2. accessDiff \in Seq(NimbleEntries)
    BY <1>1 DEF TableTyped
  <2> HIDE DEF Wide
  <2>3. accessDiff \in Seq(Wide)
    BY <2>1, <2>2
  <2> QED
    BY <2>3 DEF Wide
<1> QED
  BY <1>1, <1>2, <1>3 DEF NimbleInv, LinkInv, TableTyped, Nimble!NimbleTypeOK, Nimble!LinkEvents

LEMMA NimbleRight ==
  ASSUME NimbleInv
  PROVE  Nimble!NimbleRightEnd
<1>1. /\ TableTyped /\ Sizes(nimblePc, Len(accessDiff), Len(attrs), Len(toAdd), services)
      /\ ToRegister(accessDiff, toAdd, calls)
  BY DEF NimbleInv, TableInv, TableShape
<1>2. /\ services \in Nat /\ AskedFor \in Nat /\ AskedFor <= services /\ Len(accessDiff) \in Nat /\ Len(attrs) \in Nat
      /\ services <= Len(accessDiff) /\ \A i \in 1 .. AskedFor : i \in 1 .. services
  BY <1>1 DEF Sizes, AskedFor, AskedOf
<1>3. ASSUME NEW i \in 1 .. services, i \notin 1 .. AskedFor
      PROVE  accessDiff[i].handle = 0
  <2>1. nimblePc = "register" /\ AskedFor = services - Len(toAdd) /\ services = Len(accessDiff) /\ Len(toAdd) \in Nat
    BY <1>1, <1>3 DEF Sizes, AskedFor, AskedOf
  <2>2. i - AskedFor \in 1 .. Len(toAdd) /\ Len(accessDiff) - Len(toAdd) + (i - AskedFor) = i
    BY <1>2, <1>3, <2>1
  <2>3. accessDiff[Len(accessDiff) - Len(toAdd) + (i - AskedFor)] = [uuid |-> toAdd[i - AskedFor], cb |-> calls, handle |-> 0]
    BY <1>1, <2>2 DEF ToRegister
  <2> QED
    BY <2>2, <2>3
<1>4. ASSUME ~reused, NEW h \in 1 .. Len(attrs), OnlyOneOf(attrs, h)
      PROVE  Nimble!Reached(h) = attrs[h].cb /\ Nimble!HandleOf(attrs[h].uuid) = h
  <2>1. WellRegistered(attrs, accessDiff, AskedFor, services)
    BY <1>4 DEF NimbleInv, TableInv
  <2>2. PICK p \in 1 .. AskedFor :
          accessDiff[p].uuid = attrs[h].uuid /\ accessDiff[p].cb = attrs[h].cb /\ accessDiff[p].handle = h
    BY <1>4, <2>1 DEF WellRegistered, HasEntry, OnlyOneOf
  <2>3. p \in 1 .. services /\ h # 0
    BY <1>2
  <2>4. attrs[h].uuid # Nimble!NoUuid
    <3>1. attrs[h] \in [uuid : Uuids, cb : Nat]
      <4>1. attrs \in Seq([uuid : Uuids, cb : Nat])
        BY <1>1 DEF TableTyped
      <4> QED
        BY <1>4, <4>1, ElementOfSeq
    <3> QED
      BY <3>1, NimbleAssumption DEF Nimble!NoUuid
  <2>5. ASSUME NEW i \in 1 .. AskedFor, accessDiff[i].uuid = attrs[h].uuid
        PROVE  i = p
    <3> SUFFICES ASSUME i # p
                 PROVE  FALSE
      OBVIOUS
    <3>1. accessDiff[i].cb # 0 /\ accessDiff[p].cb # 0
      BY <2>1, <2>2, <2>4, <2>5 DEF WellRegistered, HasAttribute
    <3>2. PICK g \in 1 .. Len(attrs), k \in 1 .. Len(attrs) :
            /\ g # k /\ attrs[g].uuid = attrs[h].uuid /\ attrs[k].uuid = attrs[h].uuid
            /\ attrs[g].cb = accessDiff[i].cb /\ attrs[k].cb = accessDiff[p].cb
      BY <2>1, <2>2, <2>4, <2>5 DEF WellRegistered, SharedByTwo, TwoOf
    <3> QED
      BY <1>4, <3>1, <3>2 DEF OnlyOneOf
  <2>6. Nimble!Reached(h) = attrs[h].cb
    <3> DEFINE fit == {i \in 1 .. services : accessDiff[i].handle = h}
    <3>1. ASSUME NEW i \in fit
          PROVE  i = p
      <4>1. i \in 1 .. AskedFor
        BY <1>3, <2>3
      <4>2. accessDiff[i].uuid = attrs[h].uuid
        BY <2>1, <2>3 DEF WellRegistered, HandleFits
      <4> QED
        BY <2>5, <4>1, <4>2
    <3>2. fit = {p}
      BY <2>2, <2>3, <3>1
    <3>3. Nimble!EntryOf(h) = p
      BY <1>2, <2>3, <3>2 DEF Nimble!EntryOf
    <3> QED
      BY <2>2, <2>3, <3>3 DEF Nimble!Reached
  <2>7. Nimble!HandleOf(attrs[h].uuid) = h
    <3> DEFINE fit == {i \in 1 .. services : accessDiff[i].uuid = attrs[h].uuid}
               m == CHOOSE i \in fit : \A j \in fit : i <= j
    <3>1. fit \in SUBSET (1 .. services) /\ p \in fit
      BY <2>2, <2>3
    <3>2. fit # {} /\ \E k \in fit : \A l \in fit : k <= l
      <4> HIDE DEF fit
      <4> QED
        BY <1>2, <3>1, FirstPosition
    <3>3. m \in fit /\ m <= p
      <4> HIDE DEF fit
      <4> QED
        BY <3>1, <3>2
    <3>4. m = p
      <4> HIDE DEF m
      <4>1. m \in 1 .. AskedFor /\ accessDiff[m].uuid = attrs[h].uuid
        BY <1>2, <3>3
      <4> QED
        BY <2>5, <4>1
    <3>5. Nimble!HandleOf(attrs[h].uuid) = accessDiff[m].handle
      BY <3>2 DEF Nimble!HandleOf
    <3> QED
      BY <2>2, <3>4, <3>5
  <2> QED
    BY <2>6, <2>7
<1> QED
  BY <1>4 DEF Nimble!NimbleRightEnd, Nimble!OnlyOne, OnlyOneOf, NimbleInv, LinkInv, Nimble!CanDisconnect, Nimble!NimbleIsConnected

-----------------------------------------------------------------------------
(* IOT_BleMgmtBluedroid.c: the services, registered through indices         *)

(* The requests the stack may find before it has made n services. *)
RequestsFor(n) ==
  {r \in [what : {"create", "start", "char"}, at : Nat] :
     (r.what = "create" => r.at \in 1 .. EntryRoom) /\ (r.what = "char" => r.at \in 0 .. n)}
Rows == UNION {[1 .. n -> 0 .. HandleRoom] : n \in 0 .. CharRoom}

(* What is asked for, also by an event that comes after its call gave up, is *)
(* a service there is: the handles in target are of this stack from the one  *)
(* being registered on.                                                      *)
BdShape ==
  /\ Bluedroid!BdTypeOK /\ Len(made) <= HandleRoom /\ Len(hosted) <= HandleRoom
  /\ requests \in Seq(RequestsFor(Len(hosted)))
  /\ addPc # "ready" => up /\ failed < FailureRoom
  /\ addPc = "moved" => \A i \in count + 1 .. EntryRoom : target[i] \in 0 .. Len(hosted)
  /\ addPc \in {"create", "wait"} => regSvc <= count /\ \A i \in regSvc .. count : target[i] \in 0 .. Len(hosted)
  /\ requests # <<>> => target[regSvc] \in 0 .. Len(hosted)

(* The j-th characteristic of entry i comes before the one at char of svc. *)
Behind(at, svc, char, i, j) == at \in {"ready", "moved"} \/ i < svc \/ (i = svc /\ j < char)

(* Handles and cells of the first n entries name each other;                 *)
Placed(m, d, n) ==
  /\ \A h \in 1 .. Len(m) :
       m[h].entry \in 1 .. n /\ m[h].char \in 1 .. Len(d[m[h].entry]) /\ d[m[h].entry][m[h].char] = h
  /\ \A i \in 1 .. n : \A j \in 1 .. Len(d[i]) :
       d[i][j] # 0 => d[i][j] \in 1 .. Len(m) /\ m[d[i][j]].entry = i /\ m[d[i][j]].char = j
(* a cell that has one is behind the indices;                                *)
InOrder(d, n, at, svc, char) ==
  \A i \in 1 .. n : \A j \in 1 .. Len(d[i]) : d[i][j] # 0 => Behind(at, svc, char, i, j)
(* and none behind them is without.                                          *)
NoneLeft(d, n, at, svc, char) ==
  \A i \in 1 .. n : \A j \in 1 .. Len(d[i]) : Behind(at, svc, char, i, j) => d[i][j] # 0

(* The one request a call that waits has made, and the state it is for. *)
Pending ==
  \/ requests = <<[what |-> "create", at |-> regSvc]>> /\ reg = "creating" /\ regChar = 1
  \/ /\ Len(requests) = 1 /\ requests[1].what = "start" /\ reg = "starting" /\ regChar = 1
     /\ target[regSvc] # 0 /\ hosted[target[regSvc]] = regSvc
  \/ /\ requests = <<[what |-> "char", at |-> target[regSvc]]>> /\ reg = "adding" /\ regChar <= Len(diff[regSvc])
     /\ target[regSvc] # 0 /\ hosted[target[regSvc]] = regSvc
Answered == requests = <<>> /\ (refused \/ regChar > Len(diff[regSvc]))

CallInv ==
  /\ addPc # "wait" => requests = <<>> /\ ~semaphore
  /\ addPc = "create" => regChar = 1
  /\ addPc = "wait" => (semaphore /\ Answered) \/ (~semaphore /\ Pending)

(* No call has failed: nothing is on its way but what is waited for. *)
ServicesInv ==
  /\ BdShape
  /\ failed = 0 => CallInv /\ Placed(made, diff, count) /\ InOrder(diff, count, addPc, regSvc, regChar)
  /\ failed = 0 /\ ~refused => NoneLeft(diff, count, addPc, regSvc, regChar)

LEMMA RowShape ==
  ASSUME Bluedroid!BdTypeOK, NEW i \in 1 .. EntryRoom
  PROVE  Len(diff[i]) \in 0 .. CharRoom /\ diff[i] \in [1 .. Len(diff[i]) -> 0 .. HandleRoom]
<1>1. diff[i] \in UNION {[1 .. n -> 0 .. HandleRoom] : n \in 0 .. CharRoom}
  BY DEF Bluedroid!BdTypeOK
<1>2. PICK n \in 0 .. CharRoom : diff[i] \in [1 .. n -> 0 .. HandleRoom]
  BY <1>1
<1>3. Len(diff[i]) = n
  BY <1>2
<1> QED
  BY <1>2, <1>3

LEMMA BdBegins == Bluedroid!BdStart => ServicesInv
<1> SUFFICES ASSUME Bluedroid!BdStart
             PROVE  ServicesInv
  OBVIOUS
<1>1. /\ up = FALSE /\ requests = <<>> /\ made = <<>> /\ hosted = <<>> /\ count = 0 /\ oldCount = 0
      /\ diff = [i \in 1 .. EntryRoom |-> <<>>] /\ target = [i \in 1 .. EntryRoom |-> 0]
      /\ reg = "idle" /\ regSvc = 1 /\ regChar = 1 /\ semaphore = FALSE /\ addPc = "ready"
      /\ failed = 0 /\ refused = FALSE
  BY DEF Bluedroid!BdStart
<1>2. /\ made \in Seq([entry : 1 .. EntryRoom, char : 1 .. CharRoom + 1]) /\ hosted \in Seq(1 .. EntryRoom)
      /\ Len(made) = 0 /\ Len(hosted) = 0 /\ requests \in Seq(RequestsFor(Len(hosted)))
  BY <1>1
<1>3. diff \in [1 .. EntryRoom -> Rows]
  <2>1. <<>> \in [1 .. 0 -> 0 .. HandleRoom] /\ 0 \in 0 .. CharRoom
    BY BluedroidAssumption
  <2>2. <<>> \in Rows
    BY <2>1 DEF Rows
  <2> QED
    BY <1>1, <2>2
<1>4. Bluedroid!BdTypeOK
  <2>1. target \in [1 .. EntryRoom -> 0 .. HandleRoom]
    BY <1>1, BluedroidAssumption
  <2>2. /\ count \in 0 .. EntryRoom /\ oldCount \in 0 .. EntryRoom /\ failed \in 0 .. FailureRoom
        /\ regSvc \in 1 .. EntryRoom /\ regChar \in 1 .. CharRoom + 1
    BY <1>1, BluedroidAssumption
  <2>3. /\ up \in BOOLEAN /\ semaphore \in BOOLEAN /\ refused \in BOOLEAN
        /\ reg \in {"idle", "creating", "starting", "adding", "complete"} /\ addPc \in {"ready", "moved", "create", "wait"}
    BY <1>1
  <2> QED
    BY ONLY <1>2, <1>3, <2>1, <2>2, <2>3 DEF Bluedroid!BdTypeOK, Rows
<1>5. BdShape
  BY <1>1, <1>2, <1>4, BluedroidAssumption DEF BdShape
<1>6. CallInv /\ Placed(made, diff, count) /\ InOrder(diff, count, addPc, regSvc, regChar)
      /\ NoneLeft(diff, count, addPc, regSvc, regChar)
  BY <1>1, <1>2 DEF CallInv, Placed, InOrder, NoneLeft
<1> QED
  BY <1>5, <1>6 DEF ServicesInv

LEMMA BeginsAgain == Bluedroid!BdStart' => ServicesInv'
BY BdBegins, PTL

LEMMA PanicBegins ==
  ASSUME Bluedroid!BdPanic
  PROVE  ServicesInv'
<1>1. Bluedroid!BdStart'
  BY DEF Bluedroid!BdPanic, Bluedroid!BdStart
<1> QED
  BY <1>1, BeginsAgain

(* A request is taken, and another may be made. *)
LEMMA TakeRequest ==
  ASSUME NEW n, NEW s \in Seq(RequestsFor(n)), s # <<>>
  PROVE  /\ Head(s) \in RequestsFor(n) /\ Tail(s) \in Seq(RequestsFor(n)) /\ Len(Tail(s)) = Len(s) - 1
         /\ \A r \in RequestsFor(n) : Append(Tail(s), r) \in Seq(RequestsFor(n)) /\ Append(Tail(s), r) # <<>>
         /\ \A r : s = <<r>> => Head(s) = r /\ Tail(s) = <<>>
         /\ Len(s) = 1 => Head(s) = s[1] /\ Tail(s) = <<>>
         /\ \A r : Len(s) = 1 => Append(Tail(s), r) = <<r>>
<1> DEFINE R == RequestsFor(n)
<1>1. s \in Seq(R) /\ s # <<>>
  OBVIOUS
<1> HIDE DEF R
<1>2. Head(s) \in R /\ Tail(s) \in Seq(R) /\ Len(Tail(s)) = Len(s) - 1 /\ Head(s) = s[1] /\ Len(s) \in Nat
  BY <1>1, HeadTailProperties
<1>3. \A r \in R : Append(Tail(s), r) \in Seq(R) /\ Append(Tail(s), r) # <<>>
  BY <1>2, AppendProperties
<1>5. Len(s) = 1 => Tail(s) = <<>>
  <2>1. Len(s) = 1 => Len(Tail(s)) = 0
    BY <1>2
  <2> QED
    BY ONLY <1>2, <2>1, EmptySeq
<1>4. \A r : s = <<r>> => Head(s) = r /\ Tail(s) = <<>>
  <2> SUFFICES ASSUME NEW r, s = <<r>>
               PROVE  Head(s) = r /\ Tail(s) = <<>>
    OBVIOUS
  <2>1. Len(s) = 1 /\ s[1] = r
    OBVIOUS
  <2> QED
    BY <1>2, <1>5, <2>1
<1>6. \A r : Append(<<>>, r) = <<r>>
  OBVIOUS
<1> QED
  BY <1>2, <1>3, <1>4, <1>5, <1>6 DEF R

LEMMA MoreRequests ==
  ASSUME NEW n \in Nat, NEW s \in Seq(RequestsFor(n))
  PROVE  s \in Seq(RequestsFor(n + 1))
<1>1. RequestsFor(n) \subseteq RequestsFor(n + 1)
  BY DEF RequestsFor
<1> QED
  BY <1>1

LEMMA NextShape ==
  ASSUME BdShape, requests # <<>>, NEW char \in 1 .. CharRoom + 1, NEW state, NEW bad \in BOOLEAN,
         state \in {"idle", "creating", "starting", "adding", "complete"}, Bluedroid!AddNext(char, state, bad)
  PROVE  /\ regChar' \in 1 .. CharRoom + 1 /\ reg' \in {"idle", "creating", "starting", "adding", "complete"}
         /\ semaphore' \in BOOLEAN /\ refused' \in BOOLEAN /\ requests' \in Seq(RequestsFor(Len(hosted)))
<1> DEFINE next == [what |-> "char", at |-> target[regSvc]]
<1>1. next \in RequestsFor(Len(hosted))
  BY DEF BdShape, RequestsFor, Bluedroid!BdTypeOK
<1>2. Tail(requests) \in Seq(RequestsFor(Len(hosted))) /\ Append(Tail(requests), next) \in Seq(RequestsFor(Len(hosted)))
  BY <1>1, TakeRequest DEF BdShape
<1>3. requests' = Tail(requests) \/ requests' = Append(Tail(requests), next)
  BY DEF Bluedroid!AddNext, Bluedroid!Complete
<1>4. requests' \in Seq(RequestsFor(Len(hosted)))
  BY <1>2, <1>3
<1> HIDE DEF next
<1>5. semaphore \in BOOLEAN
  BY DEF BdShape, Bluedroid!BdTypeOK
<1> QED
  BY <1>4, <1>5 DEF Bluedroid!AddNext, Bluedroid!Complete

(* One cell of the table is written. *)
CellSet(d, f, n, i, j, x) ==
  /\ \A e \in 1 .. n : Len(f[e]) = Len(d[e])
  /\ f[i][j] = x
  /\ \A e \in 1 .. n : \A c \in 1 .. Len(d[e]) : e # i \/ c # j => f[e][c] = d[e][c]

LEMMA CellWritten ==
  ASSUME Bluedroid!BdTypeOK, NEW i \in 1 .. EntryRoom, NEW j \in 1 .. Len(diff[i]), NEW x \in 0 .. HandleRoom,
         NEW f, f = [diff EXCEPT ![i][j] = x]
  PROVE  f \in [1 .. EntryRoom -> Rows] /\ CellSet(diff, f, EntryRoom, i, j, x)
<1> DEFINE row == [diff[i] EXCEPT ![j] = x]
<1>1. diff[i] \in [1 .. Len(diff[i]) -> 0 .. HandleRoom] /\ Len(diff[i]) \in 0 .. CharRoom
  BY RowShape
<1>2. row \in [1 .. Len(diff[i]) -> 0 .. HandleRoom] /\ row[j] = x /\ \A c \in 1 .. Len(diff[i]) : c # j => row[c] = diff[i][c]
  BY <1>1
<1>3. Len(row) = Len(diff[i]) /\ row \in Rows
  BY <1>1, <1>2 DEF Rows
<1>4. diff \in [1 .. EntryRoom -> Rows]
  BY DEF Bluedroid!BdTypeOK, Rows
<1>5. f = [diff EXCEPT ![i] = row]
  BY <1>4
<1> HIDE DEF row
<1> QED
  BY <1>2, <1>3, <1>4, <1>5 DEF CellSet

(* A step that leaves the table alone and the call where it was keeps the types. *)
LEMMA SvcShape ==
  ASSUME BdShape,
         requests' \in Seq(RequestsFor(Len(hosted))), requests # <<>>,
         regChar' \in 1 .. CharRoom + 1, reg' \in {"idle", "creating", "starting", "adding", "complete"},
         semaphore' \in BOOLEAN, refused' \in BOOLEAN,
         UNCHANGED <<up, made, hosted, diff, target, count, regSvc, addPc, oldCount, failed>>
  PROVE  BdShape'
BY DEF BdShape, Bluedroid!BdTypeOK

(* The events. *)
LEMMA CreatedShape ==
  ASSUME BdShape, Bluedroid!ServiceCreated
  PROVE  BdShape'
<1> DEFINE n == Len(hosted)
           r == Head(requests)
<1>1. /\ requests # <<>> /\ r.what = "create"
      /\ UNCHANGED <<up, made, diff, count, regSvc, addPc, oldCount, failed>>
  BY DEF Bluedroid!ServiceCreated, Bluedroid!Answering
<1>2. /\ n \in Nat /\ requests \in Seq(RequestsFor(n)) /\ hosted \in Seq(1 .. EntryRoom) /\ n <= HandleRoom
      /\ regSvc \in 1 .. EntryRoom
  BY DEF BdShape, Bluedroid!BdTypeOK
<1>3. r \in RequestsFor(n) /\ r.at \in 1 .. EntryRoom /\ Tail(requests) \in Seq(RequestsFor(n))
  <2>1. r \in RequestsFor(n) /\ Tail(requests) \in Seq(RequestsFor(n))
    BY <1>1, <1>2, TakeRequest
  <2> HIDE DEF n, r
  <2> QED
    BY <1>1, <2>1 DEF RequestsFor
<1>4. CASE Bluedroid!Complete /\ refused' = TRUE /\ UNCHANGED <<hosted, target, regChar>>
  <2>1. requests' = Tail(requests) /\ reg' = "complete" /\ semaphore' = TRUE
    BY <1>4 DEF Bluedroid!Complete
  <2>2. regChar' \in 1 .. CharRoom + 1 /\ refused' \in BOOLEAN
    BY <1>4 DEF BdShape, Bluedroid!BdTypeOK
  <2> QED
    BY <1>1, <1>3, <1>4, <2>1, <2>2, SvcShape
<1>5. CASE n < HandleRoom /\ hosted' = Append(hosted, r.at) /\ UNCHANGED refused
           /\ IF reg = "creating"
              THEN /\ target' = [target EXCEPT ![regSvc] = Len(hosted')]
                   /\ reg' = "starting" /\ UNCHANGED <<regChar, semaphore>>
                   /\ requests' = Append(Tail(requests), [what |-> "start", at |-> Len(hosted')])
              ELSE Bluedroid!Ignore /\ UNCHANGED target
  <2>1. hosted' \in Seq(1 .. EntryRoom) /\ Len(hosted') = n + 1 /\ n + 1 <= HandleRoom
    BY <1>2, <1>3, <1>5, AppendProperties, BluedroidAssumption
  <2>2. Tail(requests) \in Seq(RequestsFor(n + 1)) /\ requests \in Seq(RequestsFor(n + 1))
    <3> HIDE DEF n
    <3> QED
      BY <1>2, <1>3, MoreRequests
  <2>3. [what |-> "start", at |-> Len(hosted')] \in RequestsFor(n + 1)
    BY <1>2, <2>1 DEF RequestsFor
  <2>4. requests' \in Seq(RequestsFor(Len(hosted')))
    <3>1. CASE reg = "creating"
      <4>1. requests' = Append(Tail(requests), [what |-> "start", at |-> Len(hosted')])
        BY <1>5, <3>1
      <4>2. Append(Tail(requests), [what |-> "start", at |-> Len(hosted')]) \in Seq(RequestsFor(n + 1))
        BY <2>2, <2>3, AppendProperties
      <4> QED
        BY <2>1, <4>1, <4>2
    <3>2. CASE reg # "creating"
      BY <1>5, <2>1, <2>2, <3>2 DEF Bluedroid!Ignore
    <3> QED
      BY <3>1, <3>2
  <2>5. /\ reg' \in {"idle", "creating", "starting", "adding", "complete"} /\ regChar' = regChar /\ semaphore' = semaphore
        /\ target' = target \/ target' = [target EXCEPT ![regSvc] = n + 1]
    BY <1>5, <2>1 DEF Bluedroid!Ignore, BdShape, Bluedroid!BdTypeOK
  <2>6. /\ target' \in [1 .. EntryRoom -> 0 .. HandleRoom]
        /\ \A i \in 1 .. EntryRoom : target[i] \in 0 .. n => target'[i] \in 0 .. n + 1
    <3>1. target \in [1 .. EntryRoom -> 0 .. HandleRoom]
      BY DEF BdShape, Bluedroid!BdTypeOK
    <3> HIDE DEF n
    <3>2. n + 1 \in 0 .. HandleRoom /\ n + 1 \in 0 .. n + 1 /\ \A k \in 0 .. n : k \in 0 .. n + 1
      BY <1>2, <2>1, BluedroidAssumption
    <3>3. CASE target' = target
      BY <3>1, <3>2, <3>3
    <3>4. CASE target' = [target EXCEPT ![regSvc] = n + 1]
      BY <1>2, <3>1, <3>2, <3>4
    <3> QED
      BY <2>5, <3>3, <3>4
  <2>7. Bluedroid!BdTypeOK'
    BY <1>1, <1>5, <2>1, <2>5, <2>6 DEF BdShape, Bluedroid!BdTypeOK
  <2>8. /\ addPc' \in {"create", "wait"} => \A i \in regSvc' .. count' : target'[i] \in 0 .. Len(hosted')
        /\ addPc' = "moved" => \A i \in count' + 1 .. EntryRoom : target'[i] \in 0 .. Len(hosted')
    <3>1. count \in 0 .. EntryRoom
      BY DEF BdShape, Bluedroid!BdTypeOK
    <3>2. /\ addPc \in {"create", "wait"} => \A i \in regSvc .. count : target[i] \in 0 .. n
          /\ addPc = "moved" => \A i \in count + 1 .. EntryRoom : target[i] \in 0 .. n
      BY DEF BdShape
    <3>3. /\ addPc' = addPc /\ regSvc' = regSvc /\ count' = count /\ Len(hosted') = n + 1
          /\ regSvc \in 1 .. EntryRoom /\ EntryRoom \in Nat /\ count \in Nat /\ count <= EntryRoom
      BY <1>1, <1>2, <2>1, <3>1, BluedroidAssumption
    <3> HIDE DEF n
    <3>4. \A i \in regSvc .. count : i \in 1 .. EntryRoom
      BY <3>3
    <3>5. \A i \in count + 1 .. EntryRoom : i \in 1 .. EntryRoom
      BY <3>3
    <3>6. addPc \in {"create", "wait"} => \A i \in regSvc .. count : target'[i] \in 0 .. n + 1
      BY <2>6, <3>2, <3>4
    <3>7. addPc = "moved" => \A i \in count + 1 .. EntryRoom : target'[i] \in 0 .. n + 1
      BY <2>6, <3>2, <3>5
    <3> QED
      BY <3>3, <3>6, <3>7
  <2>9. target'[regSvc'] \in 0 .. Len(hosted')
    <3>1. target[regSvc] \in 0 .. n
      BY <1>1 DEF BdShape
    <3> HIDE DEF n
    <3> QED
      BY <1>1, <1>2, <2>1, <2>6, <3>1
  <2> QED
    BY <1>1, <2>1, <2>4, <2>7, <2>8, <2>9 DEF BdShape
<1> QED
  BY <1>4, <1>5 DEF Bluedroid!ServiceCreated

LEMMA StartedShape ==
  ASSUME BdShape, Bluedroid!ServiceStarted
  PROVE  BdShape'
<1>1. requests # <<>> /\ UNCHANGED <<up, made, hosted, diff, target, count, regSvc, addPc, oldCount, failed>>
  BY DEF Bluedroid!ServiceStarted, Bluedroid!Answering
<1>2. /\ regChar \in 1 .. CharRoom + 1 /\ reg \in {"idle", "creating", "starting", "adding", "complete"}
      /\ semaphore \in BOOLEAN /\ refused \in BOOLEAN /\ 1 \in 1 .. CharRoom + 1
      /\ Tail(requests) \in Seq(RequestsFor(Len(hosted)))
  BY <1>1, TakeRequest, BluedroidAssumption DEF BdShape, Bluedroid!BdTypeOK
<1>3. CASE Bluedroid!AddNext(1, "adding", refused)
  <2>1. /\ regChar' \in 1 .. CharRoom + 1 /\ reg' \in {"idle", "creating", "starting", "adding", "complete"}
        /\ semaphore' \in BOOLEAN /\ refused' \in BOOLEAN /\ requests' \in Seq(RequestsFor(Len(hosted)))
    BY <1>1, <1>2, <1>3, NextShape
  <2> QED
    BY <1>1, <2>1, SvcShape
<1>4. CASE (Bluedroid!Ignore /\ UNCHANGED refused) \/ (Bluedroid!Complete /\ refused' = TRUE /\ UNCHANGED regChar)
  <2>1. /\ requests' = Tail(requests) /\ regChar' = regChar /\ reg' \in {reg, "complete"}
        /\ semaphore' \in {semaphore, TRUE} /\ refused' \in {refused, TRUE}
    BY <1>4 DEF Bluedroid!Ignore, Bluedroid!Complete
  <2> QED
    BY <1>1, <1>2, <2>1, SvcShape
<1> QED
  BY <1>3, <1>4 DEF Bluedroid!ServiceStarted

LEMMA CharShape ==
  ASSUME BdShape, Bluedroid!CharAdded, ~Bluedroid!BdPanic
  PROVE  BdShape'
<1>1. requests # <<>> /\ Head(requests).what = "char" /\ UNCHANGED <<up, hosted, target, count, regSvc, addPc, oldCount, failed>>
  BY DEF Bluedroid!CharAdded, Bluedroid!Answering
<1>2. /\ regChar \in 1 .. CharRoom + 1 /\ reg \in {"idle", "creating", "starting", "adding", "complete"}
      /\ semaphore \in BOOLEAN /\ refused \in BOOLEAN /\ regSvc \in 1 .. EntryRoom
      /\ Tail(requests) \in Seq(RequestsFor(Len(hosted))) /\ Head(requests) \in RequestsFor(Len(hosted))
      /\ made \in Seq([entry : 1 .. EntryRoom, char : 1 .. CharRoom + 1]) /\ hosted \in Seq(1 .. EntryRoom)
      /\ diff \in [1 .. EntryRoom -> Rows]
  BY <1>1, TakeRequest DEF BdShape, Bluedroid!BdTypeOK, Rows
<1>3. ASSUME /\ Head(requests).at # 0 /\ Len(made) < HandleRoom
             /\ reg = "adding" => regChar <= Len(diff[regSvc])
             /\ made' = Append(made, [entry |-> hosted[Head(requests).at], char |-> regChar])
             /\ IF reg = "adding"
                THEN diff' = [diff EXCEPT ![regSvc][regChar] = Len(made')] /\ Bluedroid!AddNext(regChar + 1, reg, refused)
                ELSE Bluedroid!Ignore /\ UNCHANGED <<diff, refused>>
      PROVE  BdShape'
  <2>1. Head(requests).at \in 1 .. Len(hosted)
    BY <1>1, <1>2, <1>3 DEF RequestsFor
  <2>2. [entry |-> hosted[Head(requests).at], char |-> regChar] \in [entry : 1 .. EntryRoom, char : 1 .. CharRoom + 1]
    BY <1>2, <2>1, ElementOfSeq
  <2>3. /\ made' \in Seq([entry : 1 .. EntryRoom, char : 1 .. CharRoom + 1])
        /\ Len(made') \in 0 .. HandleRoom
    <3>1. /\ made' \in Seq([entry : 1 .. EntryRoom, char : 1 .. CharRoom + 1]) /\ Len(made') = Len(made) + 1
          /\ Len(made) \in Nat
      BY <1>2, <1>3, <2>2, AppendProperties
    <3> QED
      BY <1>3, <3>1, BluedroidAssumption
  <2>4. diff' \in [1 .. EntryRoom -> Rows]
    <3>1. CASE reg = "adding"
      <4>1. Len(diff[regSvc]) \in 0 .. CharRoom /\ Bluedroid!BdTypeOK
        BY <1>2, RowShape DEF BdShape
      <4>2. regChar \in 1 .. Len(diff[regSvc])
        BY <1>2, <1>3, <3>1, <4>1
      <4>3. diff' = [diff EXCEPT ![regSvc][regChar] = Len(made')]
        BY <1>3, <3>1
      <4> QED
        BY ONLY <1>2, <2>3, <4>1, <4>2, <4>3, CellWritten
    <3>2. CASE reg # "adding"
      BY <1>2, <1>3, <3>2
    <3> QED
      BY <3>1, <3>2
  <2>5. /\ regChar' \in 1 .. CharRoom + 1 /\ reg' \in {"idle", "creating", "starting", "adding", "complete"}
        /\ semaphore' \in BOOLEAN /\ refused' \in BOOLEAN /\ requests' \in Seq(RequestsFor(Len(hosted)))
    <3>1. CASE reg = "adding"
      <4>1. regChar + 1 \in 1 .. CharRoom + 1
        <5>1. Len(diff[regSvc]) \in 0 .. CharRoom
          BY <1>2, RowShape DEF BdShape
        <5> QED
          BY <1>2, <1>3, <3>1, <5>1, BluedroidAssumption
      <4>2. Bluedroid!AddNext(regChar + 1, reg, refused)
        BY <1>3, <3>1
      <4> QED
        BY ONLY BdShape, <1>1, <1>2, <4>1, <4>2, NextShape
    <3>2. CASE reg # "adding"
      BY <1>2, <1>3, <3>2 DEF Bluedroid!Ignore
    <3> QED
      BY <3>1, <3>2
  <2> QED
    BY <1>1, <2>3, <2>4, <2>5 DEF BdShape, Bluedroid!BdTypeOK, Rows
<1>4. ASSUME Bluedroid!AddNext(IF regChar > CharRoom THEN regChar ELSE regChar + 1, reg, TRUE), UNCHANGED <<made, diff>>
      PROVE  BdShape'
  <2>1. (IF regChar > CharRoom THEN regChar ELSE regChar + 1) \in 1 .. CharRoom + 1
    BY <1>2, BluedroidAssumption
  <2>2. /\ regChar' \in 1 .. CharRoom + 1 /\ reg' \in {"idle", "creating", "starting", "adding", "complete"}
        /\ semaphore' \in BOOLEAN /\ refused' \in BOOLEAN /\ requests' \in Seq(RequestsFor(Len(hosted)))
    <3> DEFINE char == IF regChar > CharRoom THEN regChar ELSE regChar + 1
    <3>1. char \in 1 .. CharRoom + 1 /\ Bluedroid!AddNext(char, reg, TRUE)
      BY <1>4, <2>1
    <3> HIDE DEF char
    <3> QED
      BY <1>1, <1>2, <3>1, NextShape
  <2> QED
    BY <1>1, <1>4, <2>2, SvcShape
<1> QED
  BY <1>3, <1>4 DEF Bluedroid!CharAdded

(* The caller. *)
LEMMA BeginShape ==
  ASSUME BdShape, Bluedroid!BeginAdd
  PROVE  BdShape'
<1>1. /\ up /\ addPc' = "moved" /\ failed < FailureRoom
      /\ diff' = [i \in 1 .. EntryRoom |-> IF i > count THEN <<>> ELSE diff[i]]
      /\ target' = [i \in 1 .. EntryRoom |-> IF i > count THEN 0 ELSE target[i]]
      /\ oldCount' = count
      /\ UNCHANGED <<up, requests, made, hosted, count, reg, regSvc, regChar, semaphore, failed, refused>>
  BY DEF Bluedroid!BeginAdd
<1>2. count \in 0 .. EntryRoom /\ regSvc \in 1 .. EntryRoom
  BY DEF BdShape, Bluedroid!BdTypeOK
<1>3. diff' \in [1 .. EntryRoom -> Rows]
  <2>1. diff \in [1 .. EntryRoom -> Rows]
    BY DEF BdShape, Bluedroid!BdTypeOK, Rows
  <2>2. <<>> \in [1 .. 0 -> 0 .. HandleRoom] /\ 0 \in 0 .. CharRoom
    BY BluedroidAssumption
  <2>3. <<>> \in Rows
    BY <2>2 DEF Rows
  <2> QED
    BY <1>1, <2>1, <2>3
<1>4. /\ target' \in [1 .. EntryRoom -> 0 .. HandleRoom] /\ target'[regSvc] \in {0, target[regSvc]}
      /\ \A i \in count + 1 .. EntryRoom : target'[i] = 0
  <2>1. target \in [1 .. EntryRoom -> 0 .. HandleRoom] /\ 0 \in 0 .. HandleRoom
    BY BluedroidAssumption DEF BdShape, Bluedroid!BdTypeOK
  <2>2. \A i \in count + 1 .. EntryRoom : i \in 1 .. EntryRoom /\ i > count
    BY <1>2, BluedroidAssumption
  <2> QED
    BY <1>1, <1>2, <2>1, <2>2
<1>5. Bluedroid!BdTypeOK'
  <2> USE DEF BdShape
  <2> QED
    BY <1>1, <1>2, <1>3, <1>4 DEF Bluedroid!BdTypeOK, Rows
<1>6. /\ requests' # <<>> => target'[regSvc'] \in 0 .. Len(hosted')
      /\ \A i \in count' + 1 .. EntryRoom : target'[i] \in 0 .. Len(hosted')
  <2>1. Len(hosted) \in Nat /\ 0 \in 0 .. Len(hosted)
    BY DEF BdShape, Bluedroid!BdTypeOK
  <2> QED
    BY <1>1, <1>4, <2>1 DEF BdShape
<1> QED
  BY <1>1, <1>4, <1>5, <1>6 DEF BdShape

LEMMA FillShape ==
  ASSUME BdShape, NEW sizes \in Seq(0 .. CharRoom), sizes # <<>>, Bluedroid!FillEntries(sizes)
  PROVE  BdShape'
<1> DEFINE n == Len(sizes)
<1>1. /\ addPc = "moved" /\ count + n <= EntryRoom /\ diff' = Bluedroid!Filled(sizes)
      /\ count' = count + n /\ regSvc' = count + 1 /\ regChar' = 1 /\ addPc' = "create"
      /\ UNCHANGED <<up, requests, made, hosted, target, reg, semaphore, oldCount, failed, refused>>
  BY DEF Bluedroid!FillEntries
<1>2. n \in Nat /\ n > 0 /\ count \in 0 .. EntryRoom
  BY DEF BdShape, Bluedroid!BdTypeOK
<1>3. diff' \in [1 .. EntryRoom -> Rows]
  <2>1. diff \in [1 .. EntryRoom -> Rows]
    BY DEF BdShape, Bluedroid!BdTypeOK, Rows
  <2>2. ASSUME NEW i \in 1 .. EntryRoom, i \in count + 1 .. count + n
        PROVE  [c \in 1 .. sizes[i - count] |-> 0] \in Rows
    <3>1. i - count \in 1 .. n
      BY <1>2, <2>2
    <3>2. sizes[i - count] \in 0 .. CharRoom
      BY <3>1, ElementOfSeq
    <3> HIDE DEF n
    <3> QED
      BY <3>2, BluedroidAssumption DEF Rows
  <2>3. diff' = [i \in 1 .. EntryRoom |-> IF i \in count + 1 .. count + n THEN [c \in 1 .. sizes[i - count] |-> 0] ELSE diff[i]]
    BY <1>1 DEF Bluedroid!Filled
  <2> HIDE DEF n
  <2> QED
    BY <2>1, <2>2, <2>3
<1> HIDE DEF n
<1>4. \A i \in count + 1 .. count + n : target[i] \in 0 .. Len(hosted)
  <2>1. \A i \in count + 1 .. count + n : i \in count + 1 .. EntryRoom
    BY <1>1, <1>2, BluedroidAssumption
  <2> QED
    BY <1>1, <2>1 DEF BdShape
<1>5. /\ count' \in 0 .. EntryRoom /\ regSvc' \in 1 .. EntryRoom /\ regChar' \in 1 .. CharRoom + 1
      /\ regSvc' <= count' /\ 0 \in 0 .. Len(hosted)
  <2>1. Len(hosted) \in Nat
    BY DEF BdShape, Bluedroid!BdTypeOK
  <2> QED
    BY <1>1, <1>2, <2>1, BluedroidAssumption
<1>6. Bluedroid!BdTypeOK'
  <2> USE DEF BdShape
  <2> QED
    BY <1>1, <1>3, <1>5 DEF Bluedroid!BdTypeOK, Rows
<1>7. /\ \A i \in regSvc' .. count' : target'[i] \in 0 .. Len(hosted')
      /\ target'[regSvc'] \in 0 .. Len(hosted')
  BY <1>1, <1>2, <1>4, <1>5
<1> QED
  BY <1>1, <1>5, <1>6, <1>7 DEF BdShape

LEMMA CleanupShape ==
  ASSUME BdShape, addPc # "ready", Bluedroid!FailCleanup
  PROVE  /\ diff' \in [1 .. EntryRoom -> Rows] /\ count' \in 0 .. EntryRoom /\ failed' \in 0 .. FailureRoom
         /\ addPc' = "ready" /\ failed' # 0
<1>1. diff' \in [1 .. EntryRoom -> Rows]
  <2>1. diff \in [1 .. EntryRoom -> Rows]
    BY DEF BdShape, Bluedroid!BdTypeOK, Rows
  <2>2. <<>> \in Rows
    <3>1. <<>> \in [1 .. 0 -> 0 .. HandleRoom] /\ 0 \in 0 .. CharRoom
      BY BluedroidAssumption
    <3> QED
      BY <3>1 DEF Rows
  <2> QED
    BY <2>1, <2>2 DEF Bluedroid!FailCleanup
<1>2. failed \in Nat /\ failed < FailureRoom /\ oldCount \in 0 .. EntryRoom /\ FailureRoom \in Nat
  BY BluedroidAssumption DEF BdShape, Bluedroid!BdTypeOK
<1> QED
  BY <1>1, <1>2 DEF Bluedroid!FailCleanup

LEMMA CallShape ==
  ASSUME BdShape, Bluedroid!BdInit \/ Bluedroid!BdDeinit \/ Bluedroid!FillFails \/ Bluedroid!CreateService
                  \/ Bluedroid!TakeSemaphore \/ Bluedroid!AddTimesOut
  PROVE  BdShape'
<1>1. CASE Bluedroid!BdInit
  BY <1>1 DEF Bluedroid!BdInit, BdShape, Bluedroid!BdTypeOK
<1>2. CASE Bluedroid!BdDeinit
  <2>1. /\ made' \in Seq([entry : 1 .. EntryRoom, char : 1 .. CharRoom + 1]) /\ hosted' \in Seq(1 .. EntryRoom)
        /\ Len(made') = 0 /\ Len(hosted') = 0 /\ requests' \in Seq(RequestsFor(Len(hosted'))) /\ requests' = <<>>
    BY <1>2 DEF Bluedroid!BdDeinit
  <2>2. /\ addPc = "ready" /\ up' = FALSE /\ semaphore' = FALSE /\ count' = 0
        /\ UNCHANGED <<diff, target, reg, regSvc, regChar, addPc, oldCount, failed, refused>>
    BY <1>2 DEF Bluedroid!BdDeinit
  <2>3. 0 \in 0 .. EntryRoom /\ 0 <= HandleRoom
    BY BluedroidAssumption
  <2>4. Bluedroid!BdTypeOK
    BY DEF BdShape
  <2>5. Bluedroid!BdTypeOK'
    BY ONLY <2>1, <2>2, <2>3, <2>4 DEF Bluedroid!BdTypeOK
  <2> QED
    BY <2>1, <2>2, <2>3, <2>5 DEF BdShape
<1>3. CASE Bluedroid!CreateService
  <2>1. /\ addPc = "create" /\ reg' = "creating"
        /\ UNCHANGED <<up, made, hosted, target, regSvc, regChar, semaphore, oldCount, refused>>
    BY <1>3 DEF Bluedroid!CreateService
  <2>2. CASE Bluedroid!FailCleanup /\ UNCHANGED requests
    BY <2>1, <2>2, CleanupShape DEF BdShape, Bluedroid!BdTypeOK, Rows
  <2>3. CASE /\ requests' = Append(requests, [what |-> "create", at |-> regSvc])
             /\ addPc' = "wait" /\ UNCHANGED <<diff, count, failed>>
    <3>1. [what |-> "create", at |-> regSvc] \in RequestsFor(Len(hosted)) /\ requests \in Seq(RequestsFor(Len(hosted)))
      BY DEF BdShape, Bluedroid!BdTypeOK, RequestsFor
    <3>2. requests' \in Seq(RequestsFor(Len(hosted)))
      BY <2>3, <3>1, AppendProperties
    <3>3. target[regSvc] \in 0 .. Len(hosted)
      <4>1. regSvc \in regSvc .. count
        BY <2>1 DEF BdShape, Bluedroid!BdTypeOK
      <4> QED
        BY <2>1, <4>1 DEF BdShape
    <3> QED
      BY <2>1, <2>3, <3>2, <3>3 DEF BdShape, Bluedroid!BdTypeOK
  <2> QED
    BY <1>3, <2>2, <2>3 DEF Bluedroid!CreateService
<1>4. CASE Bluedroid!TakeSemaphore
  <2>1. /\ addPc = "wait" /\ semaphore' = FALSE
        /\ UNCHANGED <<up, requests, made, hosted, diff, target, count, reg, oldCount, failed, refused>>
        /\ IF regSvc < count
           THEN regSvc' = regSvc + 1 /\ regChar' = 1 /\ addPc' = "create"
           ELSE addPc' = "ready" /\ UNCHANGED <<regSvc, regChar>>
    BY <1>4 DEF Bluedroid!TakeSemaphore, Bluedroid!GoOn
  <2>2. /\ regSvc \in 1 .. EntryRoom /\ count \in 0 .. EntryRoom /\ regSvc <= count
        /\ \A i \in regSvc .. count : target[i] \in 0 .. Len(hosted)
    BY <2>1 DEF BdShape, Bluedroid!BdTypeOK
  <2>3. CASE regSvc < count
    <3>1. regSvc' \in 1 .. EntryRoom /\ regChar' \in 1 .. CharRoom + 1 /\ regSvc' <= count'
          /\ regSvc' \in regSvc .. count /\ \A i \in regSvc' .. count' : i \in regSvc .. count
      BY <2>1, <2>2, <2>3, BluedroidAssumption
    <3> QED
      BY <2>1, <2>2, <2>3, <3>1 DEF BdShape, Bluedroid!BdTypeOK
  <2>4. CASE ~(regSvc < count)
    BY <2>1, <2>4 DEF BdShape, Bluedroid!BdTypeOK
  <2> QED
    BY <2>3, <2>4
<1>5. CASE Bluedroid!AddTimesOut
  <2>1. /\ addPc = "wait" /\ Bluedroid!FailCleanup
        /\ UNCHANGED <<up, requests, made, hosted, target, reg, regSvc, regChar, semaphore, oldCount, refused>>
    BY <1>5 DEF Bluedroid!AddTimesOut
  <2> QED
    BY <2>1, CleanupShape DEF BdShape, Bluedroid!BdTypeOK, Rows
<1>6. CASE Bluedroid!FillFails
  BY <1>6 DEF Bluedroid!FillFails, BdShape, Bluedroid!BdTypeOK
<1> QED
  BY <1>1, <1>2, <1>3, <1>4, <1>5, <1>6

(* Where no call has failed an answer is the one that is waited for. *)
LEMMA Awaited ==
  ASSUME BdShape, CallInv, requests # <<>>
  PROVE  /\ addPc = "wait" /\ ~semaphore /\ Pending /\ Len(requests) = 1
         /\ Head(requests) = requests[1] /\ Tail(requests) = <<>> /\ \A r : Append(Tail(requests), r) = <<r>>
<1>1. addPc = "wait" /\ ~semaphore /\ Pending
  BY DEF CallInv, Answered, BdShape, Bluedroid!BdTypeOK
<1>2. Len(requests) = 1
  <2>1. CASE requests = <<[what |-> "create", at |-> regSvc]>>
    BY <2>1
  <2>2. CASE requests = <<[what |-> "char", at |-> target[regSvc]]>>
    BY <2>2
  <2> QED
    BY <1>1, <2>1, <2>2 DEF Pending
<1>3. requests \in Seq(RequestsFor(Len(hosted)))
  BY DEF BdShape
<1> QED
  BY <1>1, <1>2, <1>3, TakeRequest

LEMMA NextCall ==
  ASSUME addPc = "wait", ~semaphore, Tail(requests) = <<>>, \A r : Append(Tail(requests), r) = <<r>>,
         UNCHANGED <<addPc, regSvc, target, hosted>>, Len(diff'[regSvc]) = Len(diff[regSvc]),
         target[regSvc] # 0, hosted[target[regSvc]] = regSvc,
         NEW char, NEW bad, Bluedroid!AddNext(char, "adding", bad)
  PROVE  CallInv'
<1>1. CASE char > Len(diff[regSvc]) /\ Bluedroid!Complete /\ refused' = bad
  <2>1. regChar' = char /\ semaphore' = TRUE /\ requests' = <<>>
    BY <1>1 DEF Bluedroid!Complete, Bluedroid!AddNext
  <2>2. Answered'
    BY <1>1, <2>1 DEF Answered
  <2> QED
    BY <2>1, <2>2 DEF CallInv
<1>2. CASE /\ char <= Len(diff[regSvc]) /\ reg' = "adding" /\ refused' = bad /\ UNCHANGED semaphore
           /\ requests' = Append(Tail(requests), [what |-> "char", at |-> target[regSvc]])
  <2>1. regChar' = char /\ ~semaphore' /\ requests' = <<[what |-> "char", at |-> target[regSvc]]>>
    BY <1>2 DEF Bluedroid!AddNext
  <2>2. Pending'
    BY <1>2, <2>1 DEF Pending
  <2> QED
    BY <2>1, <2>2 DEF CallInv
<1>3. CASE Bluedroid!Complete /\ refused' = TRUE
  <2>1. semaphore' = TRUE /\ requests' = <<>>
    BY <1>3 DEF Bluedroid!Complete
  <2>2. Answered'
    BY <1>3, <2>1 DEF Answered
  <2> QED
    BY <2>1, <2>2 DEF CallInv
<1> QED
  BY <1>1, <1>2, <1>3 DEF Bluedroid!AddNext

LEMMA RefusedCall ==
  ASSUME addPc = "wait", Tail(requests) = <<>>, UNCHANGED addPc, Bluedroid!Complete, refused' = TRUE
  PROVE  CallInv'
BY DEF Bluedroid!Complete, CallInv, Answered

LEMMA CreatedCall ==
  ASSUME BdShape, CallInv, Bluedroid!ServiceCreated
  PROVE  CallInv' /\ regChar' = regChar
<1>1. /\ requests # <<>> /\ Head(requests).what = "create" /\ UNCHANGED <<regSvc, addPc, diff>>
  BY DEF Bluedroid!ServiceCreated, Bluedroid!Answering
<1>2. /\ addPc = "wait" /\ ~semaphore /\ Pending /\ Head(requests) = requests[1] /\ Tail(requests) = <<>>
      /\ \A r : Append(Tail(requests), r) = <<r>>
  BY <1>1, Awaited
<1>3. reg = "creating" /\ requests[1] = [what |-> "create", at |-> regSvc] /\ regChar = 1
  <2>1. CASE requests = <<[what |-> "char", at |-> target[regSvc]]>>
    BY <1>1, <1>2, <2>1
  <2>2. CASE requests = <<[what |-> "create", at |-> regSvc]>>
    BY <1>1, <1>2, <2>2 DEF Pending
  <2> QED
    BY <1>1, <1>2, <2>1, <2>2 DEF Pending
<1>4. CASE Bluedroid!Complete /\ refused' = TRUE /\ UNCHANGED <<hosted, target, regChar>>
  BY <1>1, <1>2, <1>4, RefusedCall
<1>5. CASE /\ hosted' = Append(hosted, regSvc) /\ target' = [target EXCEPT ![regSvc] = Len(hosted')]
           /\ reg' = "starting" /\ UNCHANGED <<regChar, semaphore>>
           /\ requests' = Append(Tail(requests), [what |-> "start", at |-> Len(hosted')])
  <2>1. /\ hosted \in Seq(1 .. EntryRoom) /\ regSvc \in 1 .. EntryRoom /\ target \in [1 .. EntryRoom -> 0 .. HandleRoom]
    BY DEF BdShape, Bluedroid!BdTypeOK
  <2>2. Len(hosted') \in Nat \ {0} /\ hosted'[Len(hosted')] = regSvc
    BY <1>5, <2>1, AppendProperties
  <2>3. target'[regSvc'] = Len(hosted')
    BY <1>1, <1>5, <2>1
  <2>4. requests' = <<[what |-> "start", at |-> Len(hosted')]>>
    BY <1>2, <1>5
  <2>5. Len(requests') = 1 /\ requests'[1].what = "start"
    BY <2>4
  <2>6. Pending'
    BY <1>1, <1>3, <1>5, <2>2, <2>3, <2>5 DEF Pending
  <2> QED
    BY <1>1, <1>2, <1>5, <2>6 DEF CallInv
<1>6. \/ Bluedroid!Complete /\ refused' = TRUE /\ UNCHANGED <<hosted, target, regChar>>
      \/ /\ hosted' = Append(hosted, regSvc) /\ target' = [target EXCEPT ![regSvc] = Len(hosted')]
         /\ reg' = "starting" /\ UNCHANGED <<regChar, semaphore>>
         /\ requests' = Append(Tail(requests), [what |-> "start", at |-> Len(hosted')])
  <2>1. Head(requests).at = regSvc
    BY <1>2, <1>3
  <2> QED
    BY <1>3, <2>1 DEF Bluedroid!ServiceCreated
<1> QED
  BY <1>4, <1>5, <1>6

LEMMA StartedCall ==
  ASSUME BdShape, CallInv, Bluedroid!ServiceStarted
  PROVE  CallInv' /\ regChar' = regChar
<1>1. /\ requests # <<>> /\ Head(requests).what = "start" /\ UNCHANGED <<regSvc, addPc, diff, target, hosted>>
  BY DEF Bluedroid!ServiceStarted, Bluedroid!Answering
<1>2. /\ addPc = "wait" /\ ~semaphore /\ Pending /\ Head(requests) = requests[1] /\ Tail(requests) = <<>>
      /\ \A r : Append(Tail(requests), r) = <<r>>
  BY <1>1, Awaited
<1>3. reg = "starting" /\ regChar = 1 /\ target[regSvc] # 0 /\ hosted[target[regSvc]] = regSvc
  <2>1. CASE requests = <<[what |-> "char", at |-> target[regSvc]]>>
    BY <1>1, <1>2, <2>1
  <2>2. CASE requests = <<[what |-> "create", at |-> regSvc]>>
    BY <1>1, <1>2, <2>2
  <2> QED
    BY <1>1, <1>2, <2>1, <2>2 DEF Pending
<1>4. CASE Bluedroid!AddNext(1, "adding", refused)
  <2>1. Len(diff'[regSvc]) = Len(diff[regSvc]) /\ regChar' = 1
    BY <1>1, <1>4 DEF Bluedroid!AddNext
  <2> QED
    BY <1>1, <1>2, <1>3, <1>4, <2>1, NextCall
<1>5. CASE Bluedroid!Complete /\ refused' = TRUE /\ UNCHANGED regChar
  BY <1>1, <1>2, <1>5, RefusedCall
<1> QED
  BY <1>3, <1>4, <1>5 DEF Bluedroid!ServiceStarted

(* The table: a handle more, in a cell that had none. *)
MadeMore(m, k, i, j) ==
  /\ Len(m) \in Nat /\ Len(k) = Len(m) + 1 /\ \A h \in 1 .. Len(m) : k[h] = m[h]
  /\ k[Len(k)].entry = i /\ k[Len(k)].char = j

LEMMA PlacedMore ==
  ASSUME NEW m, NEW d, NEW n, NEW i \in 1 .. n, NEW j \in 1 .. Len(d[i]), NEW k, NEW f,
         MadeMore(m, k, i, j), CellSet(d, f, n, i, j, Len(k)), d[i][j] = 0, Placed(m, d, n)
  PROVE  Placed(k, f, n)
<1> USE DEF MadeMore, CellSet
<1>1. ASSUME NEW h \in 1 .. Len(k)
      PROVE  k[h].entry \in 1 .. n /\ k[h].char \in 1 .. Len(f[k[h].entry]) /\ f[k[h].entry][k[h].char] = h
  <2>1. CASE h = Len(k)
    BY <2>1
  <2>2. CASE h \in 1 .. Len(m)
    <3>1. /\ m[h].entry \in 1 .. n /\ m[h].char \in 1 .. Len(d[m[h].entry]) /\ d[m[h].entry][m[h].char] = h
          /\ k[h] = m[h] /\ h # 0
      BY <2>2 DEF Placed
    <3> DEFINE e == m[h].entry
               c == m[h].char
    <3>2. e \in 1 .. n /\ c \in 1 .. Len(d[e]) /\ d[e][c] = h /\ k[h].entry = e /\ k[h].char = c /\ h # 0
      BY <3>1
    <3> HIDE DEF e, c
    <3>3. e # i \/ c # j
      BY <3>2
    <3>4. f[e][c] = h /\ c \in 1 .. Len(f[e])
      BY <3>2, <3>3
    <3> QED
      BY <3>2, <3>4
  <2> QED
    BY <2>1, <2>2
<1>2. ASSUME NEW e \in 1 .. n, NEW c \in 1 .. Len(f[e]), f[e][c] # 0
      PROVE  f[e][c] \in 1 .. Len(k) /\ k[f[e][c]].entry = e /\ k[f[e][c]].char = c
  <2>1. CASE e = i /\ c = j
    BY <2>1
  <2>2. CASE e # i \/ c # j
    <3>1. f[e][c] = d[e][c] /\ c \in 1 .. Len(d[e])
      BY <2>2
    <3>2. d[e][c] \in 1 .. Len(m) /\ m[d[e][c]].entry = e /\ m[d[e][c]].char = c
      BY <1>2, <3>1 DEF Placed
    <3> QED
      BY <3>1, <3>2
  <2> QED
    BY <2>1, <2>2
<1> QED
  BY <1>1, <1>2 DEF Placed

(* What a characteristic that is added, or refused, does to the table. *)
LEMMA CharCall ==
  ASSUME ServicesInv, failed = 0, Bluedroid!CharAdded, ~Bluedroid!BdPanic
  PROVE  /\ CallInv' /\ Placed(made, diff, count)' /\ InOrder(diff, count, addPc, regSvc, regChar)'
         /\ ~refused' => NoneLeft(diff, count, addPc, regSvc, regChar)'
<1>1. requests # <<>> /\ Head(requests).what = "char" /\ UNCHANGED <<up, hosted, target, count, regSvc, addPc>>
  BY DEF Bluedroid!CharAdded, Bluedroid!Answering
<1>2. /\ BdShape /\ CallInv /\ Placed(made, diff, count) /\ InOrder(diff, count, addPc, regSvc, regChar)
      /\ ~refused => NoneLeft(diff, count, addPc, regSvc, regChar)
  BY DEF ServicesInv
<1>3. /\ addPc = "wait" /\ ~semaphore /\ Pending /\ Head(requests) = requests[1] /\ Tail(requests) = <<>>
      /\ \A r : Append(Tail(requests), r) = <<r>>
  BY <1>1, <1>2, Awaited
<1>4. /\ requests[1] = [what |-> "char", at |-> target[regSvc]] /\ reg = "adding"
      /\ regChar <= Len(diff[regSvc]) /\ target[regSvc] # 0 /\ hosted[target[regSvc]] = regSvc
  <2>1. CASE requests = <<[what |-> "create", at |-> regSvc]>>
    BY <1>1, <1>3, <2>1
  <2> QED
    BY <1>1, <1>3, <2>1 DEF Pending
<1>5. /\ regSvc \in 1 .. count /\ count \in 0 .. EntryRoom /\ regSvc \in 1 .. EntryRoom
      /\ regChar \in 1 .. Len(diff[regSvc]) /\ Len(diff[regSvc]) \in 0 .. CharRoom /\ ~(regChar > CharRoom)
      /\ \A e \in 1 .. count : e \in 1 .. EntryRoom
  <2>1. regSvc \in 1 .. EntryRoom /\ count \in 0 .. EntryRoom /\ regSvc <= count /\ regChar \in 1 .. CharRoom + 1
    BY <1>2, <1>3 DEF BdShape, Bluedroid!BdTypeOK
  <2>2. Len(diff[regSvc]) \in 0 .. CharRoom
    BY <1>2, <2>1, RowShape DEF BdShape
  <2> QED
    BY <1>4, <2>1, <2>2, BluedroidAssumption
<1>6. diff[regSvc][regChar] = 0
  <2>1. ~Behind(addPc, regSvc, regChar, regSvc, regChar)
    BY <1>3, <1>5 DEF Behind
  <2> QED
    BY <1>2, <1>5, <2>1 DEF InOrder
<1>7. ASSUME /\ Len(made) < HandleRoom
             /\ made' = Append(made, [entry |-> hosted[Head(requests).at], char |-> regChar])
             /\ diff' = [diff EXCEPT ![regSvc][regChar] = Len(made')] /\ Bluedroid!AddNext(regChar + 1, reg, refused)
      PROVE  /\ CallInv' /\ Placed(made, diff, count)' /\ InOrder(diff, count, addPc, regSvc, regChar)'
             /\ ~refused' => NoneLeft(diff, count, addPc, regSvc, regChar)'
  <2>1. made' = Append(made, [entry |-> regSvc, char |-> regChar])
    BY <1>3, <1>4, <1>7
  <2>2. /\ Len(made) \in Nat /\ Len(made') = Len(made) + 1 /\ \A h \in 1 .. Len(made) : made'[h] = made[h]
        /\ made'[Len(made')] = [entry |-> regSvc, char |-> regChar]
    <3>1. made \in Seq([entry : 1 .. EntryRoom, char : 1 .. CharRoom + 1])
      BY <1>2 DEF BdShape, Bluedroid!BdTypeOK
    <3>2. [entry |-> regSvc, char |-> regChar] \in [entry : 1 .. EntryRoom, char : 1 .. CharRoom + 1]
      BY <1>5, BluedroidAssumption
    <3> QED
      BY <2>1, <3>1, <3>2, AppendProperties
  <2>3. Len(made') \in 0 .. HandleRoom
    BY <1>7, <2>2, BluedroidAssumption
  <2>4. CellSet(diff, diff', count, regSvc, regChar, Len(made'))
    <3>1. Bluedroid!BdTypeOK /\ diff' = [diff EXCEPT ![regSvc][regChar] = Len(made')]
      BY <1>2, <1>7 DEF BdShape
    <3>2. CellSet(diff, diff', EntryRoom, regSvc, regChar, Len(made'))
      BY ONLY <1>5, <2>3, <3>1, CellWritten
    <3> QED
      BY <1>5, <3>2 DEF CellSet
  <2>5. Placed(made', diff', count)
    <3>1. MadeMore(made, made', regSvc, regChar)
      BY <2>2 DEF MadeMore
    <3> QED
      BY ONLY <1>2, <1>5, <1>6, <2>4, <3>1, PlacedMore
  <2>6. CallInv'
    <3>1. Len(diff'[regSvc]) = Len(diff[regSvc])
      BY <1>5, <2>4 DEF CellSet
    <3> QED
      BY <1>1, <1>3, <1>4, <1>7, <3>1, NextCall
  <2>7. regChar' = regChar + 1 /\ (~refused' => ~refused)
    BY <1>7 DEF Bluedroid!AddNext
  <2>8. InOrder(diff', count, addPc, regSvc, regChar')
    <3> SUFFICES ASSUME NEW e \in 1 .. count, NEW c \in 1 .. Len(diff'[e]), diff'[e][c] # 0
                 PROVE  Behind(addPc, regSvc, regChar', e, c)
      BY DEF InOrder
    <3>1. CASE e = regSvc /\ c = regChar
      BY <1>5, <2>7, <3>1 DEF Behind
    <3>2. CASE e # regSvc \/ c # regChar
      <4>1. c \in 1 .. Len(diff[e]) /\ diff[e][c] # 0
        BY <1>5, <2>4, <3>2 DEF CellSet
      <4>2. Behind(addPc, regSvc, regChar, e, c)
        BY <1>2, <4>1 DEF InOrder
      <4> QED
        BY <1>5, <2>7, <4>2 DEF Behind
    <3> QED
      BY <3>1, <3>2
  <2>9. ASSUME ~refused'
        PROVE  NoneLeft(diff', count, addPc, regSvc, regChar')
    <3> SUFFICES ASSUME NEW e \in 1 .. count, NEW c \in 1 .. Len(diff'[e]), Behind(addPc, regSvc, regChar', e, c)
                 PROVE  diff'[e][c] # 0
      BY DEF NoneLeft
    <3>1. CASE e = regSvc /\ c = regChar
      BY <2>2, <2>4, <3>1 DEF CellSet
    <3>2. CASE e # regSvc \/ c # regChar
      <4>1. c \in 1 .. Len(diff[e]) /\ diff'[e][c] = diff[e][c]
        BY <1>5, <2>4, <3>2 DEF CellSet
      <4>2. Behind(addPc, regSvc, regChar, e, c)
        BY <1>3, <1>5, <2>7, <3>2, <4>1 DEF Behind
      <4> QED
        BY <1>2, <2>7, <2>9, <4>1, <4>2 DEF NoneLeft
    <3> QED
      BY <3>1, <3>2
  <2> QED
    BY <1>1, <2>5, <2>6, <2>8, <2>9
<1>8. ASSUME Bluedroid!AddNext(regChar + 1, reg, TRUE), UNCHANGED <<made, diff>>
      PROVE  /\ CallInv' /\ Placed(made, diff, count)' /\ InOrder(diff, count, addPc, regSvc, regChar)'
             /\ ~refused' => NoneLeft(diff, count, addPc, regSvc, regChar)'
  <2>1. regChar' = regChar + 1 /\ refused' = TRUE
    BY <1>8 DEF Bluedroid!AddNext
  <2>2. CallInv'
    <3>1. Len(diff'[regSvc]) = Len(diff[regSvc])
      BY <1>8
    <3> QED
      BY <1>1, <1>3, <1>4, <1>8, <3>1, NextCall
  <2>3. InOrder(diff, count, addPc, regSvc, regChar')
    <3> SUFFICES ASSUME NEW e \in 1 .. count, NEW c \in 1 .. Len(diff[e]), diff[e][c] # 0
                 PROVE  Behind(addPc, regSvc, regChar', e, c)
      BY DEF InOrder
    <3>1. Behind(addPc, regSvc, regChar, e, c)
      BY <1>2 DEF InOrder
    <3> QED
      BY <1>5, <2>1, <3>1 DEF Behind
  <2> QED
    BY <1>1, <1>2, <1>8, <2>1, <2>2, <2>3
<1>9. \/ /\ Len(made) < HandleRoom
         /\ made' = Append(made, [entry |-> hosted[Head(requests).at], char |-> regChar])
         /\ diff' = [diff EXCEPT ![regSvc][regChar] = Len(made')] /\ Bluedroid!AddNext(regChar + 1, reg, refused)
      \/ Bluedroid!AddNext(regChar + 1, reg, TRUE) /\ UNCHANGED <<made, diff>>
  BY <1>4, <1>5 DEF Bluedroid!CharAdded
<1> QED
  BY <1>7, <1>8, <1>9

(* The entries of a new call, which have nothing yet. *)
LEMMA BeginCall ==
  ASSUME ServicesInv, failed = 0, Bluedroid!BeginAdd \/ Bluedroid!FillFails
  PROVE  /\ CallInv' /\ Placed(made, diff, count)' /\ InOrder(diff, count, addPc, regSvc, regChar)'
         /\ ~refused' => NoneLeft(diff, count, addPc, regSvc, regChar)'
<1>1. /\ {addPc, addPc'} \subseteq {"ready", "moved"}
      /\ UNCHANGED <<requests, made, count, semaphore, refused>>
  BY DEF Bluedroid!BeginAdd, Bluedroid!FillFails
<1>2. /\ CallInv /\ Placed(made, diff, count) /\ count \in 0 .. EntryRoom
      /\ ~refused => NoneLeft(diff, count, addPc, regSvc, regChar)
  BY DEF ServicesInv, BdShape, Bluedroid!BdTypeOK
<1>3. \A i \in 1 .. count : diff'[i] = diff[i]
  <2>1. \A i \in 1 .. count : i \in 1 .. EntryRoom /\ ~(i > count)
    BY <1>2, BluedroidAssumption
  <2> QED
    BY <2>1 DEF Bluedroid!BeginAdd, Bluedroid!FillFails
<1>4. CallInv'
  <2>1. addPc # "wait" /\ addPc' \notin {"wait", "create"}
    BY <1>1
  <2> QED
    BY <1>1, <1>2, <2>1 DEF CallInv
<1>5. Placed(made, diff', count)
  <2>1. \A h \in 1 .. Len(made) :
          /\ made[h].entry \in 1 .. count /\ made[h].char \in 1 .. Len(diff[made[h].entry])
          /\ diff[made[h].entry][made[h].char] = h /\ diff'[made[h].entry] = diff[made[h].entry]
    BY <1>2, <1>3 DEF Placed
  <2>2. \A h \in 1 .. Len(made) :
          /\ made[h].entry \in 1 .. count /\ made[h].char \in 1 .. Len(diff'[made[h].entry])
          /\ diff'[made[h].entry][made[h].char] = h
    BY <2>1
  <2>3. \A i \in 1 .. count : \A j \in 1 .. Len(diff'[i]) :
          diff'[i][j] # 0 => /\ diff'[i][j] \in 1 .. Len(made)
                            /\ made[diff'[i][j]].entry = i /\ made[diff'[i][j]].char = j
    BY <1>2, <1>3 DEF Placed
  <2> QED
    BY <2>2, <2>3 DEF Placed
<1>6. InOrder(diff', count, addPc', regSvc', regChar')
  BY <1>1 DEF InOrder, Behind
<1>7. ~refused => NoneLeft(diff', count, addPc', regSvc', regChar')
  BY <1>1, <1>2, <1>3 DEF NoneLeft, Behind
<1> QED
  BY <1>1, <1>4, <1>5, <1>6, <1>7

LEMMA FillCall ==
  ASSUME ServicesInv, failed = 0, NEW sizes \in Seq(0 .. CharRoom), sizes # <<>>, Bluedroid!FillEntries(sizes)
  PROVE  /\ CallInv' /\ Placed(made, diff, count)' /\ InOrder(diff, count, addPc, regSvc, regChar)'
         /\ ~refused' => NoneLeft(diff, count, addPc, regSvc, regChar)'
<1> DEFINE n == Len(sizes)
<1>1. /\ addPc = "moved" /\ count + n <= EntryRoom /\ diff' = Bluedroid!Filled(sizes)
      /\ count' = count + n /\ regSvc' = count + 1 /\ regChar' = 1 /\ addPc' = "create"
      /\ UNCHANGED <<requests, made, semaphore, refused>>
  BY DEF Bluedroid!FillEntries
<1>2. /\ CallInv /\ Placed(made, diff, count) /\ n \in Nat /\ n > 0 /\ count \in 0 .. EntryRoom
      /\ ~refused => NoneLeft(diff, count, addPc, regSvc, regChar)
  BY DEF ServicesInv, BdShape, Bluedroid!BdTypeOK
<1>3. diff' = [i \in 1 .. EntryRoom |-> IF i \in count + 1 .. count + n THEN [c \in 1 .. sizes[i - count] |-> 0] ELSE diff[i]]
  BY <1>1 DEF Bluedroid!Filled
<1> HIDE DEF n
<1>4. /\ \A i \in 1 .. count : diff'[i] = diff[i]
      /\ \A i \in count + 1 .. count + n : \A j \in 1 .. Len(diff'[i]) : diff'[i][j] = 0
      /\ \A i \in 1 .. count + n : i \in 1 .. count \/ i \in count + 1 .. count + n
  <2>1. /\ \A i \in 1 .. count : i \in 1 .. EntryRoom /\ i \notin count + 1 .. count + n
        /\ \A i \in count + 1 .. count + n : i \in 1 .. EntryRoom
        /\ \A i \in 1 .. count + n : i \in 1 .. count \/ i \in count + 1 .. count + n
    BY <1>1, <1>2, BluedroidAssumption
  <2>2. ASSUME NEW i \in count + 1 .. count + n, NEW j \in 1 .. Len(diff'[i])
        PROVE  diff'[i][j] = 0
    <3>1. diff'[i] = [c \in 1 .. sizes[i - count] |-> 0]
      BY <1>3, <2>1
    <3>2. i - count \in 1 .. Len(sizes)
      BY <1>2 DEF n
    <3>3. sizes[i - count] \in 0 .. CharRoom
      BY <3>2, ElementOfSeq
    <3>4. Len(diff'[i]) = sizes[i - count]
      BY <3>1, <3>3, BluedroidAssumption
    <3> QED
      BY <3>1, <3>4
  <2> QED
    BY <1>3, <2>1, <2>2
<1>5. CallInv'
  BY <1>1, <1>2 DEF CallInv
<1>6. Placed(made, diff', count + n)
  <2>1. ASSUME NEW h \in 1 .. Len(made)
        PROVE  /\ made[h].entry \in 1 .. count + n /\ made[h].char \in 1 .. Len(diff'[made[h].entry])
               /\ diff'[made[h].entry][made[h].char] = h
    <3>1. made[h].entry \in 1 .. count /\ made[h].char \in 1 .. Len(diff[made[h].entry]) /\ diff[made[h].entry][made[h].char] = h
      BY <1>2 DEF Placed
    <3>2. diff'[made[h].entry] = diff[made[h].entry] /\ made[h].entry \in 1 .. count + n
      BY <1>2, <1>4, <3>1
    <3> QED
      BY <3>1, <3>2
  <2>2. ASSUME NEW i \in 1 .. count + n, NEW j \in 1 .. Len(diff'[i]), diff'[i][j] # 0
        PROVE  diff'[i][j] \in 1 .. Len(made) /\ made[diff'[i][j]].entry = i /\ made[diff'[i][j]].char = j
    <3>1. i \in 1 .. count /\ diff'[i] = diff[i]
      BY <1>4, <2>2
    <3> QED
      BY <1>2, <2>2, <3>1 DEF Placed
  <2> QED
    BY <2>1, <2>2 DEF Placed
<1>7. InOrder(diff', count + n, "create", count + 1, 1)
  <2> SUFFICES ASSUME NEW i \in 1 .. count + n, NEW j \in 1 .. Len(diff'[i]), diff'[i][j] # 0
               PROVE  Behind("create", count + 1, 1, i, j)
    BY DEF InOrder
  <2>1. i \in 1 .. count
    BY <1>4
  <2> QED
    BY <1>2, <2>1 DEF Behind
<1>8. ASSUME ~refused
      PROVE  NoneLeft(diff', count + n, "create", count + 1, 1)
  <2> SUFFICES ASSUME NEW i \in 1 .. count + n, NEW j \in 1 .. Len(diff'[i]), Behind("create", count + 1, 1, i, j)
               PROVE  diff'[i][j] # 0
    BY DEF NoneLeft
  <2>1. i \in 1 .. count
    BY <1>2 DEF Behind
  <2>2. diff'[i] = diff[i]
    BY <1>4, <2>1
  <2> QED
    BY <1>1, <1>2, <1>8, <2>1, <2>2 DEF NoneLeft, Behind
<1> QED
  BY <1>1, <1>5, <1>6, <1>7, <1>8

LEMMA CreateCall ==
  ASSUME ServicesInv, failed = 0, failed' = 0, Bluedroid!CreateService
  PROVE  /\ CallInv' /\ Placed(made, diff, count)' /\ InOrder(diff, count, addPc, regSvc, regChar)'
         /\ ~refused' => NoneLeft(diff, count, addPc, regSvc, regChar)'
<1>1. ~Bluedroid!FailCleanup
  BY DEF Bluedroid!FailCleanup
<1>2. /\ addPc = "create" /\ reg' = "creating" /\ requests' = Append(requests, [what |-> "create", at |-> regSvc])
      /\ addPc' = "wait" /\ UNCHANGED <<made, diff, count, regSvc, regChar, semaphore, refused>>
  BY <1>1 DEF Bluedroid!CreateService
<1>3. requests = <<>> /\ ~semaphore /\ regChar = 1
  BY <1>2 DEF ServicesInv, CallInv
<1>4. requests' = <<[what |-> "create", at |-> regSvc]>>
  BY <1>2, <1>3
<1>5. Pending'
  BY <1>2, <1>3, <1>4 DEF Pending
<1>6. CallInv'
  BY <1>2, <1>3, <1>5 DEF CallInv
<1>7. /\ InOrder(diff, count, "create", regSvc, regChar) /\ Placed(made, diff, count)
      /\ ~refused => NoneLeft(diff, count, "create", regSvc, regChar)
  BY <1>2 DEF ServicesInv
<1>8. InOrder(diff, count, "wait", regSvc, regChar)
  BY <1>7 DEF InOrder, Behind
<1>9. ~refused => NoneLeft(diff, count, "wait", regSvc, regChar)
  BY <1>7 DEF NoneLeft, Behind
<1> QED
  BY <1>2, <1>6, <1>7, <1>8, <1>9

LEMMA TakeCall ==
  ASSUME ServicesInv, failed = 0, Bluedroid!TakeSemaphore
  PROVE  /\ CallInv' /\ Placed(made, diff, count)' /\ InOrder(diff, count, addPc, regSvc, regChar)'
         /\ ~refused' => NoneLeft(diff, count, addPc, regSvc, regChar)'
<1>1. /\ addPc = "wait" /\ semaphore /\ semaphore' = FALSE
      /\ UNCHANGED <<requests, made, diff, count, refused>>
      /\ IF regSvc < count
         THEN regSvc' = regSvc + 1 /\ regChar' = 1 /\ addPc' = "create"
         ELSE addPc' = "ready" /\ UNCHANGED <<regSvc, regChar>>
  BY DEF Bluedroid!TakeSemaphore, Bluedroid!GoOn
<1>2. /\ requests = <<>> /\ (refused \/ regChar > Len(diff[regSvc])) /\ Placed(made, diff, count)
      /\ InOrder(diff, count, "wait", regSvc, regChar)
      /\ ~refused => NoneLeft(diff, count, "wait", regSvc, regChar)
      /\ regSvc \in 1 .. count /\ count \in Nat /\ regSvc \in 1 .. EntryRoom /\ regChar \in Nat
  BY <1>1, BluedroidAssumption DEF ServicesInv, CallInv, Answered, BdShape, Bluedroid!BdTypeOK
<1>3. CallInv'
  BY <1>1, <1>2 DEF CallInv
<1>4. \A i \in 1 .. count : \A j \in 1 .. Len(diff[i]) : Behind("wait", regSvc, regChar, i, j) => i \in 1 .. regSvc
  BY <1>2 DEF Behind
<1>5. ASSUME ~refused, NEW i \in 1 .. count, NEW j \in 1 .. Len(diff[i]), i <= regSvc
      PROVE  diff[i][j] # 0
  <2>1. Len(diff[i]) \in Nat
    <3>1. Bluedroid!BdTypeOK
      BY DEF ServicesInv, BdShape
    <3>2. count \in 0 .. EntryRoom
      BY <3>1 DEF Bluedroid!BdTypeOK
    <3>3. i \in 1 .. EntryRoom
      BY <1>5, <3>2, BluedroidAssumption
    <3> QED
      BY <3>1, <3>3, RowShape
  <2>2. Behind("wait", regSvc, regChar, i, j)
    BY <1>2, <1>5, <2>1 DEF Behind
  <2> QED
    BY <1>2, <1>5, <2>2 DEF NoneLeft
<1>6. CASE regSvc < count
  <2>1. InOrder(diff, count, "create", regSvc + 1, 1)
    BY <1>2, <1>4 DEF InOrder, Behind
  <2>2. ASSUME ~refused, NEW i \in 1 .. count, NEW j \in 1 .. Len(diff[i]), Behind("create", regSvc + 1, 1, i, j)
        PROVE  diff[i][j] # 0
    <3>1. i <= regSvc
      BY <1>2, <2>2 DEF Behind
    <3> QED
      BY <1>5, <2>2, <3>1
  <2>3. ~refused => NoneLeft(diff, count, "create", regSvc + 1, 1)
    BY <2>2 DEF NoneLeft
  <2> QED
    BY <1>1, <1>2, <1>3, <1>6, <2>1, <2>3
<1>7. CASE ~(regSvc < count)
  <2>1. InOrder(diff, count, "ready", regSvc, regChar)
    BY DEF InOrder, Behind
  <2>2. ~refused => NoneLeft(diff, count, "ready", regSvc, regChar)
    BY <1>2, <1>5, <1>7 DEF NoneLeft
  <2> QED
    BY <1>1, <1>2, <1>3, <1>7, <2>1, <2>2
<1> QED
  BY <1>6, <1>7

LEMMA EventCall ==
  ASSUME ServicesInv, failed = 0, Bluedroid!ServiceCreated \/ Bluedroid!ServiceStarted
  PROVE  /\ CallInv' /\ Placed(made, diff, count)' /\ InOrder(diff, count, addPc, regSvc, regChar)'
         /\ ~refused' => NoneLeft(diff, count, addPc, regSvc, regChar)'
<1>1. UNCHANGED <<made, diff, count, regSvc, addPc>>
  BY DEF Bluedroid!ServiceCreated, Bluedroid!ServiceStarted
<1>2. BdShape /\ CallInv
  BY DEF ServicesInv
<1>3. CallInv' /\ regChar' = regChar
  BY ONLY <1>2, Bluedroid!ServiceCreated \/ Bluedroid!ServiceStarted, CreatedCall, StartedCall
<1>4. ~refused' => ~refused
  <2>1. refused \in BOOLEAN
    BY <1>2 DEF BdShape, Bluedroid!BdTypeOK
  <2>2. CASE Bluedroid!ServiceCreated
    BY <2>1, <2>2 DEF Bluedroid!ServiceCreated
  <2>3. CASE Bluedroid!ServiceStarted
    BY <2>1, <2>3 DEF Bluedroid!ServiceStarted, Bluedroid!AddNext
  <2> QED
    BY <2>2, <2>3
<1> QED
  BY <1>1, <1>3, <1>4 DEF ServicesInv

LEMMA StopCall ==
  ASSUME ServicesInv, failed = 0, Bluedroid!BdInit \/ Bluedroid!BdDeinit
  PROVE  /\ CallInv' /\ Placed(made, diff, count)' /\ InOrder(diff, count, addPc, regSvc, regChar)'
         /\ ~refused' => NoneLeft(diff, count, addPc, regSvc, regChar)'
<1>1. CASE Bluedroid!BdInit
  <2>1. /\ ~up /\ semaphore' = FALSE
        /\ UNCHANGED <<requests, made, diff, count, regSvc, regChar, addPc, refused>>
    BY <1>1 DEF Bluedroid!BdInit
  <2>2. addPc = "ready" /\ CallInv
    BY <2>1 DEF ServicesInv, BdShape
  <2>3. CallInv'
    BY <2>1, <2>2 DEF CallInv
  <2> QED
    BY <2>1, <2>3 DEF ServicesInv
<1>2. CASE Bluedroid!BdDeinit
  <2>1. /\ addPc = "ready" /\ semaphore' = FALSE /\ count' = 0 /\ requests' = <<>> /\ made' = <<>>
        /\ UNCHANGED <<diff, addPc>>
    BY <1>2 DEF Bluedroid!BdDeinit
  <2>2. Len(made') = 0
    BY <2>1
  <2>3. CallInv'
    BY <2>1 DEF CallInv
  <2> QED
    BY <2>1, <2>2, <2>3 DEF Placed, InOrder, NoneLeft
<1> QED
  BY <1>1, <1>2

LEMMA ServicesStep ==
  ASSUME ServicesInv, Bluedroid!BdNext
  PROVE  ServicesInv'
<1>1. CASE Bluedroid!BdPanic
  BY <1>1, PanicBegins
<1>2. CASE ~Bluedroid!BdPanic
  <2>1. BdShape
    BY DEF ServicesInv
  <2>2. PICK s \in Seq(0 .. CharRoom) : s # <<>> /\
          \/ Bluedroid!FillEntries(s)
          \/ Bluedroid!BdInit \/ Bluedroid!BdDeinit \/ Bluedroid!BeginAdd \/ Bluedroid!FillFails
          \/ Bluedroid!CreateService \/ Bluedroid!TakeSemaphore \/ Bluedroid!AddTimesOut
          \/ Bluedroid!ServiceCreated \/ Bluedroid!ServiceStarted \/ Bluedroid!CharAdded
    <3>1. 0 \in 0 .. CharRoom
      BY BluedroidAssumption
    <3>2. \A m \in 0 .. CharRoom : <<m>> \in Seq(0 .. CharRoom) /\ <<m>> # <<>>
      OBVIOUS
    <3>3. \A m, n \in 0 .. CharRoom : <<m, n>> \in Seq(0 .. CharRoom) /\ <<m, n>> # <<>>
      OBVIOUS
    <3>4. CASE \E m \in 0 .. CharRoom : Bluedroid!FillEntries(<<m>>)
      BY <3>2, <3>4
    <3>5. CASE \E m, n \in 0 .. CharRoom : Bluedroid!FillEntries(<<m, n>>)
      BY <3>3, <3>5
    <3>6. CASE \/ Bluedroid!BdInit \/ Bluedroid!BdDeinit \/ Bluedroid!BeginAdd \/ Bluedroid!FillFails
               \/ Bluedroid!CreateService \/ Bluedroid!TakeSemaphore \/ Bluedroid!AddTimesOut
               \/ Bluedroid!ServiceCreated \/ Bluedroid!ServiceStarted \/ Bluedroid!CharAdded
      BY <3>1, <3>2, <3>6
    <3> QED
      BY <3>4, <3>5, <3>6 DEF Bluedroid!BdNext
  <2>3. BdShape'
    <3>1. ASSUME Bluedroid!FillEntries(s)
          PROVE  BdShape'
      BY <2>1, <2>2, <3>1, FillShape
    <3>2. CASE Bluedroid!CharAdded
      BY <1>2, <2>1, <3>2, CharShape
    <3> QED
      BY <2>1, <2>2, <3>1, <3>2, BeginShape, CallShape, CreatedShape, StartedShape
  <2>4. failed' = 0 => failed = 0 /\ ~Bluedroid!AddTimesOut
    <3>1. failed \in Nat
      BY <2>1, BluedroidAssumption DEF BdShape, Bluedroid!BdTypeOK
    <3>2. Bluedroid!AddTimesOut => failed' = failed + 1
      BY DEF Bluedroid!AddTimesOut, Bluedroid!FailCleanup
    <3>3. Bluedroid!CreateService => failed' = failed + 1 \/ failed' = failed
      BY DEF Bluedroid!CreateService, Bluedroid!FailCleanup
    <3>4. Bluedroid!CharAdded => failed' = failed
      BY <1>2 DEF Bluedroid!CharAdded
    <3>5. Bluedroid!FillEntries(s) \/ Bluedroid!BeginAdd \/ Bluedroid!FillFails => failed' = failed
      BY DEF Bluedroid!FillEntries, Bluedroid!BeginAdd, Bluedroid!FillFails
    <3>6. Bluedroid!BdInit \/ Bluedroid!BdDeinit => failed' = failed
      BY DEF Bluedroid!BdInit, Bluedroid!BdDeinit
    <3>7. Bluedroid!TakeSemaphore => failed' = failed
      BY DEF Bluedroid!TakeSemaphore, Bluedroid!GoOn
    <3>8. Bluedroid!ServiceCreated \/ Bluedroid!ServiceStarted => failed' = failed
      BY DEF Bluedroid!ServiceCreated, Bluedroid!ServiceStarted
    <3> QED
      BY <2>2, <3>1, <3>2, <3>3, <3>4, <3>5, <3>6, <3>7, <3>8
  <2>5. ASSUME failed' = 0
        PROVE  /\ CallInv' /\ Placed(made, diff, count)' /\ InOrder(diff, count, addPc, regSvc, regChar)'
               /\ ~refused' => NoneLeft(diff, count, addPc, regSvc, regChar)'
    <3>1. failed = 0 /\ ~Bluedroid!AddTimesOut
      BY <2>4, <2>5
    <3>2. CASE Bluedroid!FillEntries(s)
      BY <2>2, <3>1, <3>2, FillCall
    <3>3. CASE Bluedroid!CreateService
      BY <2>5, <3>1, <3>3, CreateCall
    <3>4. CASE Bluedroid!TakeSemaphore
      BY <3>1, <3>4, TakeCall
    <3>5. CASE Bluedroid!ServiceCreated \/ Bluedroid!ServiceStarted
      BY <3>1, <3>5, EventCall
    <3>6. CASE Bluedroid!CharAdded
      BY <1>2, <3>1, <3>6, CharCall
    <3>7. CASE Bluedroid!BdInit \/ Bluedroid!BdDeinit
      BY <3>1, <3>7, StopCall
    <3>8. CASE Bluedroid!BeginAdd \/ Bluedroid!FillFails
      BY <3>1, <3>8, BeginCall
    <3> QED
      BY <2>2, <3>1, <3>2, <3>3, <3>4, <3>5, <3>6, <3>7, <3>8
  <2> QED
    BY <2>3, <2>5 DEF ServicesInv
<1> QED
  BY <1>1, <1>2

LEMMA ServicesAlways == AllSpec => []ServicesInv
<1>1. AllInit => ServicesInv
  BY BdBegins DEF AllInit
<1>2. ServicesInv /\ [AllNext]_allVars => ServicesInv'
  <2> SUFFICES ASSUME ServicesInv, AllNext \/ UNCHANGED allVars
               PROVE  ServicesInv'
    BY DEF allVars
  <2>1. CASE Bluedroid!BdNext
    BY <2>1, ServicesStep
  <2>2. CASE UNCHANGED bdVars
    <3>1. BdShape'
      BY <2>2 DEF bdVars, ServicesInv, BdShape, Bluedroid!BdTypeOK
    <3>2. CallInv => CallInv'
      BY <2>2 DEF bdVars, CallInv, Answered, Pending
    <3> QED
      BY <2>2, <3>1, <3>2 DEF bdVars, ServicesInv
  <2> QED
    BY <2>1, <2>2 DEF allVars, AllNext, Network, Platform, HubClient, HubStation, Local,
                      NimbleDriver, BluedroidAir, BluedroidLinks, BluedroidTable
<1> QED
  BY <1>1, <1>2, PTL DEF AllSpec, allVars

LEMMA ServicesRight ==
  ASSUME ServicesInv
  PROVE  Bluedroid!BdRightEnd
<1>1. ASSUME failed = 0, NEW h \in 1 .. Len(made)
      PROVE  Bluedroid!BdReached(h) = <<made[h].entry, made[h].char>>
  <2> DEFINE e == made[h].entry
             c == made[h].char
             fits == {p \in (1 .. count) \X (1 .. CharRoom) : p[2] <= Len(diff[p[1]]) /\ diff[p[1]][p[2]] = h}
             first == CHOOSE p \in fits : \A q \in fits : p[1] < q[1] \/ (p[1] = q[1] /\ p[2] <= q[2])
  <2>1. /\ Placed(made, diff, count) /\ Bluedroid!BdTypeOK /\ h # 0
        /\ \A i \in 1 .. count : i \in 1 .. EntryRoom
    <3>1. Placed(made, diff, count) /\ Bluedroid!BdTypeOK
      BY <1>1 DEF ServicesInv, BdShape
    <3>2. count \in 0 .. EntryRoom
      BY <3>1 DEF Bluedroid!BdTypeOK
    <3>3. \A i \in 1 .. count : i \in 1 .. EntryRoom
      BY <3>2, BluedroidAssumption
    <3>4. h # 0
      BY <1>1
    <3> HIDE DEF e, c, fits
    <3> QED
      BY <3>1, <3>3, <3>4
  <2>2. e \in 1 .. count /\ c \in 1 .. Len(diff[e]) /\ diff[e][c] = h
    BY <1>1, <2>1 DEF Placed
  <2>3. <<e, c>> \in fits
    <3>1. Len(diff[e]) \in 0 .. CharRoom
      BY <2>1, <2>2, RowShape
    <3> HIDE DEF e, c
    <3>2. c \in 1 .. CharRoom /\ c <= Len(diff[e])
      BY <2>2, <3>1, BluedroidAssumption
    <3> QED
      BY <2>2, <3>2
  <2>4. ASSUME NEW p \in fits
        PROVE  p = <<e, c>>
    <3>1. PICK i \in 1 .. count, j \in 1 .. CharRoom : p = <<i, j>>
      BY <2>4
    <3>2. j <= Len(diff[i]) /\ diff[i][j] = h
      BY <2>4, <3>1
    <3>3. j \in 1 .. Len(diff[i])
      <4>1. Len(diff[i]) \in Nat
        BY <2>1, RowShape
      <4> QED
        BY <3>2, <4>1
    <3>4. made[h].entry = i /\ made[h].char = j
      BY <2>1, <3>2, <3>3 DEF Placed
    <3> QED
      BY <3>1, <3>4
  <2>5. Bluedroid!BdReached(h) = IF fits = {} THEN <<>> ELSE first
    BY DEF Bluedroid!BdReached
  <2>6. fits = {<<e, c>>}
    <3> HIDE DEF fits, e, c
    <3> QED
      BY <2>3, <2>4
  <2>7. c <= c
    <3>1. Len(diff[e]) \in Nat
      BY <2>1, <2>2, RowShape
    <3> HIDE DEF e, c
    <3> QED
      BY <2>2, <3>1
  <2> HIDE DEF fits, e, c
  <2>8. \A q \in fits : <<e, c>>[1] < q[1] \/ (<<e, c>>[1] = q[1] /\ <<e, c>>[2] <= q[2])
    BY <2>6, <2>7
  <2>9. first \in fits
    BY <2>3, <2>8
  <2> HIDE DEF first
  <2>10. Bluedroid!BdReached(h) = <<e, c>>
    BY ONLY <2>3, <2>5, <2>6, <2>9
  <2> QED
    BY <2>10 DEF e, c
<1>2. ASSUME failed = 0, ~refused, addPc = "ready", NEW i \in 1 .. count, NEW j \in 1 .. Len(diff[i])
      PROVE  diff[i][j] # 0
  BY <1>2 DEF ServicesInv, NoneLeft, Behind
<1>3. failed = 0 /\ addPc = "moved" => requests = <<>>
  BY DEF ServicesInv, CallInv
<1> QED
  BY <1>1, <1>2, <1>3 DEF Bluedroid!BdRightEnd, Bluedroid!HandleReadEvent, Bluedroid!HandleWriteEvent

-----------------------------------------------------------------------------
(* All of the BLE drivers                                                   *)

(* An access reaches the characteristic that was registered, and what is sent *)
(* goes to a connection that is up or whose end has still to be handled: with  *)
(* NimBLE until the stack is stopped, unless the UUID was added twice and also  *)
(* after additions that failed; with Bluedroid until a call to add services     *)
(* fails; with both but for the moment in which the table is moved.             *)
THEOREM EveryAccessArrives == AllSpec => []ReachesTheRightEnd
<1>1. NimbleInv /\ ServicesInv /\ PeersInv => ReachesTheRightEnd
  <2> SUFFICES ASSUME NimbleInv, ServicesInv, PeersInv
               PROVE  ReachesTheRightEnd
    OBVIOUS
  <2>1. Nimble!NimbleRightEnd
    BY NimbleRight
  <2>2. Bluedroid!BdRightEnd
    BY ServicesRight
  <2>3. Remote!NotifiesPeer
    BY NotifiedRight
  <2> QED
    BY <2>1, <2>2, <2>3 DEF ReachesTheRightEnd
<1> QED
  BY <1>1, NimbleAlways, ServicesAlways, PeersAlways, PTL

-----------------------------------------------------------------------------
(* The types of all of the components. *)
THEOREM ConnectivityTyped == AllSpec => []TypesOK
<1>1. TypeOK /\ Mqtt!MqttTypeOK /\ Hub!HubTypeOK /\ HubNet!HubWifiTypeOK /\ Tcp!TcpTypeOK
        /\ Nimble!NimbleTypeOK /\ Gap!GapTypeOK /\ Remote!PeersTypeOK /\ Bluedroid!BdTypeOK => TypesOK
  BY DEF TypesOK
<1>2. MqttInv => Mqtt!MqttTypeOK
  BY DEF MqttInv
<1>3. HubInv => Hub!HubTypeOK
  BY DEF HubInv
<1>4. HubWifiInv => HubNet!HubWifiTypeOK
  BY DEF HubWifiInv
<1>5. TcpInv => Tcp!TcpTypeOK
  BY DEF TcpInv
<1>6. NimbleInv => Nimble!NimbleTypeOK
  BY NimbleTyped
<1>7. GapInv => Gap!GapTypeOK
  BY DEF GapInv
<1>8. ServicesInv => Bluedroid!BdTypeOK
  BY DEF ServicesInv, BdShape
<1>9. PeersInv => Remote!PeersTypeOK
  BY DEF PeersInv
<1>10. AllSpec => []TypeOK
  BY NetworkProjects, NetworkTypeCorrect, PTL
<1> QED
  BY <1>1, <1>2, <1>3, <1>4, <1>5, <1>6, <1>7, <1>8, <1>9, <1>10, MqttAlways, HubAlways, HubWifiAlways, TcpAlways,
     NimbleAlways, GapAlways, PeersAlways, ServicesAlways, PTL
=============================================================================
