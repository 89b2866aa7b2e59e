------------------------------- MODULE HubWifi -------------------------------
(***************************************************************************)
(* Wifi.cpp: the Wi-Fi of the hub, a station or a station beside its own    *)
(* access point.  Tasks call it without a lock; the event task connects     *)
(* when the station has started, and again when it has lost its network     *)
(* while wifiMode says station.  The driver (external) keeps the network    *)
(* of the station in flash.  An ESP_ERROR_CHECK that fails restarts.        *)
(***************************************************************************)
EXTENDS Naturals, Sequences

CONSTANTS
    WifiTasks,      \* tasks that call the interface
    Networks,       \* networks of a station
    NoNetwork,      \* an empty SSID
    WifiEventRoom   \* bound: events that wait

VARIABLES
    wifiUp,         \* Wifi::init has run
    wifiMode,       \* what the code believes
    driverMode,     \* external: the mode of the driver
    network,        \* external: the station's network
    radio,          \* external: "off", or the station is "idle", "joining", "joined"
    wifiEvents,     \* external: events that wait for the event task
    wifiCalls,      \* each task's call
    station,         \* external: the network the station is joining or in, NoNetwork without
    quiet           \* history: something nobody hears of has left the station where it is: a
                    \* network set while it was idle or in another, one that could not be
                    \* read back, a connection the driver refused

hubWifiVars == <<wifiUp, wifiMode, driverMode, network, radio, wifiEvents, wifiCalls, station, quiet>>

Ready == [pc |-> "ready", op |-> "none", net |-> NoNetwork]
ModeOf(op) == IF op = "startAp" THEN "APSTA" ELSE "STA"

HubWifiTypeOK ==
    /\ wifiUp \in BOOLEAN /\ quiet \in BOOLEAN
    /\ wifiMode \in {"NULL", "STA", "APSTA"} /\ driverMode \in {"NULL", "STA", "APSTA"}
    /\ {network, station} \subseteq Networks \cup {NoNetwork}
    /\ radio \in {"off", "idle", "joining", "joined"}
    /\ wifiEvents \in Seq({"START", "DISCONNECTED"}) /\ Len(wifiEvents) <= WifiEventRoom
    /\ wifiCalls \in [WifiTasks -> [pc : {"ready", "mode", "set", "config", "start"},
                                    op : {"none", "connect", "startAp", "startSta"},
                                    net : Networks \cup {NoNetwork}]]

HubWifiStart ==
    /\ wifiUp = FALSE /\ wifiMode = "NULL" /\ driverMode = "NULL" /\ radio = "off"
    /\ wifiEvents = <<>> /\ wifiCalls = [t \in WifiTasks |-> Ready]
    /\ station = NoNetwork /\ quiet = FALSE
    /\ network \in Networks \cup {NoNetwork}

\* A restart, which leaves the driver's configuration at net.
AbortsWith(net) ==
    /\ wifiUp' = FALSE /\ wifiMode' = "NULL" /\ driverMode' = "NULL" /\ radio' = "off"
    /\ wifiEvents' = <<>> /\ wifiCalls' = [t \in WifiTasks |-> Ready]
    /\ station' = NoNetwork /\ quiet' = FALSE /\ network' = net

Tell(e) == Len(wifiEvents) < WifiEventRoom /\ wifiEvents' = Append(wifiEvents, e)

\* Wifi::init: the stored network is the station's, if the driver can read it.
WifiInit ==
    /\ ~wifiUp /\ wifiUp' = TRUE
    /\ \/ wifiMode' = "STA" /\ driverMode' = "STA" /\ radio' = "idle" /\ Tell("START")
       \/ UNCHANGED <<wifiMode, driverMode, radio, wifiEvents>>
    /\ UNCHANGED <<network, wifiCalls, station, quiet>>

-----------------------------------------------------------------------------
(* The interface.                                                          *)

WifiIsAPMode == wifiMode = "APSTA"

Step(t, pc) == wifiCalls' = [wifiCalls EXCEPT ![t].pc = pc]

\* A call begins: the radio is stopped when the mode is another.  main.cpp starts the
\* access point only if it is not on.
Begin(t, op, net) ==
    /\ wifiUp /\ wifiCalls[t].pc = "ready"
    /\ op = "startAp" => ~WifiIsAPMode
    /\ IF wifiMode # ModeOf(op)
       THEN /\ radio' = "off" /\ station' = NoNetwork
            /\ IF radio \in {"joining", "joined"} THEN Tell("DISCONNECTED") ELSE UNCHANGED wifiEvents
            /\ wifiCalls' = [wifiCalls EXCEPT ![t] = [pc |-> "mode", op |-> op, net |-> net]]
       ELSE /\ wifiCalls' = [wifiCalls EXCEPT ![t] = [pc |-> "set", op |-> op, net |-> net]]
            /\ UNCHANGED <<radio, wifiEvents, station>>
    /\ UNCHANGED <<wifiUp, wifiMode, driverMode, network, quiet>>

ConnectToWifi(t, net) == Begin(t, "connect", net)
WifiStartAP(t) == Begin(t, "startAp", NoNetwork)
WifiStartSta(t) == Begin(t, "startSta", NoNetwork)

AssignMode(t) ==
    /\ wifiCalls[t].pc = "mode"
    /\ wifiMode' = ModeOf(wifiCalls[t].op) /\ Step(t, "set")
    /\ UNCHANGED <<wifiUp, driverMode, network, radio, wifiEvents, station, quiet>>

\* Whatever wifiMode is by now; WifiStartSta reads the network it will set.  When the driver
\* cannot tell, it ends there, with the radio off if it has stopped it.
SetMode(t) ==
    /\ wifiCalls[t].pc = "set"
    /\ \/ /\ driverMode' = wifiMode
          /\ wifiCalls' = [wifiCalls EXCEPT ![t].pc = "config",
                               ![t].net = IF wifiCalls[t].op = "startSta" THEN network ELSE @]
          /\ UNCHANGED quiet
       \/ /\ wifiCalls[t].op = "startSta"
          /\ wifiCalls' = [wifiCalls EXCEPT ![t] = Ready]
          /\ quiet' = (quiet \/ radio \in {"off", "idle"})
          /\ UNCHANGED driverMode
    /\ UNCHANGED <<wifiUp, wifiMode, network, radio, wifiEvents, station>>

\* The access point has its own configuration, for which the driver must have the mode;
\* a station that is joining may refuse to be configured, one that has joined stays in
\* the network it is in.
SetConfig(t) ==
    /\ wifiCalls[t].pc = "config"
    /\ \/ radio = "joining" /\ AbortsWith(network)
       \/ /\ wifiCalls[t].op = "startAp" /\ driverMode # "APSTA"
          /\ AbortsWith(NoNetwork)
       \/ /\ wifiCalls[t].op = "startAp" => driverMode = "APSTA"
          /\ network' = wifiCalls[t].net /\ Step(t, "start")
          /\ quiet' = CASE radio = "off"  -> quiet
                        [] radio = "idle" -> quiet \/ wifiEvents = <<>>
                        [] OTHER          -> station # wifiCalls[t].net
          /\ UNCHANGED <<wifiUp, wifiMode, driverMode, radio, wifiEvents, station>>

\* A radio that is on stays as it is, without an event.
StartRadio(t) ==
    /\ wifiCalls[t].pc = "start"
    /\ wifiCalls' = [wifiCalls EXCEPT ![t] = Ready]
    /\ IF radio = "off" THEN radio' = "idle" /\ Tell("START") ELSE UNCHANGED <<radio, wifiEvents>>
    /\ UNCHANGED <<wifiUp, wifiMode, driverMode, network, station, quiet>>

\* ScanWifi: its records are refused while the radio is off.
ScanAborts(t) == wifiUp /\ wifiCalls[t].pc = "ready" /\ radio = "off" /\ AbortsWith(network)

-----------------------------------------------------------------------------
(* The driver and its events.                                              *)

\* esp_wifi_connect, which may refuse: the handler does not look.
Connect ==
    \/ /\ radio = "idle" /\ network # NoNetwork
       /\ radio' = "joining" /\ station' = network /\ quiet' = FALSE
    \/ quiet' = (quiet \/ radio = "idle") /\ UNCHANGED <<radio, station>>

(* Mutant: the station's mode is taken for the access point's, as WifiIsStaMode does. *)
ReconnectsInAp == wifiMode = "APSTA"

Reconnects == wifiMode = "STA"

\* wifi_event_handler.
WifiEvent ==
    /\ wifiEvents # <<>>
    /\ wifiEvents' = Tail(wifiEvents)
    /\ IF Head(wifiEvents) = "START" \/ Reconnects THEN Connect
       ELSE UNCHANGED <<radio, station, quiet>>
    /\ UNCHANGED <<wifiUp, wifiMode, driverMode, network, wifiCalls>>

StationJoins ==
    /\ radio = "joining" /\ radio' = "joined"
    /\ UNCHANGED <<wifiUp, wifiMode, driverMode, network, wifiEvents, wifiCalls, station, quiet>>

NetworkLost ==
    /\ radio \in {"joining", "joined"}
    /\ radio' = "idle" /\ station' = NoNetwork /\ Tell("DISCONNECTED")
    /\ UNCHANGED <<wifiUp, wifiMode, driverMode, network, wifiCalls, quiet>>

HubWifiNext ==
    \/ WifiInit \/ WifiEvent \/ StationJoins \/ NetworkLost
    \/ \E t \in WifiTasks :
          \/ \E net \in Networks : ConnectToWifi(t, net)
          \/ WifiStartAP(t) \/ WifiStartSta(t) \/ ScanAborts(t)
          \/ AssignMode(t) \/ SetMode(t) \/ SetConfig(t) \/ StartRadio(t)

HubWifiSpec == HubWifiStart /\ [][HubWifiNext]_hubWifiVars

-----------------------------------------------------------------------------
\* A station that has a network is in that one or joining it, however often it was lost
\* and whatever calls have met, once no call is under way and no event waits; unless
\* something happened that nobody hears of (quiet): the network was set while the radio
\* was on and idle or in another network (esp_wifi_start does nothing then), WifiStartSta
\* could not read it back, or the driver refused the handler's esp_wifi_connect.
NeverGivesUp ==
    /\ wifiMode = "STA" /\ network # NoNetwork /\ wifiEvents = <<>> /\ ~quiet
    /\ \A t \in WifiTasks : wifiCalls[t].pc = "ready"
    => radio \in {"joining", "joined"} /\ station = network
=============================================================================
