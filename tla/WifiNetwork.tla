----------------------------- MODULE WifiNetwork -----------------------------
(***************************************************************************)
(* The station interface: wifi.c and, above it, IOT_NetworkMgmt.c.  Tasks  *)
(* issue calls; the ESP-IDF driver (external) changes state and posts      *)
(* events; the task of the default event loop runs                         *)
(* iotInternalEventCallHandler, which calls up to SlotCount callbacks and, *)
(* when told to, connects again.  Nothing orders the three.                *)
(*                                                                         *)
(* A panic (ESP_ERROR_CHECK, a NULL table) restarts the chip: Restart.     *)
(***************************************************************************)
EXTENDS Naturals, Sequences

CONSTANTS
    Tasks,          \* tasks that call the interface
    Callbacks,      \* functions that may be registered for an event
    SlotCount,      \* NWK_MAX_CBS_PER_EVENT
    EventRoom,      \* bound: events waiting in the default event loop
    None            \* no callback

ASSUME NetworkAssumption == /\ SlotCount \in Nat \ {0}
                            /\ EventRoom \in Nat \ {0}
                            /\ None \notin Callbacks

VARIABLES
    driver,         \* external: what the Wi-Fi driver is doing
    events,         \* external: events posted and not yet handled
    handlers,       \* iotInternalEventCallHandler is registered
    wifiCbs,        \* wifiCallbackMgmt: "null", or "set" to internalWifiEventHandler for every event
    nwkCbs,         \* wifiIfaceEventCallbackMgmts: NoTable, or the slots of each event
    status,         \* currentWifiStatus
    autoReconnect,  \* wifiAutoReconnect
    firing,         \* the event being handled, its slot, and the callback found in it and due
    pc,             \* where each task is
    told,           \* history: the last event told to a callback since it last (un)registered
    wanted          \* history: the last call to end was a connect that answered IOT_OK, and the
                    \* driver has not refused the handler a reconnection since

vars == <<driver, events, handlers, wifiCbs, nwkCbs, status, autoReconnect, firing, pc, told, wanted>>

Link == {"DISCONNECTED", "CONNECTED", "GOT_IP"}
NwkEvents == {"DISCONNECTED", "CONNECTED"}
Slots == 1 .. SlotCount
NoTable == [e \in {} |-> None]
NoFiring == [event |-> "none", slot |-> 0, cb |-> None]
Places == {"ready", "disconnect", "stop", "config", "start", "resume", "connect", "leave",
           "deinit", "free", "unload"}

TypeOK ==
    /\ driver \in {"off", "stopped", "idle", "connecting", "noip", "up"}
    /\ events \in Seq(Link) /\ Len(events) <= EventRoom
    /\ handlers \in BOOLEAN
    /\ wifiCbs \in {"null", "set"}
    /\ nwkCbs \in {NoTable} \cup [NwkEvents -> [Slots -> Callbacks \cup {None}]]
    /\ status \in {"DISCONNECTED", "CONNECTED_NO_IP", "GOT_IP"}
    /\ autoReconnect \in BOOLEAN
    /\ firing \in {NoFiring} \cup
                  [event : Link, slot : 1 .. SlotCount + 1, cb : Callbacks \cup {None}]
    /\ firing.cb # None => firing.slot <= SlotCount
    /\ pc \in [Tasks -> Places]
    /\ told \in [Callbacks -> NwkEvents \cup {"nothing"}]
    /\ wanted \in BOOLEAN

Init ==
    /\ driver = "off" /\ events = <<>> /\ handlers = FALSE
    /\ wifiCbs = "null" /\ nwkCbs = NoTable
    /\ status = "DISCONNECTED" /\ autoReconnect = TRUE
    /\ firing = NoFiring
    /\ pc = [t \in Tasks |-> "ready"]
    /\ told = [c \in Callbacks |-> "nothing"]
    /\ wanted = FALSE

\* The panic handler reboots: every variable of the program starts again.
Restart ==
    /\ driver' = "off" /\ events' = <<>> /\ handlers' = FALSE
    /\ wifiCbs' = "null" /\ nwkCbs' = NoTable
    /\ status' = "DISCONNECTED" /\ autoReconnect' = TRUE
    /\ firing' = NoFiring
    /\ pc' = [t \in Tasks |-> "ready"]
    /\ told' = [c \in Callbacks |-> "nothing"]
    /\ wanted' = FALSE

-----------------------------------------------------------------------------
(* The driver.                                                             *)

Trying == {"connecting", "noip", "up"}
Started == {"idle"} \cup Trying
HasRoom == Len(events) < EventRoom
Post(e) == events' = Append(events, e)

\* What leaving the state Trying posts, whoever makes the driver leave it.
Leave(to) ==
    /\ driver' = to
    /\ IF driver \in Trying THEN HasRoom /\ Post("DISCONNECTED") ELSE UNCHANGED events

\* The access point answers, the address is granted, or the attempt or the link is lost.
\* (External, and assumed: the driver posts the address of a link after its connection
\* and before its loss.)
LinkChanges ==
    /\ HasRoom
    /\ \/ driver = "connecting" /\ driver' = "noip" /\ Post("CONNECTED")
       \/ driver = "noip" /\ driver' = "up" /\ Post("GOT_IP")
       \/ driver \in Trying /\ driver' = "idle" /\ Post("DISCONNECTED")
    /\ UNCHANGED <<handlers, wifiCbs, nwkCbs, status, autoReconnect, firing, pc, told, wanted>>

-----------------------------------------------------------------------------
(* IOT_NwkInit, IOT_NwkDeinit.                                             *)

\* The slots of a table that has just been allocated.
Empty == [e \in NwkEvents |-> [i \in Slots |-> None]]

\* esp_wifi_start, then iotInternalEventCallHandler is registered.
WifiInit == driver' = "idle" /\ handlers' = TRUE

\* internalWifiEventHandler, for each event of wifi.c that IOT_NetworkMgmt takes.
WifiRegister == wifiCbs' = "set"

\* The driver is started before the handlers are registered; a second call in
\* one boot finds the default event loop and aborts (so does the first where the
\* hub has made that loop already: Application).  Without memory for the callbacks
\* it answers IOT_ERR_NO_MEM and the platform does not start (not modelled).
NwkInit(t) ==
    /\ pc[t] = "ready"
    /\ IF driver = "off" /\ ~handlers
       THEN /\ WifiInit /\ WifiRegister
            /\ nwkCbs' = Empty
            /\ UNCHANGED <<events, status, autoReconnect, firing, pc, told, wanted>>
       ELSE Restart

\* The radio is stopped.  The handlers stay registered: they are unregistered with a NULL
\* instance.  A driver that was never started, or is already gone, aborts.
NwkDeinit(t) ==
    /\ pc[t] = "ready"
    /\ \/ driver = "off" /\ Restart
       \/ /\ driver # "off" /\ Leave("stopped")
          /\ pc' = [pc EXCEPT ![t] = "deinit"]
          /\ wanted' = FALSE
          /\ UNCHANGED <<handlers, wifiCbs, nwkCbs, status, autoReconnect, firing, told>>

\* The driver goes; one that another task has started again meanwhile refuses.
DriverDeinit(t) ==
    /\ pc[t] = "deinit"
    /\ \/ driver # "stopped" /\ Restart
       \/ /\ driver = "stopped" /\ driver' = "off"
          /\ pc' = [pc EXCEPT ![t] = "free"]
          /\ UNCHANGED <<events, handlers, wifiCbs, nwkCbs, status, autoReconnect, firing, told, wanted>>

\* wifiCallbackMgmt, which the handlers read, goes last.
FreeCallbacks(t) ==
    /\ pc[t] = "free"
    /\ wifiCbs' = "null"
    /\ pc' = [pc EXCEPT ![t] = "unload"]
    /\ UNCHANGED <<driver, events, handlers, nwkCbs, status, autoReconnect, firing, told, wanted>>

DeinitEnds(t) ==
    /\ pc[t] = "unload"
    /\ nwkCbs' = NoTable
    /\ pc' = [pc EXCEPT ![t] = "ready"]
    /\ UNCHANGED <<driver, events, handlers, wifiCbs, status, autoReconnect, firing, told, wanted>>

-----------------------------------------------------------------------------
(* Callbacks.                                                              *)

\* The first free slot, none when all are taken (IOT_ERR_NO_MEM).
Register(t, c, e) ==
    /\ pc[t] = "ready" /\ nwkCbs # NoTable
    /\ LET free == {i \in Slots : nwkCbs[e][i] = None}
       IN \E i \in free : /\ \A j \in free : i <= j
                          /\ nwkCbs' = [nwkCbs EXCEPT ![e][i] = c]
    /\ told' = [told EXCEPT ![c] = "nothing"]
    /\ UNCHANGED <<driver, events, handlers, wifiCbs, status, autoReconnect, firing, pc, wanted>>

\* The first slot that holds the callback; it may hold another one.
Unregister(t, c, e) ==
    /\ pc[t] = "ready" /\ nwkCbs # NoTable
    /\ LET mine == {i \in Slots : nwkCbs[e][i] = c}
       IN \E i \in mine : /\ \A j \in mine : i <= j
                          /\ nwkCbs' = [nwkCbs EXCEPT ![e][i] = None]
    /\ told' = [told EXCEPT ![c] = "nothing"]
    /\ UNCHANGED <<driver, events, handlers, wifiCbs, status, autoReconnect, firing, pc, wanted>>

-----------------------------------------------------------------------------
(* The event handler, on the task of the event loop.                       *)

(* Mutant: losing the address is not a change of status. *)
StatusKeptOnLoss(e) == IF e = "CONNECTED" THEN "CONNECTED_NO_IP" ELSE "GOT_IP"

StatusAfter(e) == CASE e = "DISCONNECTED" -> "DISCONNECTED"
                    [] e = "CONNECTED"    -> "CONNECTED_NO_IP"
                    [] e = "GOT_IP"       -> "GOT_IP"

\* The event under which IOT_NetworkMgmt tells its callbacks; it ignores CONNECTED.
ToldAs(e) == IF e = "GOT_IP" THEN "CONNECTED" ELSE e

\* Without handlers events are dropped; without a table its entry is read through NULL.
HandleEvent ==
    /\ firing = NoFiring /\ events # <<>>
    /\ IF wifiCbs = "null"
       THEN Restart
       ELSE /\ events' = Tail(events)
            /\ status' = StatusAfter(Head(events))
            /\ firing' = [event |-> Head(events),
                          slot |-> IF Head(events) = "CONNECTED" THEN SlotCount + 1 ELSE 1,
                          cb |-> None]
            /\ UNCHANGED <<driver, handlers, wifiCbs, nwkCbs, autoReconnect, pc, told, wanted>>

\* The callback of the slot the handler has come to.
InSlot == nwkCbs[ToldAs(firing.event)][firing.slot]

\* fireNwkEventCbs looks into a slot: an empty one is passed over.  A table freed meanwhile
\* is read after free, and may seem to hold anything.
CheckSlot ==
    /\ firing # NoFiring /\ firing.cb = None /\ firing.slot <= SlotCount
    /\ \/ nwkCbs = NoTable /\ Restart
       \/ /\ \E c \in Callbacks \cup {None} :
                /\ nwkCbs # NoTable => c = InSlot
                /\ firing' = IF c = None THEN [firing EXCEPT !.slot = @ + 1]
                             ELSE [firing EXCEPT !.cb = c]
          /\ UNCHANGED <<driver, events, handlers, wifiCbs, nwkCbs, status, autoReconnect, pc, told, wanted>>

(* Mutant: the loop over the slots ends at the first callback it finds. *)
FireFirst ==
    /\ firing.cb # None
    /\ told' = [told EXCEPT ![firing.cb] = ToldAs(firing.event)]
    /\ firing' = [firing EXCEPT !.slot = SlotCount + 1, !.cb = None]
    /\ UNCHANGED <<driver, events, handlers, wifiCbs, nwkCbs, status, autoReconnect, pc, wanted>>

\* It calls the one it found, or the one that is in the slot by now; from a slot emptied
\* meanwhile it may call NULL.
FireSlot ==
    /\ firing.cb # None
    /\ \/ (nwkCbs # NoTable => InSlot = None) /\ Restart
       \/ /\ \E c \in Callbacks :
                /\ nwkCbs # NoTable => c \in {firing.cb, InSlot}
                /\ told' = [told EXCEPT ![c] = ToldAs(firing.event)]
          /\ firing' = [firing EXCEPT !.slot = @ + 1, !.cb = None]
          /\ UNCHANGED <<driver, events, handlers, wifiCbs, nwkCbs, status, autoReconnect, pc, wanted>>

\* esp_wifi_connect does nothing unless the driver is started and idle.
Connecting == IF driver = "idle" THEN "connecting" ELSE driver

\* The end of the handler: after a disconnection, connect again if that is on.  The driver
\* may refuse (no memory, or a state of its own); nobody looks.
Reconnect ==
    /\ firing # NoFiring /\ firing.slot = SlotCount + 1
    /\ firing' = NoFiring
    /\ IF firing.event = "DISCONNECTED" /\ autoReconnect
       THEN \/ driver' = Connecting /\ UNCHANGED wanted
            \/ wanted' = (wanted /\ driver # "idle") /\ UNCHANGED driver
       ELSE UNCHANGED <<driver, wanted>>
    /\ UNCHANGED <<events, handlers, wifiCbs, nwkCbs, status, autoReconnect, pc, told>>

-----------------------------------------------------------------------------
(* Connecting, disconnecting, scanning.                                    *)

Goto(t, place) == pc' = [pc EXCEPT ![t] = place]

\* The call ends: with IOT_OK a connect is what is wanted now.
Return(t, ok) == Goto(t, "ready") /\ wanted' = ok

\* IOT_WifiConnect: no reconnection while the network is being switched.
StartConnect(t) ==
    /\ pc[t] = "ready" /\ driver # "off"
    /\ autoReconnect' = FALSE /\ wanted' = FALSE
    /\ Goto(t, "disconnect")
    /\ UNCHANGED <<driver, events, handlers, wifiCbs, nwkCbs, status, firing, told>>

\* Its calls of the driver, in order; the first that fails ends it.
DriverCall(t) ==
    /\ \/ /\ pc[t] = "disconnect" /\ driver \in Started
          /\ Leave("idle") /\ Goto(t, "stop") /\ UNCHANGED wanted
       \/ /\ pc[t] = "stop" /\ driver # "off"
          /\ Leave("stopped") /\ Goto(t, "config") /\ UNCHANGED wanted
       \/ /\ pc[t] = "config" /\ driver \notin {"off", "connecting"}
          /\ Goto(t, "start") /\ UNCHANGED <<driver, events, wanted>>
       \/ /\ pc[t] = "start" /\ driver # "off"
          /\ driver' = IF driver = "stopped" THEN "idle" ELSE driver
          /\ Goto(t, "resume") /\ UNCHANGED <<events, wanted>>
       \/ /\ pc[t] = "connect" /\ driver \in {"idle", "noip", "up"}
          /\ driver' = Connecting /\ Return(t, TRUE) /\ UNCHANGED events
    /\ UNCHANGED <<handlers, wifiCbs, nwkCbs, status, autoReconnect, firing, told>>

\* Any of them may fail, for its state or for reasons of its own.
DriverCallFails(t) ==
    /\ pc[t] \in {"disconnect", "stop", "config", "start", "connect"}
    /\ Return(t, FALSE)
    /\ UNCHANGED <<driver, events, handlers, wifiCbs, nwkCbs, status, autoReconnect, firing, told>>

(* Mutant: the flag is turned on again only by the next successful call. *)
ResumeForgotten(t) ==
    /\ pc[t] = "resume"
    /\ Goto(t, "connect")
    /\ UNCHANGED <<driver, events, handlers, wifiCbs, nwkCbs, status, autoReconnect, firing, told, wanted>>

Resume(t) ==
    /\ pc[t] = "resume"
    /\ autoReconnect' = TRUE
    /\ Goto(t, "connect")
    /\ UNCHANGED <<driver, events, handlers, wifiCbs, nwkCbs, status, firing, told, wanted>>

StartDisconnect(t) ==
    /\ pc[t] = "ready" /\ driver # "off"
    /\ autoReconnect' = FALSE /\ wanted' = FALSE
    /\ Goto(t, "leave")
    /\ UNCHANGED <<driver, events, handlers, wifiCbs, nwkCbs, status, firing, told>>

DisconnectEnds(t) ==
    /\ pc[t] = "leave"
    /\ \/ driver \in Started /\ Leave("idle")
       \/ UNCHANGED <<driver, events>>
    /\ Return(t, FALSE)
    /\ UNCHANGED <<handlers, wifiCbs, nwkCbs, status, autoReconnect, firing, told>>

SetAutoReconnect(t, enable) ==
    /\ pc[t] = "ready"
    /\ autoReconnect' = enable /\ wanted' = FALSE
    /\ UNCHANGED <<driver, events, handlers, wifiCbs, nwkCbs, status, firing, pc, told>>

\* A scan aborts when the driver refuses it: not started, or connecting.
ScanAborts(t) ==
    /\ pc[t] = "ready" /\ driver \in {"stopped", "connecting"}
    /\ Restart

-----------------------------------------------------------------------------
(* What IOT_NwkGetConnectionStatus and IOT_NwkGetConnectivities answer.    *)

NwkStatus == CASE status = "GOT_IP"          -> "CONNECTED"
               [] status = "CONNECTED_NO_IP" -> "CONNECTING"
               [] status = "DISCONNECTED"    -> "DISCONNECTED"

\* IOT_WifiGetIpInfo answers IOT_OK, with zeros or an address, whenever the network interface
\* exists: it is made by the first start and never destroyed, as are the handlers.
HasIpInfo == handlers

WifiConnectivity == [status |-> NwkStatus, hasIpv4 |-> NwkStatus = "CONNECTED" /\ HasIpInfo]

-----------------------------------------------------------------------------
Call(t) == \/ NwkInit(t) \/ NwkDeinit(t) \/ DriverDeinit(t) \/ FreeCallbacks(t) \/ DeinitEnds(t)
           \/ StartConnect(t) \/ DriverCall(t) \/ DriverCallFails(t) \/ Resume(t)
           \/ StartDisconnect(t) \/ DisconnectEnds(t) \/ ScanAborts(t)
           \/ \E b \in BOOLEAN : SetAutoReconnect(t, b)
           \/ \E c \in Callbacks, e \in NwkEvents : Register(t, c, e) \/ Unregister(t, c, e)

Next == \/ LinkChanges \/ HandleEvent \/ CheckSlot \/ FireSlot \/ Reconnect
        \/ \E t \in Tasks : Call(t)

Spec == Init /\ [][Next]_vars

-----------------------------------------------------------------------------
AtRest == events = <<>> /\ firing = NoFiring

\* Once every event is handled, the status told to callers is the driver's,
\* whatever calls, losses and late events were interleaved (currentWifiStatus
\* is written by the handler alone, from events that may be about a connection
\* already replaced).
StatusAgreesAtRest ==
    AtRest => WifiConnectivity = CASE driver = "up"   -> [status |-> "CONNECTED", hasIpv4 |-> TRUE]
                                   [] driver = "noip" -> [status |-> "CONNECTING", hasIpv4 |-> FALSE]
                                   [] OTHER           -> [status |-> "DISCONNECTED", hasIpv4 |-> FALSE]

\* The callback is registered for the event.
Registered(c, e) == nwkCbs # NoTable /\ \E i \in Slots : nwkCbs[e][i] = c

\* Once every event is handled, what a callback was last told about the link
\* still holds, although it and others come and go in the slots (also twice)
\* while fireNwkEventCbs is under way, between its look at a slot and its call too:
\* told of a connection, it is also told of its end.
ToldHoldsAtRest ==
    AtRest => \A c \in Callbacks :
        /\ told[c] = "CONNECTED" /\ Registered(c, "DISCONNECTED") => driver = "up"
        /\ told[c] = "DISCONNECTED" /\ Registered(c, "CONNECTED") => driver # "up"

\* With one task in charge of the connection: after IOT_WifiConnect answered
\* IOT_OK and until that task asks for something else, reconnecting is on, and
\* the driver is connected or connecting, or a disconnection is still on its way
\* to the handler that will connect again.  (The flag is off during a switch, the
\* handler reads it after the callbacks, and late events of the old connection
\* meet the new one.  Where the driver refuses the handler's own esp_wifi_connect
\* nobody is left trying, since wifi.c does not look: wanted says so.)
NeverLeftAlone ==
    (\A s, t \in Tasks : s = t) /\ wanted =>
        /\ autoReconnect
        /\ \/ driver \in Trying
           \/ \E i \in 1 .. Len(events) : events[i] = "DISCONNECTED"
           \/ firing.event = "DISCONNECTED"
=============================================================================
