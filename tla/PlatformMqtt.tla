---------------------------- MODULE PlatformMqtt ----------------------------
(***************************************************************************)
(* IOT_MqttMgmt.c: a handle over one client of esp-mqtt (external).  The   *)
(* client's own task changes the session and dispatches its events to      *)
(* mqtt_event_handler holding the client's lock; starting and stopping the *)
(* client takes that lock; the handle itself has none.                     *)
(*                                                                         *)
(* Calls that replace or destroy the client are made while no other call   *)
(* is under way (the handle is freed under them otherwise), and never from *)
(* a callback (esp-mqtt refuses to stop there).                            *)
(***************************************************************************)
CONSTANTS MqttTasks         \* tasks that call the interface

VARIABLES
    client,         \* external: "none", "idle" (not started), "down", "up"
    deaf,           \* external: the client was left without an event handler
    dispatching,    \* external: the event the client's task is dispatching
    handle,         \* the handle: "none", "live", "freed"
    certHeld,       \* the certificate the client points to is allocated (it is not copied)
    isConnected,    \* handle->isConnected
    mqttCbs,        \* the events with a callback (cbs)
    mqttPc,         \* where each task is
    stopFailed,     \* history: a stop failed, and the session it left goes on
    configFailed    \* history: the last configuration failed

mqttVars == <<client, deaf, dispatching, handle, certHeld, isConnected, mqttCbs, mqttPc,
              stopFailed, configFailed>>

MqttEvents == {"CONNECTED", "DISCONNECTED"}

MqttTypeOK ==
    /\ client \in {"none", "idle", "down", "up"}
    /\ deaf \in BOOLEAN /\ certHeld \in BOOLEAN /\ isConnected \in BOOLEAN
    /\ stopFailed \in BOOLEAN /\ configFailed \in BOOLEAN
    /\ dispatching \in MqttEvents \cup {"nothing"}
    /\ mqttCbs \subseteq MqttEvents
    /\ handle \in {"none", "live", "freed"}
    /\ mqttPc \in [MqttTasks -> {"ready", "stop", "replace", "create", "free"}]

MqttStart ==
    /\ client = "none" /\ deaf = FALSE /\ dispatching = "nothing"
    /\ handle = "none" /\ certHeld = TRUE /\ isConnected = FALSE
    /\ mqttCbs = {}
    /\ mqttPc = [t \in MqttTasks |-> "ready"]
    /\ stopFailed = FALSE /\ configFailed = FALSE

Calling == \E t \in MqttTasks : mqttPc[t] # "ready"
Replacing == \E t \in MqttTasks : mqttPc[t] \in {"replace", "create", "free"}
Unlocked == dispatching = "nothing"
MqttGoto(t, place) == mqttPc' = [mqttPc EXCEPT ![t] = place]

-----------------------------------------------------------------------------
(* The client's task.                                                      *)

\* The session is made, not made, or lost; a deaf client dispatches to nobody.
SessionChanges ==
    /\ Unlocked
    /\ \/ client = "down" /\ client' = "up"
          /\ dispatching' = IF deaf THEN "nothing" ELSE "CONNECTED"
       \/ client \in {"down", "up"} /\ client' = "down"
          /\ dispatching' = IF deaf THEN "nothing" ELSE "DISCONNECTED"
    /\ stopFailed' = FALSE
    /\ UNCHANGED <<mqttCbs, deaf, handle, certHeld, isConnected, mqttPc, configFailed>>

(* Mutant: the flag follows the events only where a callback is registered. *)
HandleIfRegistered ==
    /\ dispatching # "nothing"
    /\ isConnected' = IF dispatching \in mqttCbs THEN dispatching = "CONNECTED" ELSE isConnected
    /\ dispatching' = "nothing"
    /\ UNCHANGED <<client, deaf, handle, certHeld, mqttCbs, mqttPc, stopFailed, configFailed>>

\* mqtt_event_handler; the registered callback, if any, is called under the lock too.
MqttHandle ==
    /\ dispatching # "nothing"
    /\ isConnected' = (dispatching = "CONNECTED")
    /\ dispatching' = "nothing"
    /\ UNCHANGED <<client, deaf, handle, certHeld, mqttCbs, mqttPc, stopFailed, configFailed>>

-----------------------------------------------------------------------------
(* The life of the handle.                                                 *)

MqttInit(t) ==
    /\ mqttPc[t] = "ready" /\ handle # "live" /\ ~Calling
    /\ handle' = "live" /\ isConnected' = FALSE /\ mqttCbs' = {}
    /\ UNCHANGED <<client, deaf, dispatching, certHeld, mqttPc, stopFailed, configFailed>>

\* The old certificate is freed first, while the old client may still use it;
\* without memory for the new one the call ends there.
StartConfig(t, withCert) ==
    /\ mqttPc[t] = "ready" /\ handle = "live" /\ ~Calling
    /\ certHeld' = (certHeld /\ (~withCert \/ client = "none"))
    /\ \/ MqttGoto(t, "replace") /\ configFailed' = FALSE
       \/ withCert /\ configFailed' = TRUE /\ UNCHANGED mqttPc
    /\ UNCHANGED <<mqttCbs, client, deaf, dispatching, handle, isConnected, stopFailed>>

\* Destroying waits for the lock and for the task to end; isConnected stays.
DropClient(t) ==
    /\ mqttPc[t] = "replace" /\ Unlocked
    /\ client' = "none" /\ deaf' = FALSE /\ certHeld' = TRUE
    /\ stopFailed' = FALSE
    /\ MqttGoto(t, "create")
    /\ UNCHANGED <<mqttCbs, dispatching, handle, isConnected, configFailed>>

\* The client may not be made; the handler may not be registered, and the
\* client stays without it.
CreateClient(t) ==
    /\ mqttPc[t] = "create"
    /\ \/ client' = "idle" /\ deaf' \in BOOLEAN /\ configFailed' = deaf'
       \/ configFailed' = TRUE /\ UNCHANGED <<client, deaf>>
    /\ MqttGoto(t, "ready")
    /\ UNCHANGED <<mqttCbs, dispatching, handle, certHeld, isConnected, stopFailed>>

(* Mutant: the handle is freed before the client is destroyed. *)
FreedFirst(t) ==
    /\ mqttPc[t] = "ready" /\ handle = "live" /\ ~Calling /\ Unlocked
    /\ handle' = "freed" /\ MqttGoto(t, "free")
    /\ UNCHANGED <<mqttCbs, client, deaf, dispatching, certHeld, isConnected, stopFailed, configFailed>>

StartDeinit(t) ==
    /\ mqttPc[t] = "ready" /\ handle = "live" /\ ~Calling /\ Unlocked
    /\ client' = "none" /\ deaf' = FALSE /\ certHeld' = TRUE
    /\ stopFailed' = FALSE
    /\ MqttGoto(t, "free")
    /\ UNCHANGED <<mqttCbs, dispatching, handle, isConnected, configFailed>>

\* The certificate, then the handle.
EndDeinit(t) ==
    /\ mqttPc[t] = "free"
    /\ handle' = "freed" /\ configFailed' = FALSE
    /\ MqttGoto(t, "ready")
    /\ UNCHANGED <<mqttCbs, client, deaf, dispatching, certHeld, isConnected, stopFailed>>

-----------------------------------------------------------------------------
(* The session.                                                            *)

\* Refused, without effect, by a client that is started.
MqttConnect(t) ==
    /\ mqttPc[t] = "ready" /\ handle = "live" /\ ~Replacing /\ Unlocked
    /\ client = "idle" /\ client' = "down"
    /\ UNCHANGED <<mqttCbs, deaf, dispatching, handle, certHeld, isConnected, mqttPc, stopFailed, configFailed>>

\* The flag is cleared without the lock: an event being dispatched may set it again.
MqttDisconnect(t) ==
    /\ mqttPc[t] = "ready" /\ handle = "live" /\ ~Replacing /\ client # "none"
    /\ isConnected' = FALSE
    /\ MqttGoto(t, "stop")
    /\ UNCHANGED <<mqttCbs, client, deaf, dispatching, handle, certHeld, stopFailed, configFailed>>

\* No event tells of the stop.  It fails when the client is not started, or when the
\* DISCONNECT packet cannot be sent: then the session goes on.
Stop(t) ==
    /\ mqttPc[t] = "stop" /\ Unlocked
    /\ \/ client \in {"down", "up"} /\ client' = "idle" /\ stopFailed' = FALSE
       \/ client = "idle" /\ UNCHANGED <<client, stopFailed>>
       \/ client = "up" /\ stopFailed' = TRUE /\ UNCHANGED client
    /\ MqttGoto(t, "ready")
    /\ UNCHANGED <<mqttCbs, deaf, dispatching, handle, certHeld, isConnected, configFailed>>

\* One callback for an event: a new one replaces the old, NULL and unregistering remove it.
MqttRegister(t, e) ==
    /\ mqttPc[t] = "ready" /\ handle = "live" /\ ~Replacing
    /\ mqttCbs' = mqttCbs \cup {e}
    /\ UNCHANGED <<client, deaf, dispatching, handle, certHeld, isConnected, mqttPc,
                   stopFailed, configFailed>>

MqttUnregister(t, e) ==
    /\ mqttPc[t] = "ready" /\ handle = "live" /\ ~Replacing
    /\ mqttCbs' = mqttCbs \ {e}
    /\ UNCHANGED <<client, deaf, dispatching, handle, certHeld, isConnected, mqttPc,
                   stopFailed, configFailed>>

\* What IOT_MqttGetConnectionStatus answers, and what IOT_MqttSendMessage needs of the
\* handle and of the session to answer IOT_OK.
ConnectionStatus == isConnected
CanSend == handle = "live" /\ client = "up" /\ ConnectionStatus

\* Subscribing and unsubscribing ask only the client.
CanSubscribe == handle = "live" /\ client = "up"

MqttNext ==
    \/ SessionChanges \/ MqttHandle
    \/ \E t \in MqttTasks : \/ MqttInit(t) \/ DropClient(t) \/ CreateClient(t)
                            \/ StartDeinit(t) \/ EndDeinit(t)
                            \/ MqttConnect(t) \/ MqttDisconnect(t) \/ Stop(t)
                            \/ \E withCert \in BOOLEAN : StartConfig(t, withCert)
                            \/ \E e \in MqttEvents : MqttRegister(t, e) \/ MqttUnregister(t, e)

MqttSpec == MqttStart /\ [][MqttNext]_mqttVars

-----------------------------------------------------------------------------
\* Whoever may subscribe may publish: while the session is up, nothing is being
\* dispatched and no IOT_MqttDisconnect is under way, isConnected is not FALSE,
\* whatever stops, restarts and losses came before from several tasks.  Not after
\* a call that failed: a stop that could not send its packet leaves the session up
\* and the flag cleared, a configuration without its handler leaves a client that
\* connects unheard.
NeverSilentWhileUp ==
    CanSubscribe /\ Unlocked /\ ~Calling /\ ~stopFailed /\ ~configFailed => CanSend

\* What the client points to outlives it: it is never there, with a task that may
\* dispatch, when the handle is freed; and its certificate is freed only within a
\* configuration, or for good by one that failed.
NothingDangles ==
    /\ client # "none" => handle = "live"
    /\ client # "none" /\ ~Replacing /\ ~configFailed => certHeld
=============================================================================
