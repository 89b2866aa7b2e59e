------------------------------ MODULE BleNimble ------------------------------
(***************************************************************************)
(* IOT_BleMgmtNimble.c: the BLE driver over NimBLE (external).  A task adds *)
(* services, advertises, scans and notifies; another may stop the stack     *)
(* (OTA does); the host task calls internalGapCb and the access callbacks.  *)
(* None of the tables has a lock.                                           *)
(*                                                                          *)
(* A service has one characteristic; its descriptors are left out.          *)
(***************************************************************************)
EXTENDS Naturals, Sequences

CONSTANTS
    Uuids,          \* UUIDs of characteristics
    Links,          \* connection handles
    NoLink,         \* handle 0
    ServiceRoom,    \* bound: entries of the table
    CallRoom        \* bound: calls of nimble_addServices

VARIABLES
    host,           \* external: the host runs
    attrs,          \* external: its attributes, by the callback they were added with, 0 once
                    \* their definitions are freed; a handle is a position
    links,          \* external: the connections
    ended,          \* external: the one that ended and that internalGapCb has still to hear of
    advertising,    \* external: "no", with the payload "asked" for or some "other", or a "beacon"
    nimbleInitialized, \* s_nimbleInitialized
    nimbleCbs,      \* the events of callbackMgmt that are registered
    accessDiff,     \* gatt_svc_access_diff, with the entries beyond the count
    services,       \* numberOfGattServices
    current,        \* currConnectionHandle
    isBleConnected,
    adding,         \* the UUIDs nimble_addServices has still to register
    nimblePc,       \* where that call is
    calls,          \* bound, and name of the callback given: calls of nimble_addServices
    reused          \* history: the host was stopped, and handles begin again

nimbleVars == <<host, attrs, links, ended, advertising, nimbleInitialized, nimbleCbs, accessDiff,
                services, current, isBleConnected, adding, nimblePc, calls, reused>>

\* The only event whose registration the driver's own state depends on.
LinkEvents == {"CONNECTED"}
NoUuid == "none"
Freed == [uuid |-> NoUuid, cb |-> 0, handle |-> 0]

NimbleTypeOK ==
    /\ host \in BOOLEAN /\ nimbleInitialized \in BOOLEAN
    /\ isBleConnected \in BOOLEAN /\ reused \in BOOLEAN
    /\ attrs \in Seq([uuid : Uuids, cb : Nat])
    /\ links \subseteq Links /\ {current, ended} \subseteq Links \cup {NoLink}
    /\ advertising \in {"no", "asked", "other", "beacon"}
    /\ nimbleCbs \subseteq LinkEvents
    /\ accessDiff \in Seq([uuid : Uuids \cup {NoUuid}, cb : Nat, handle : 0 .. Len(attrs) + ServiceRoom])
    /\ services \in 0 .. Len(accessDiff) /\ Len(accessDiff) <= ServiceRoom
    /\ adding \in Seq(Uuids) /\ nimblePc \in {"ready", "moved", "filled", "register"}
    /\ calls \in 0 .. CallRoom

NimbleStart ==
    /\ host = FALSE /\ attrs = <<>> /\ links = {} /\ ended = NoLink /\ advertising = "no"
    /\ nimbleInitialized = FALSE /\ nimbleCbs = {}
    /\ accessDiff = <<>> /\ services = 0
    /\ current = NoLink /\ isBleConnected = FALSE
    /\ adding = <<>> /\ nimblePc = "ready" /\ calls = 0 /\ reused = FALSE

-----------------------------------------------------------------------------
(* Starting and stopping.                                                  *)

\* callbackMgmt is allocated anew, with nothing registered.  (A failure changes nothing
\* that a later call reads.)
NimbleInit ==
    /\ ~host /\ ~nimbleInitialized
    /\ host' = TRUE /\ nimbleInitialized' = TRUE /\ nimbleCbs' = {}
    /\ UNCHANGED <<attrs, links, ended, advertising, accessDiff, services, current,
                   isBleConnected, adding, nimblePc, calls, reused>>

\* The tables, the callbacks and the connection are left as they are.
NimbleDeinit ==
    /\ nimbleInitialized
    /\ nimbleInitialized' = FALSE
    /\ UNCHANGED <<host, attrs, links, ended, advertising, nimbleCbs, accessDiff, services,
                   current, isBleConnected, adding, nimblePc, calls, reused>>

\* nimble_port_stop ends the connections, with their events, before the host.
PortStops ==
    /\ host /\ ~nimbleInitialized /\ links = {} /\ ended = NoLink
    /\ host' = FALSE /\ attrs' = <<>> /\ advertising' = "no"
    /\ reused' = TRUE
    /\ UNCHANGED <<links, ended, nimbleInitialized, nimbleCbs, accessDiff, services, current,
                   isBleConnected, adding, nimblePc, calls>>

-----------------------------------------------------------------------------
(* Services.                                                               *)

\* The table is moved for more entries (or there is no memory): until
\* gatt_svc_access_diff points to the new one it points to what is free.
MoveTable ==
    /\ nimblePc = "ready" /\ nimbleInitialized /\ calls < CallRoom /\ services < ServiceRoom
    /\ calls' = calls + 1
    /\ nimblePc' \in {"ready", "moved"}
    /\ UNCHANGED <<host, attrs, links, ended, advertising, nimbleInitialized, nimbleCbs,
                   accessDiff, services, current, isBleConnected, adding, reused>>

\* The entries of a call, with a copy of each UUID and the callback, or freed again.
Filled(uuids, cb) == [i \in 1 .. Len(uuids) |-> [uuid |-> uuids[i], cb |-> cb, handle |-> 0]]
Emptied(uuids) == [i \in 1 .. Len(uuids) |-> Freed]

\* Without memory the new entries are freed, and the answer is whatever rc holds.
AddServices(uuids) ==
    /\ nimblePc = "moved" /\ services + Len(uuids) <= ServiceRoom
    /\ LET before == SubSeq(accessDiff, 1, services)
       IN \/ accessDiff' = before \o Filled(uuids, calls) /\ adding' = uuids /\ nimblePc' = "filled"
          \/ accessDiff' = before \o Emptied(uuids) /\ nimblePc' = "ready" /\ UNCHANGED adding
    /\ UNCHANGED <<host, attrs, links, ended, advertising, nimbleInitialized, nimbleCbs,
                   services, current, isBleConnected, calls, reused>>

\* fail_cleanup, once the entries are counted: all of the call's stay, empty, and what
\* NimBLE has registered of it has its definitions freed.
Cleanup ==
    /\ accessDiff' = [i \in 1 .. Len(accessDiff) |->
                         IF accessDiff[i].cb = calls THEN Freed ELSE accessDiff[i]]
    /\ attrs' = [h \in 1 .. Len(attrs) |->
                    IF attrs[h].cb = calls THEN [attrs[h] EXCEPT !.cb = 0] ELSE attrs[h]]
    /\ adding' = <<>> /\ nimblePc' = "ready"

(* Mutant: the entries are counted after NimBLE has registered them. *)
CountLater ==
    /\ nimblePc = "filled"
    /\ nimblePc' = "register"
    /\ UNCHANGED <<host, attrs, links, ended, advertising, nimbleInitialized, nimbleCbs,
                   accessDiff, services, adding, current, isBleConnected, calls, reused>>

\* The entries count from here on; NimBLE may refuse to count its own.
CountServices ==
    /\ nimblePc = "filled"
    /\ services' = Len(accessDiff)
    /\ \/ nimblePc' = "register" /\ UNCHANGED <<accessDiff, attrs, adding>>
       \/ Cleanup
    /\ UNCHANGED <<host, links, ended, advertising, nimbleInitialized, nimbleCbs,
                   current, isBleConnected, calls, reused>>

\* onSvcRegisterCb: the first entry with the UUID gets the handle, whoever added it.
Noted(uuid, handle) ==
    LET same == {i \in 1 .. services : accessDiff[i].uuid = uuid}
    IN IF same = {} THEN accessDiff
       ELSE [accessDiff EXCEPT ![CHOOSE i \in same : \A j \in same : i <= j].handle = handle]

\* ble_gatts_add_dynamic_svcs, one service at a time, whose callback is the one given in
\* this call.  NimBLE writes the handle to the entry (val_handle), then calls onSvcRegisterCb.
RegisterService ==
    /\ nimblePc = "register" /\ adding # <<>> /\ host
    /\ attrs' = Append(attrs, [uuid |-> Head(adding), cb |-> calls])
    /\ accessDiff' = [Noted(Head(adding), Len(attrs'))
                         EXCEPT ![services - Len(adding) + 1].handle = Len(attrs')]
    /\ adding' = Tail(adding)
    /\ UNCHANGED <<host, links, ended, advertising, nimbleInitialized, nimbleCbs, services,
                   current, isBleConnected, nimblePc, calls, reused>>

\* IOT_OK.
AddingEnds ==
    /\ nimblePc = "register" /\ adding = <<>>
    /\ nimblePc' = "ready"
    /\ UNCHANGED <<host, attrs, links, ended, advertising, nimbleInitialized, nimbleCbs, accessDiff,
                   services, current, isBleConnected, adding, calls, reused>>

\* NimBLE may refuse at any service, whether the host is up or stopped meanwhile.
RegisterFails ==
    /\ nimblePc = "register" /\ Cleanup
    /\ UNCHANGED <<host, links, ended, advertising, nimbleInitialized, nimbleCbs,
                   services, current, isBleConnected, calls, reused>>

\* getAttrIndex and internalCharAccessCallback: the callback an access to a handle reaches, 0 is none.
EntryOf(handle) ==
    LET fit == {i \in 1 .. services : accessDiff[i].handle = handle}
    IN IF fit = {} THEN 0 ELSE CHOOSE i \in fit : \A j \in fit : i <= j

Reached(handle) == IF EntryOf(handle) = 0 THEN 0 ELSE accessDiff[EntryOf(handle)].cb

-----------------------------------------------------------------------------
(* Advertising (scanning leaves nothing in the driver).                    *)

\* The payload, then the start, which fails when it is on already: the payload is changed.
StartAdvertising ==
    /\ nimbleInitialized /\ host
    /\ advertising' \in IF advertising = "no" THEN {"no", "asked"}
                       ELSE IF advertising = "beacon" THEN {"beacon"} ELSE {"asked"}
    /\ UNCHANGED <<host, attrs, links, ended, nimbleInitialized, nimbleCbs, accessDiff, services,
                   current, isBleConnected, adding, nimblePc, calls, reused>>

\* The same without the check and the name; nobody can connect to a beacon.
StartBeacon ==
    /\ host
    /\ advertising' \in IF advertising = "no" THEN {"no", "beacon"}
                       ELSE IF advertising = "beacon" THEN {"beacon"} ELSE {"other"}
    /\ UNCHANGED <<host, attrs, links, ended, nimbleInitialized, nimbleCbs, accessDiff, services,
                   current, isBleConnected, adding, nimblePc, calls, reused>>

StopAdvertising ==
    /\ host
    /\ advertising' = "no"
    /\ UNCHANGED <<host, attrs, links, ended, nimbleInitialized, nimbleCbs, accessDiff, services,
                   current, isBleConnected, adding, nimblePc, calls, reused>>

\* The handle a notification is sent with, 0 when the UUID is not found.
HandleOf(uuid) ==
    LET fit == {i \in 1 .. services : accessDiff[i].uuid = uuid}
    IN IF fit = {} THEN 0 ELSE accessDiff[CHOOSE i \in fit : \A j \in fit : i <= j].handle

\* Whatever it then finds or sends, it first empties the payload that is advertised.
Notify ==
    /\ host
    /\ advertising' = IF advertising \in {"no", "beacon"} THEN advertising ELSE "other"
    /\ UNCHANGED <<host, attrs, links, ended, nimbleInitialized, nimbleCbs, accessDiff, services,
                   current, isBleConnected, adding, nimblePc, calls, reused>>

-----------------------------------------------------------------------------
(* Connections: internalGapCb, on the host task.                           *)

\* Any disconnection, and any attempt that fails, forgets the connection.
Forget == current' = NoLink /\ isBleConnected' = FALSE

\* Advertising ends; the connection is noted only if somebody registered for it.
Connected(l) ==
    /\ host /\ ended = NoLink /\ advertising \in {"asked", "other"} /\ l \notin links
    /\ links' = links \cup {l} /\ advertising' = "no"
    /\ IF "CONNECTED" \in nimbleCbs
       THEN current' = l /\ isBleConnected' = TRUE
       ELSE UNCHANGED <<current, isBleConnected>>
    /\ UNCHANGED <<host, attrs, ended, nimbleInitialized, nimbleCbs, accessDiff, services,
                   adding, nimblePc, calls, reused>>

ConnectFails ==
    /\ host /\ ended = NoLink /\ advertising \in {"asked", "other"}
    /\ Forget /\ advertising' = "no"
    /\ UNCHANGED <<host, attrs, links, ended, nimbleInitialized, nimbleCbs, accessDiff, services,
                   adding, nimblePc, calls, reused>>

\* external: by the peer, by nimble_disconnect, or because the host stops.
LinkEnds(l) ==
    /\ l \in links /\ ended = NoLink
    /\ links' = links \ {l} /\ ended' = l
    /\ UNCHANGED <<host, attrs, advertising, nimbleInitialized, nimbleCbs, accessDiff,
                   services, current, isBleConnected, adding, nimblePc, calls, reused>>

\* Whichever it was, there is none.
Disconnected ==
    /\ ended # NoLink /\ ended' = NoLink
    /\ Forget
    /\ UNCHANGED <<host, attrs, links, advertising, nimbleInitialized, nimbleCbs, accessDiff,
                   services, adding, nimblePc, calls, reused>>

\* What nimble_isConnected answers, and what nimble_disconnect needs to end a connection.
NimbleIsConnected == isBleConnected
CanDisconnect == NimbleIsConnected /\ current # NoLink

NimbleRegister(e) ==
    /\ nimbleInitialized /\ nimbleCbs' = nimbleCbs \cup {e}
    /\ UNCHANGED <<host, attrs, links, ended, advertising, nimbleInitialized, accessDiff, services,
                   current, isBleConnected, adding, nimblePc, calls, reused>>

NimbleUnregister(e) ==
    /\ e \in nimbleCbs /\ nimbleCbs' = nimbleCbs \ {e}
    /\ UNCHANGED <<host, attrs, links, ended, advertising, nimbleInitialized, accessDiff, services,
                   current, isBleConnected, adding, nimblePc, calls, reused>>

NimbleNext ==
    \/ NimbleInit \/ NimbleDeinit \/ PortStops
    \/ MoveTable \/ \E u, v \in Uuids : AddServices(<<u>>) \/ AddServices(<<u, v>>)
    \/ CountServices \/ RegisterService \/ AddingEnds \/ RegisterFails
    \/ StartAdvertising \/ StartBeacon \/ StopAdvertising \/ Notify
    \/ \E l \in Links : Connected(l) \/ LinkEnds(l)
    \/ ConnectFails \/ Disconnected
    \/ \E e \in LinkEvents : NimbleRegister(e) \/ NimbleUnregister(e)

NimbleSpec == NimbleStart /\ [][NimbleNext]_nimbleVars

-----------------------------------------------------------------------------
\* The attribute was added whole, and its UUID was added again neither before it, unless
\* that addition failed, nor after it.
OnlyOne(h) ==
    /\ attrs[h].cb # 0
    /\ \A g \in 1 .. Len(attrs) : attrs[g].uuid = attrs[h].uuid /\ g # h => g < h /\ attrs[g].cb = 0

\* An access to an attribute reaches the callback given with it, and its UUID leads to
\* its handle, also while services are being added, after additions that failed half way
\* and when they are tried again; unless its UUID was added twice (the first entry gets
\* the handle of the second, too), the table is being moved, or the stack was stopped
\* before (its handles begin again, the table does not).  A disconnection is asked of a
\* connection that is up, or of the one that ended and whose end is being told.
NimbleRightEnd ==
    /\ ~reused /\ nimblePc # "moved" => \A h \in 1 .. Len(attrs) :
          OnlyOne(h) => Reached(h) = attrs[h].cb /\ HandleOf(attrs[h].uuid) = h
    /\ CanDisconnect => current \in links \cup {ended}
=============================================================================
