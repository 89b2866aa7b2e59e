----------------------------- MODULE GroupStore -----------------------------
(***************************************************************************)
(* IOT_DaoGroupMgmt.c: each group has a list of devices, kept as one value  *)
(* in storage.  To add or remove a device is to read the list, change the   *)
(* copy and write it back; no lock is held meanwhile.                       *)
(*                                                                          *)
(* A list is abstracted to how often it has each device (a device added     *)
(* twice is in it twice); the element information of the entries is left    *)
(* out.  A list with none and a key that is absent are the same: the code   *)
(* never writes an empty list.                                              *)
(***************************************************************************)
EXTENDS Naturals

CONSTANTS
    GroupTasks,
    GroupIds,       \* uint16_t
    Narrow,         \* those that fit the uint8_t of IOT_DaoGroupRemoveDeviceFromGroup
    LowByte,        \* what the conversion to uint8_t makes of a group id
    Eids,
    CopyRoom        \* bound: how often a device may be in one list

ASSUME GroupAssumption ==
    /\ Narrow \subseteq GroupIds /\ LowByte \in [GroupIds -> Narrow] /\ CopyRoom \in Nat
    /\ \A g \in Narrow : LowByte[g] = g

VARIABLES
    stored,         \* external: the list of each group, in namespace "group-v1"
    call,           \* the call of each task
    owed,           \* history: what the answers of the calls say a list has, while it is not torn
    torn            \* history: groups of which the answers may say something else

groupVars == <<stored, call, owed, torn>>

Lists == [Eids -> Nat]
NoDevices == [e \in Eids |-> 0]
GroupReady == [op |-> "ready"]

\* A task between its read and its write of one list.
Writing(t, g) == call[t].op \in {"add", "remove"} /\ call[t].group = g

Calls ==
    [op : {"ready"}]
    \cup [op : {"add"}, group : GroupIds, eid : Eids, list : Lists]
    \cup [op : {"remove"}, group : Narrow, eid : Eids, list : Lists, todo : SUBSET GroupIds]
    \cup [op : {"all"}, eid : Eids, todo : SUBSET GroupIds]

GroupTypeOK ==
    /\ stored \in [GroupIds -> Lists] /\ owed \in [GroupIds -> Lists]
    /\ call \in [GroupTasks -> Calls] /\ torn \subseteq GroupIds

GroupInit ==
    /\ stored = [g \in GroupIds |-> NoDevices] /\ owed = stored
    /\ call = [t \in GroupTasks |-> GroupReady] /\ torn = {}

\* The group a task is about to work on, if another one is at work on it.
Met(t, g) == IF \E u \in GroupTasks \ {t} : Writing(u, g) THEN {g} ELSE {}

-----------------------------------------------------------------------------
(* IOT_DaoGroupAddDeviceToGroup.                                           *)

ReadForAdd(t, g, e) ==
    /\ call[t].op = "ready" /\ stored[g][e] < CopyRoom
    /\ call' = [call EXCEPT ![t] = [op |-> "add", group |-> g, eid |-> e, list |-> stored[g]]]
    /\ torn' = torn \cup Met(t, g)
    /\ UNCHANGED <<stored, owed>>

\* A read that fails leaves the size at 0, and is taken for a group that has no list.
ReadFailsForAdd(t, g, e) ==
    /\ call[t].op = "ready"
    /\ call' = [call EXCEPT ![t] = [op |-> "add", group |-> g, eid |-> e, list |-> NoDevices]]
    /\ torn' = torn \cup {g}
    /\ UNCHANGED <<stored, owed>>

(* Mutant: a device takes the place of the others. *)
WriteAddAlone(t) ==
    /\ call[t].op = "add"
    /\ LET g == call[t].group  e == call[t].eid
       IN /\ stored' = [stored EXCEPT ![g] = [NoDevices EXCEPT ![e] = 1]]
          /\ owed' = IF g \in torn THEN owed ELSE [owed EXCEPT ![g][e] = @ + 1]
    /\ call' = [call EXCEPT ![t] = GroupReady]
    /\ UNCHANGED torn

WriteAdd(t) ==
    /\ call[t].op = "add"
    /\ LET g == call[t].group  e == call[t].eid
       IN /\ stored' = [stored EXCEPT ![g] = [call[t].list EXCEPT ![e] = @ + 1]]
          /\ owed' = IF g \in torn THEN owed ELSE [owed EXCEPT ![g][e] = @ + 1]
    /\ call' = [call EXCEPT ![t] = GroupReady]
    /\ UNCHANGED torn

\* A write that fails may have been made all the same.
WriteAddFails(t) ==
    /\ call[t].op = "add"
    /\ LET g == call[t].group  e == call[t].eid
       IN /\ \/ stored' = [stored EXCEPT ![g] = [call[t].list EXCEPT ![e] = @ + 1]]
             \/ stored' = stored
          /\ torn' = torn \cup {g}
    /\ call' = [call EXCEPT ![t] = GroupReady]
    /\ UNCHANGED owed

-----------------------------------------------------------------------------
(* IOT_DaoGroupRemoveDeviceFromGroup, by itself or for each group in turn. *)

\* After a group: the next one, or the end of the call.
After(e, todo) == IF todo = {} THEN GroupReady ELSE [op |-> "all", eid |-> e, todo |-> todo]

\* IOT_DaoGroupGetDeviceList, when the read does not fail.  (Where it fails for a group
\* by itself the call answers an error, and nothing has changed.)
DeviceList(g) == stored[g]

(* Mutant: whether the device is in the list is not looked at. *)
ReadUnlooked(t, g, e, todo) ==
    /\ call' = [call EXCEPT ![t] =
                   [op |-> "remove", group |-> g, eid |-> e, list |-> DeviceList(g), todo |-> todo]]
    /\ UNCHANGED <<stored, owed>>

ReadForRemove(t, g, e, todo) ==
    /\ call' = [call EXCEPT ![t] =
                   IF DeviceList(g)[e] = 0 THEN After(e, todo)
                   ELSE [op |-> "remove", group |-> g, eid |-> e, list |-> DeviceList(g), todo |-> todo]]
    /\ UNCHANGED <<stored, owed>>

RemoveFromGroup(t, g, e) ==
    /\ call[t].op = "ready"
    /\ ReadForRemove(t, g, e, {})
    /\ torn' = torn \cup Met(t, g)

WriteRemove(t) ==
    /\ call[t].op = "remove"
    /\ LET g == call[t].group  e == call[t].eid
       IN /\ stored' = [stored EXCEPT ![g] = [call[t].list EXCEPT ![e] = @ - 1]]
          /\ owed' = IF g \in torn THEN owed ELSE [owed EXCEPT ![g][e] = @ - 1]
          /\ call' = [call EXCEPT ![t] = After(e, call[t].todo)]
    /\ UNCHANGED torn

\* Removal from all groups goes on after a group that failed, and answers IOT_OK.
WriteRemoveFails(t) ==
    /\ call[t].op = "remove"
    /\ LET g == call[t].group  e == call[t].eid
       IN /\ \/ stored' = [stored EXCEPT ![g] = [call[t].list EXCEPT ![e] = @ - 1]]
             \/ stored' = stored
          /\ torn' = torn \cup {g}
          /\ call' = [call EXCEPT ![t] = After(e, call[t].todo)]
    /\ UNCHANGED owed

\* IOT_DaoGroupRemoveDeviceFromAllGroup: the keys there are now.
RemoveFromAll(t, e) ==
    /\ call[t].op = "ready"
    /\ call' = [call EXCEPT ![t] = After(e, {g \in GroupIds : stored[g] # NoDevices})]
    /\ UNCHANGED <<stored, owed, torn>>

\* The next key, cut down to a byte: a wide one names another group.
NextGroup(t) ==
    /\ call[t].op = "all"
    /\ \E g \in call[t].todo :
          /\ ReadForRemove(t, LowByte[g], call[t].eid, call[t].todo \ {g})
          /\ torn' = torn \cup Met(t, LowByte[g]) \cup (IF g \in Narrow THEN {} ELSE {g, LowByte[g]})

\* Where the list of a group cannot be read it is left as it is, and the answer is IOT_OK.
NextGroupFails(t) ==
    /\ call[t].op = "all"
    /\ \E g \in call[t].todo :
          /\ call' = [call EXCEPT ![t] = After(call[t].eid, call[t].todo \ {g})]
          /\ torn' = torn \cup {g, LowByte[g]}
    /\ UNCHANGED <<stored, owed>>

\* IOT_DaoGroupFactoryReset; tasks at work write on what they have read.
GroupFactoryReset ==
    /\ stored' = [g \in GroupIds |-> NoDevices] /\ owed' = stored'
    /\ torn' = {g \in GroupIds : \E t \in GroupTasks : Writing(t, g)}
    /\ UNCHANGED call

\* One that fails may have erased some.
GroupResetFails ==
    /\ \E kept \in SUBSET GroupIds :
          stored' = [g \in GroupIds |-> IF g \in kept THEN stored[g] ELSE NoDevices]
    /\ torn' = GroupIds
    /\ UNCHANGED <<call, owed>>

GroupNext ==
    \/ GroupFactoryReset \/ GroupResetFails
    \/ \E t \in GroupTasks :
          \/ WriteAdd(t) \/ WriteAddFails(t) \/ WriteRemove(t) \/ WriteRemoveFails(t)
          \/ NextGroup(t) \/ NextGroupFails(t)
          \/ \E e \in Eids : RemoveFromAll(t, e)
          \/ \E e \in Eids : \E g \in Narrow : RemoveFromGroup(t, g, e)
          \/ \E e \in Eids : \E g \in GroupIds : ReadForAdd(t, g, e) \/ ReadFailsForAdd(t, g, e)

GroupSpec == GroupInit /\ [][GroupNext]_groupVars

-----------------------------------------------------------------------------
\* Every list has the devices the answers say it has, those that were added and not
\* removed since, and no others, whatever was done to other groups meanwhile; unless two
\* calls changed the group at once, storage failed a call on it or a factory reset, or
\* its id, which does not fit a byte, was to be removed from.
MembersKept == \A g \in GroupIds \ torn : stored[g] = owed[g]
=============================================================================
