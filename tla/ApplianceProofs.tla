-------------------------- MODULE ApplianceProofs --------------------------
(***************************************************************************)
(* Theorems about the group records and the other components that           *)
(* MCAppliance puts side by side, for any tasks, groups, devices, updates,   *)
(* timers, buttons and bounds.  A step of the whole is a step of one         *)
(* component or leaves it alone; each section has the inductive invariant of *)
(* one, and the last one the types of all.                                   *)
(***************************************************************************)
EXTENDS MCAppliance, FiniteSetTheorems, SequenceTheorems, WellFoundedInduction, TLAPS

allVars == <<part, groupVars, buttonVars, ledVars, scheduleVars, updateVars, appVars>>

-----------------------------------------------------------------------------
(* IOT_DaoGroupMgmt.c: group records.  Every action reads or writes one     *)
(* list: ReadKeeps and WriteKeeps say what either needs to keep the          *)
(* invariant, and each action is shown to be one of them.                    *)

\* A task that removes a device has found it.
ListHeld == \A t \in GroupTasks : call[t].op = "remove" => call[t].list[call[t].eid] >= 1

\* Of a group that is not torn, a task at work on it has the list that is stored,
CopyIsStored ==
    \A g \in GroupIds \ torn : \A t \in GroupTasks : Writing(t, g) => call[t].list = stored[g]

\* and is the only one.
OneWriter ==
    \A g \in GroupIds \ torn : \A t, u \in GroupTasks : Writing(t, g) /\ Writing(u, g) => t = u

GroupInv == GroupTypeOK /\ ListHeld /\ MembersKept /\ CopyIsStored /\ OneWriter

\* A call that is at work on no list.
Away(c) == c.op \in {"ready", "all"}

-----------------------------------------------------------------------------
(* The calls.                                                              *)

LEMMA CallFields ==
    ASSUME NEW c \in Calls
    PROVE  /\ c.op \in {"ready", "add", "remove", "all"}
           /\ c.op \in {"add", "remove"} => c.group \in GroupIds /\ c.eid \in Eids /\ c.list \in Lists
           /\ c.op \in {"remove", "all"} => c.eid \in Eids /\ c.todo \in SUBSET GroupIds
  BY GroupAssumption DEF Calls

LEMMA AfterIsAway ==
    ASSUME NEW e \in Eids, NEW todo \in SUBSET GroupIds
    PROVE  After(e, todo) \in Calls /\ Away(After(e, todo))
  BY DEF After, Calls, GroupReady, Away

-----------------------------------------------------------------------------
(* What a step must keep.                                                  *)

\* A task takes up a call c: it is at work on no list with it, or has read the list of a
\* group nobody else is at work on, or the group is torn.
LEMMA ReadKeeps ==
    ASSUME GroupInv, NEW t \in GroupTasks, NEW c \in Calls,
           Away(call[t]), call' = [call EXCEPT ![t] = c],
           stored' = stored, owed' = owed, torn \subseteq torn', torn' \subseteq GroupIds,
           c.op = "remove" => c.list[c.eid] >= 1,
           ~Away(c) => \/ c.group \in torn'
                       \/ c.list = stored[c.group] /\ Met(t, c.group) \subseteq torn'
    PROVE  GroupInv'
  <1>1. /\ call \in [GroupTasks -> Calls] /\ call' \in [GroupTasks -> Calls]
        /\ call'[t] = c /\ \A u \in GroupTasks \ {t} : call'[u] = call[u]
    BY DEF GroupInv, GroupTypeOK
  <1>2. GroupTypeOK'
    BY <1>1 DEF GroupInv, GroupTypeOK
  <1>3. ListHeld'
    BY <1>1 DEF GroupInv, ListHeld
  <1>4. MembersKept'
    BY DEF GroupInv, MembersKept
  <1>5. ASSUME NEW g \in GroupIds \ torn'
        PROVE  /\ \A u \in GroupTasks \ {t} : Writing(u, g)' = Writing(u, g)
               /\ Writing(t, g)' => /\ c.list = stored[g]
                                    /\ \A u \in GroupTasks \ {t} : ~Writing(u, g)
    <2>1. \A u \in GroupTasks \ {t} : Writing(u, g)' = Writing(u, g)
      BY <1>1 DEF Writing
    <2>2. Writing(t, g)' => ~Away(c) /\ c.group = g
      BY <1>1 DEF Writing, Away
    <2>3. (\E u \in GroupTasks \ {t} : Writing(u, g)) => Met(t, g) = {g}
      BY DEF Met
    <2>4. QED
      BY <2>1, <2>2, <2>3
  <1>6. CopyIsStored'
    <2>1. SUFFICES ASSUME NEW g \in (GroupIds \ torn)', NEW u \in GroupTasks, Writing(u, g)'
                   PROVE  (call[u].list = stored[g])'
      BY DEF CopyIsStored
    <2>2. CASE u = t
      BY <2>1, <2>2, <1>1, <1>5
    <2>3. CASE u # t
      BY <2>1, <2>3, <1>1, <1>5 DEF GroupInv, CopyIsStored
    <2>4. QED
      BY <2>2, <2>3
  <1>7. OneWriter'
    BY <1>5 DEF GroupInv, OneWriter
  <1>8. QED
    BY <1>2, <1>3, <1>4, <1>6, <1>7 DEF GroupInv

\* A task ends its work on a group: the list l is stored, and it is what is owed, or the
\* group is torn.
LEMMA WriteKeeps ==
    ASSUME GroupInv, NEW t \in GroupTasks, NEW c \in Calls, NEW g \in GroupIds, NEW l \in Lists,
           Writing(t, g), Away(c), call' = [call EXCEPT ![t] = c],
           stored' = [stored EXCEPT ![g] = l],
           \/ torn' = torn \cup {g} /\ owed' = owed
           \/ torn' = torn /\ owed' = IF g \in torn THEN owed ELSE [owed EXCEPT ![g] = l]
    PROVE  GroupInv'
  <1>1. /\ call \in [GroupTasks -> Calls] /\ call' \in [GroupTasks -> Calls]
        /\ call'[t] = c /\ \A u \in GroupTasks \ {t} : call'[u] = call[u]
        /\ stored \in [GroupIds -> Lists] /\ owed \in [GroupIds -> Lists]
        /\ torn \subseteq GroupIds
    BY DEF GroupInv, GroupTypeOK
  <1>2. GroupTypeOK'
    BY <1>1 DEF GroupTypeOK
  <1>3. ListHeld'
    BY <1>1 DEF GroupInv, ListHeld, Away
  <1>4. MembersKept'
    BY <1>1 DEF GroupInv, MembersKept
  <1>5. ASSUME NEW h \in GroupIds, NEW u \in GroupTasks, Writing(u, h)'
        PROVE  u # t /\ Writing(u, h) /\ call'[u] = call[u]
    BY <1>1, <1>5 DEF Writing, Away
  <1>6. CopyIsStored'
    <2>1. SUFFICES ASSUME NEW h \in (GroupIds \ torn)', NEW u \in GroupTasks, Writing(u, h)'
                   PROVE  (call[u].list = stored[h])'
      BY DEF CopyIsStored
    <2>2. h \in GroupIds \ torn
      OBVIOUS
    <2>3. h # g
      BY <1>5, <2>1, <2>2 DEF GroupInv, OneWriter
    <2>4. QED
      BY <1>1, <1>5, <2>1, <2>2, <2>3 DEF GroupInv, CopyIsStored
  <1>7. OneWriter'
    <2>1. SUFFICES ASSUME NEW h \in (GroupIds \ torn)', NEW u \in GroupTasks, NEW v \in GroupTasks,
                          Writing(u, h)', Writing(v, h)'
                   PROVE  u = v
      BY DEF OneWriter
    <2>2. h \in GroupIds \ torn
      OBVIOUS
    <2>3. QED
      BY <1>5, <2>1, <2>2 DEF GroupInv, OneWriter
  <1>8. QED
    BY <1>2, <1>3, <1>4, <1>6, <1>7 DEF GroupInv

-----------------------------------------------------------------------------
(* The actions.                                                            *)

\* A call that writes a list has a group, a device and a list, and what follows it.
LEMMA WriterFields ==
    ASSUME GroupInv, NEW t \in GroupTasks, call[t].op \in {"add", "remove"}
    PROVE  /\ call[t] \in Calls /\ Writing(t, call[t].group)
           /\ call[t].group \in GroupIds /\ call[t].eid \in Eids /\ call[t].list \in Lists
           /\ call[t].group \notin torn =>
                  /\ owed[call[t].group] = call[t].list
                  /\ stored[call[t].group] = call[t].list
  <1>1. call[t] \in Calls
    BY DEF GroupInv, GroupTypeOK
  <1>2. Writing(t, call[t].group)
    BY DEF Writing
  <1>3. call[t].group \in GroupIds /\ call[t].eid \in Eids /\ call[t].list \in Lists
    BY <1>1, CallFields
  <1>4. call[t].group \notin torn =>
            owed[call[t].group] = call[t].list /\ stored[call[t].group] = call[t].list
    BY <1>2, <1>3 DEF GroupInv, CopyIsStored, MembersKept
  <1>5. QED
    BY <1>1, <1>2, <1>3, <1>4

LEMMA ReadyIsAway == GroupReady \in Calls /\ Away(GroupReady)
  BY DEF GroupReady, Calls, Away

LEMMA AddReads ==
    ASSUME GroupInv, NEW t \in GroupTasks, NEW g \in GroupIds, NEW e \in Eids,
           ReadForAdd(t, g, e) \/ ReadFailsForAdd(t, g, e)
    PROVE  GroupInv'
  <1>1. stored[g] \in Lists /\ NoDevices \in Lists
    BY DEF GroupInv, GroupTypeOK, NoDevices, Lists
  <1>2. Away(call[t]) /\ torn \subseteq GroupIds /\ Met(t, g) \subseteq GroupIds
    BY DEF Away, Met, ReadForAdd, ReadFailsForAdd, GroupInv, GroupTypeOK
  <1>3. CASE ReadForAdd(t, g, e)
    <2> DEFINE c == [op |-> "add", group |-> g, eid |-> e, list |-> stored[g]]
    <2>1. c \in Calls
      BY <1>1 DEF Calls
    <2>2. /\ call' = [call EXCEPT ![t] = c] /\ stored' = stored /\ owed' = owed
          /\ torn' = torn \cup Met(t, g)
      BY <1>3 DEF ReadForAdd
    <2>3. QED
      BY <1>2, <2>1, <2>2, ReadKeeps
  <1>4. CASE ReadFailsForAdd(t, g, e)
    <2> DEFINE c == [op |-> "add", group |-> g, eid |-> e, list |-> NoDevices]
    <2>1. c \in Calls
      BY <1>1 DEF Calls
    <2>2. /\ call' = [call EXCEPT ![t] = c] /\ stored' = stored /\ owed' = owed
          /\ torn' = torn \cup {g}
      BY <1>4 DEF ReadFailsForAdd
    <2>3. QED
      BY <1>2, <2>1, <2>2, ReadKeeps
  <1>5. QED
    BY <1>3, <1>4

LEMMA AddWrites ==
    ASSUME GroupInv, NEW t \in GroupTasks, WriteAdd(t) \/ WriteAddFails(t)
    PROVE  GroupInv'
  <1> DEFINE g == call[t].group
             e == call[t].eid
             l == [call[t].list EXCEPT ![e] = @ + 1]
  <1>1. call[t].op = "add"
    BY DEF WriteAdd, WriteAddFails
  <1>2. /\ Writing(t, g) /\ g \in GroupIds /\ e \in Eids /\ call[t].list \in Lists
        /\ g \notin torn => owed[g] = call[t].list
    BY <1>1, WriterFields
  <1>3. l \in Lists
    BY <1>2 DEF Lists
  <1>4. /\ stored \in [GroupIds -> Lists] /\ owed \in [GroupIds -> Lists]
    BY DEF GroupInv, GroupTypeOK
  <1>5. CASE WriteAdd(t)
    <2>1. g \notin torn => [owed EXCEPT ![g][e] = @ + 1] = [owed EXCEPT ![g] = l]
      BY <1>2, <1>4
    <2>2. /\ call' = [call EXCEPT ![t] = GroupReady] /\ stored' = [stored EXCEPT ![g] = l]
          /\ torn' = torn /\ owed' = IF g \in torn THEN owed ELSE [owed EXCEPT ![g] = l]
      BY <1>5, <2>1 DEF WriteAdd
    <2>3. QED
      BY <1>2, <1>3, <2>2, ReadyIsAway, WriteKeeps
  <1>6. CASE WriteAddFails(t)
    <2>1. PICK k \in Lists : stored' = [stored EXCEPT ![g] = k]
      <3>1. stored[g] \in Lists /\ stored = [stored EXCEPT ![g] = stored[g]]
        BY <1>2, <1>4
      <3>2. QED
        BY <1>3, <1>6, <3>1 DEF WriteAddFails
    <2>2. call' = [call EXCEPT ![t] = GroupReady] /\ torn' = torn \cup {g} /\ owed' = owed
      BY <1>6 DEF WriteAddFails
    <2>3. QED
      BY <1>2, <2>1, <2>2, ReadyIsAway, WriteKeeps
  <1>7. QED
    BY <1>5, <1>6

\* What RemoveFromGroup and NextGroup share.
LEMMA RemoveReads ==
    ASSUME GroupInv, NEW t \in GroupTasks, NEW g \in Narrow, NEW e \in Eids,
           NEW todo \in SUBSET GroupIds, Away(call[t]), ReadForRemove(t, g, e, todo),
           torn \cup Met(t, g) \subseteq torn', torn' \subseteq GroupIds
    PROVE  GroupInv'
  <1>1. g \in GroupIds /\ stored[g] \in Lists
    BY GroupAssumption DEF GroupInv, GroupTypeOK
  <1>2. stored' = stored /\ owed' = owed
    BY DEF ReadForRemove
  <1>3. CASE stored[g][e] = 0
    <2>1. call' = [call EXCEPT ![t] = After(e, todo)]
      BY <1>3 DEF ReadForRemove, DeviceList
    <2>2. After(e, todo) \in Calls /\ Away(After(e, todo))
      BY AfterIsAway
    <2>3. After(e, todo).op # "remove"
      BY <2>2 DEF Away
    <2>4. QED
      BY <1>2, <2>1, <2>2, <2>3, ReadKeeps
  <1>4. CASE stored[g][e] # 0
    <2> DEFINE c == [op |-> "remove", group |-> g, eid |-> e, list |-> stored[g], todo |-> todo]
    <2>1. c \in Calls
      BY <1>1 DEF Calls
    <2>2. call' = [call EXCEPT ![t] = c]
      BY <1>4 DEF ReadForRemove, DeviceList
    <2>3. c.list[c.eid] >= 1
      BY <1>1, <1>4 DEF Lists
    <2>4. QED
      BY <1>2, <2>1, <2>2, <2>3, ReadKeeps
  <1>5. QED
    BY <1>3, <1>4

LEMMA RemoveWrites ==
    ASSUME GroupInv, NEW t \in GroupTasks, WriteRemove(t) \/ WriteRemoveFails(t)
    PROVE  GroupInv'
  <1> DEFINE g == call[t].group
             e == call[t].eid
             l == [call[t].list EXCEPT ![e] = @ - 1]
             c == After(e, call[t].todo)
  <1>1. call[t].op = "remove"
    BY DEF WriteRemove, WriteRemoveFails
  <1>2. /\ call[t] \in Calls
        /\ Writing(t, g) /\ g \in GroupIds /\ e \in Eids /\ call[t].list \in Lists
        /\ g \notin torn => owed[g] = call[t].list
    BY <1>1, WriterFields
  <1>3. l \in Lists
    BY <1>1, <1>2 DEF Lists, GroupInv, ListHeld
  <1>4. stored \in [GroupIds -> Lists] /\ owed \in [GroupIds -> Lists]
    BY DEF GroupInv, GroupTypeOK
  <1>5. c \in Calls /\ Away(c)
    BY <1>1, <1>2, CallFields, AfterIsAway
  <1>6. CASE WriteRemove(t)
    <2>1. g \notin torn => [owed EXCEPT ![g][e] = @ - 1] = [owed EXCEPT ![g] = l]
      BY <1>2, <1>4
    <2>2. /\ call' = [call EXCEPT ![t] = c] /\ stored' = [stored EXCEPT ![g] = l]
          /\ torn' = torn /\ owed' = IF g \in torn THEN owed ELSE [owed EXCEPT ![g] = l]
      BY <1>6, <2>1 DEF WriteRemove
    <2>3. QED
      BY <1>2, <1>3, <1>5, <2>2, WriteKeeps
  <1>7. CASE WriteRemoveFails(t)
    <2>1. PICK k \in Lists : stored' = [stored EXCEPT ![g] = k]
      <3>1. stored[g] \in Lists /\ stored = [stored EXCEPT ![g] = stored[g]]
        BY <1>2, <1>4
      <3>2. QED
        BY <1>3, <1>7, <3>1 DEF WriteRemoveFails
    <2>2. call' = [call EXCEPT ![t] = c] /\ torn' = torn \cup {g} /\ owed' = owed
      BY <1>7 DEF WriteRemoveFails
    <2>3. QED
      BY <1>2, <1>5, <2>1, <2>2, WriteKeeps
  <1>8. QED
    BY <1>6, <1>7

LEMMA RemovalsMove ==
    ASSUME GroupInv, NEW t \in GroupTasks,
           \/ NextGroup(t) \/ NextGroupFails(t)
           \/ \E e \in Eids : RemoveFromAll(t, e)
           \/ \E e \in Eids : \E g \in Narrow : RemoveFromGroup(t, g, e)
    PROVE  GroupInv'
  <1>1. torn \subseteq GroupIds /\ call[t] \in Calls
    BY DEF GroupInv, GroupTypeOK
  <1>2. \A g \in GroupIds : Met(t, g) \subseteq GroupIds
    BY DEF Met
  <1>3. CASE NextGroup(t)
    <2>1. PICK g \in call[t].todo :
              /\ ReadForRemove(t, LowByte[g], call[t].eid, call[t].todo \ {g})
              /\ torn' = torn \cup Met(t, LowByte[g])
                              \cup (IF g \in Narrow THEN {} ELSE {g, LowByte[g]})
      BY <1>3 DEF NextGroup
    <2>2. call[t].op = "all" /\ Away(call[t])
      BY <1>3 DEF NextGroup, Away
    <2>3. call[t].eid \in Eids /\ call[t].todo \in SUBSET GroupIds
      BY <1>1, <2>2, CallFields
    <2>4. LowByte[g] \in Narrow /\ g \in GroupIds /\ LowByte[g] \in GroupIds
      BY <2>3, GroupAssumption
    <2>5. torn \cup Met(t, LowByte[g]) \subseteq torn' /\ torn' \subseteq GroupIds
      BY <1>1, <1>2, <2>1, <2>4
    <2>6. call[t].todo \ {g} \in SUBSET GroupIds
      BY <2>3
    <2>7. QED
      BY <2>1, <2>2, <2>3, <2>4, <2>5, <2>6, RemoveReads
  <1>4. ASSUME NEW e \in Eids, RemoveFromAll(t, e)
        PROVE  GroupInv'
    <2> DEFINE todo == {g \in GroupIds : stored[g] # NoDevices}
    <2>1. todo \in SUBSET GroupIds
      OBVIOUS
    <2>2. /\ call' = [call EXCEPT ![t] = After(e, todo)] /\ Away(call[t])
          /\ stored' = stored /\ owed' = owed /\ torn' = torn
      BY <1>4 DEF RemoveFromAll, Away
    <2>3. After(e, todo) \in Calls /\ Away(After(e, todo))
      BY <2>1, AfterIsAway
    <2>4. After(e, todo).op # "remove"
      BY <2>3 DEF Away
    <2> HIDE DEF todo
    <2>5. QED
      BY <1>1, <2>2, <2>3, <2>4, ReadKeeps
  <1>5. ASSUME NEW e \in Eids, NEW g \in Narrow, RemoveFromGroup(t, g, e)
        PROVE  GroupInv'
    <2>1. g \in GroupIds /\ Away(call[t]) /\ {} \in SUBSET GroupIds
      BY <1>5, GroupAssumption DEF RemoveFromGroup, Away
    <2>2. ReadForRemove(t, g, e, {}) /\ torn' = torn \cup Met(t, g)
      BY <1>5 DEF RemoveFromGroup
    <2>3. QED
      BY <1>1, <1>2, <2>1, <2>2, RemoveReads
  <1>6. CASE NextGroupFails(t)
    <2>1. PICK g \in call[t].todo :
              /\ call' = [call EXCEPT ![t] = After(call[t].eid, call[t].todo \ {g})]
              /\ torn' = torn \cup {g, LowByte[g]}
      BY <1>6 DEF NextGroupFails
    <2>2. call[t].op = "all" /\ Away(call[t]) /\ stored' = stored /\ owed' = owed
      BY <1>6 DEF NextGroupFails, Away
    <2>3. call[t].eid \in Eids /\ call[t].todo \in SUBSET GroupIds
      BY <1>1, <2>2, CallFields
    <2>4. torn \subseteq torn' /\ torn' \subseteq GroupIds
      BY <1>1, <2>1, <2>3, GroupAssumption
    <2> DEFINE c == After(call[t].eid, call[t].todo \ {g})
    <2>5. c \in Calls /\ Away(c)
      BY <2>3, AfterIsAway
    <2>6. c.op # "remove"
      BY <2>5 DEF Away
    <2>7. call' = [call EXCEPT ![t] = c]
      BY <2>1
    <2> HIDE DEF c
    <2>8. QED
      BY <2>2, <2>4, <2>5, <2>6, <2>7, ReadKeeps
  <1>7. QED
    BY <1>3, <1>4, <1>5, <1>6

\* Every list is emptied, and so is what is owed; a task at work leaves its group torn.
LEMMA ResetKeeps ==
    ASSUME GroupInv, GroupFactoryReset
    PROVE  GroupInv'
  <1>1. /\ stored' = [g \in GroupIds |-> NoDevices] /\ owed' = stored' /\ call' = call
        /\ torn' = {g \in GroupIds : \E t \in GroupTasks : Writing(t, g)}
    BY DEF GroupFactoryReset
  <1>2. NoDevices \in Lists
    BY DEF NoDevices, Lists
  <1>3. GroupTypeOK' /\ ListHeld' /\ MembersKept'
    BY <1>1, <1>2 DEF GroupInv, GroupTypeOK, ListHeld, MembersKept
  <1>4. \A g \in GroupIds \ torn' : \A t \in GroupTasks : ~Writing(t, g)'
    BY <1>1 DEF Writing
  <1>5. QED
    BY <1>3, <1>4 DEF GroupInv, CopyIsStored, OneWriter

\* One that fails leaves every group torn.
LEMMA ResetFailureKeeps ==
    ASSUME GroupInv, GroupResetFails
    PROVE  GroupInv'
  <1>1. PICK kept \in SUBSET GroupIds :
            stored' = [g \in GroupIds |-> IF g \in kept THEN stored[g] ELSE NoDevices]
    BY DEF GroupResetFails
  <1>2. torn' = GroupIds /\ call' = call /\ owed' = owed
    BY DEF GroupResetFails
  <1>3. NoDevices \in Lists
    BY DEF NoDevices, Lists
  <1>4. stored' \in [GroupIds -> Lists]
    BY <1>1, <1>3 DEF GroupInv, GroupTypeOK
  <1>5. QED
    BY <1>2, <1>4 DEF GroupInv, GroupTypeOK, ListHeld, MembersKept, CopyIsStored, OneWriter

-----------------------------------------------------------------------------
(* The invariant and the theorems.                                         *)

LEMMA GroupInvStarts == GroupInit => GroupInv
  <1> SUFFICES ASSUME GroupInit PROVE GroupInv
    OBVIOUS
  <1>1. NoDevices \in Lists
    BY DEF NoDevices, Lists
  <1>2. GroupTypeOK
    BY <1>1, ReadyIsAway DEF GroupInit, GroupTypeOK
  <1>3. \A t \in GroupTasks : call[t].op = "ready"
    BY DEF GroupInit, GroupReady
  <1>4. QED
    BY <1>2, <1>3 DEF GroupInv, GroupInit, ListHeld, MembersKept, CopyIsStored, OneWriter, Writing

LEMMA GroupInvKept == GroupInv /\ [GroupNext]_groupVars => GroupInv'
  <1> SUFFICES ASSUME GroupInv, [GroupNext]_groupVars PROVE GroupInv'
    OBVIOUS
  <1>1. CASE GroupFactoryReset
    BY <1>1, ResetKeeps
  <1>6. CASE GroupResetFails
    BY <1>6, ResetFailureKeeps
  <1>2. ASSUME NEW t \in GroupTasks,
               WriteAdd(t) \/ WriteAddFails(t) \/ WriteRemove(t) \/ WriteRemoveFails(t)
        PROVE  GroupInv'
    BY <1>2, AddWrites, RemoveWrites
  <1>3. ASSUME NEW t \in GroupTasks,
               \/ NextGroup(t) \/ NextGroupFails(t)
               \/ \E e \in Eids : RemoveFromAll(t, e)
               \/ \E e \in Eids : \E g \in Narrow : RemoveFromGroup(t, g, e)
        PROVE  GroupInv'
    BY <1>3, RemovalsMove
  <1>4. ASSUME NEW t \in GroupTasks, NEW e \in Eids, NEW g \in GroupIds,
               ReadForAdd(t, g, e) \/ ReadFailsForAdd(t, g, e)
        PROVE  GroupInv'
    BY <1>4, AddReads
  <1>5. CASE UNCHANGED groupVars
    BY <1>5 DEF groupVars, GroupInv, GroupTypeOK, ListHeld, MembersKept, CopyIsStored, OneWriter, Writing
  <1>7. QED
    BY <1>1, <1>2, <1>3, <1>4, <1>5, <1>6 DEF GroupNext

\* For any tasks, groups and devices: the lists, the calls and the histories keep their
\* types, no count of a list going below none.
THEOREM GroupTypeCorrect == GroupSpec => []GroupTypeOK
  <1>1. GroupInv => GroupTypeOK
    BY DEF GroupInv
  <1>2. QED
    BY <1>1, GroupInvStarts, GroupInvKept, PTL DEF GroupSpec

\* For any tasks, groups and devices: a list has the devices that the answers to adding
\* and removing say it has, whatever other tasks do to other groups, and whatever a
\* removal from all of them or a factory reset meets.
THEOREM MembersAreKept == GroupSpec => []MembersKept
  <1>1. GroupInv => MembersKept
    BY DEF GroupInv
  <1>2. QED
    BY <1>1, GroupInvStarts, GroupInvKept, PTL DEF GroupSpec

-----------------------------------------------------------------------------
(* IOT_AppManager.c, ota.c: updates                                        *)

Using(u) == updateStage[u] \in {"download", "finish", "finished", "resting"}
Ended(u) == updateStage[u] \in {"finish", "finished", "resting"}

(* The partition has as many parts of an image as its writer has written;   *)
(* until two meet there is one writer, and it is that one's.  Whoever was    *)
(* told of a success has ended, with every part, and the partition is the    *)
(* one to boot.  Whoever is about to restart has written back all there is,  *)
(* but for what could not be written or was cached afterwards.               *)
ImageInv ==
  /\ \A u \in Firmware!Writers : slot.of = u => slot.parts = got[u]
  /\ ~met => \A u \in Firmware!Writers : Using(u) => slot.of = u
  /\ \A u \in Updates : Ended(u) => got[u] = Parts
  /\ updateStage[Hub] = "finished" => got[Hub] = Parts
  /\ \A u \in Firmware!Writers : told[u] = "success" => bootSlot /\ updateStage[u] \in {"finished", "resting"}
  /\ updateStage[Hub] \notin {"finish", "resting"}
  /\ \A u \in Firmware!Restarters : updateStage[u] = "resting" /\ dirty => u \in excused
  /\ ~lost

UpdateInv == Firmware!UpdateTypeOK /\ ImageInv

(* Nothing is under way, as after a start. *)
Fresh ==
  /\ updateStage = [u \in Firmware!Writers \cup {Caller} |-> "none"] /\ got = [u \in Firmware!Writers |-> 0]
  /\ slot = [of |-> NoUpdate, parts |-> 0] /\ bootSlot = FALSE /\ otaStatus = "notUpdate"
  /\ told = [u \in Firmware!Writers |-> "nothing"]
  /\ dirty = FALSE /\ excused = {} /\ lost = FALSE /\ met = FALSE

LEMMA FreshHolds == Fresh => UpdateInv
<1> SUFFICES ASSUME Fresh
             PROVE  UpdateInv
  OBVIOUS
<1>1. slot.of = NoUpdate /\ slot \in [of : Firmware!Writers \cup {NoUpdate}, parts : 0 .. Parts]
  BY UpdateAssumption DEF Fresh
<1>2. Firmware!UpdateTypeOK
  BY <1>1, UpdateAssumption
  DEF Fresh, Firmware!UpdateTypeOK, Firmware!Stages, Firmware!OtaStatus, Firmware!Told
<1>3. \A u \in Firmware!Writers : updateStage[u] = "none" /\ told[u] = "nothing" /\ slot.of # u
  BY <1>1, UpdateAssumption DEF Fresh, Firmware!Writers
<1>4. ImageInv
  BY <1>3 DEF Fresh, ImageInv, Using, Ended, Firmware!Writers, Firmware!Restarters
<1> QED
  BY <1>2, <1>4 DEF UpdateInv

(* A restart, which has nothing to lose but what it is excused for. *)
LEMMA RestartStep ==
  ASSUME UpdateInv,
         Firmware!HubRestarts \/ \E u \in Firmware!Restarters : Firmware!UpdateRestarts(u)
  PROVE  UpdateInv'
<1>1. ~lost
  BY DEF UpdateInv, ImageInv
<1>2. ASSUME Firmware!HubRestarts
      PROVE  Fresh'
  BY <1>1, <1>2 DEF Firmware!HubRestarts, Firmware!RestartChip, Firmware!EmptySlot, Fresh
<1>3. ASSUME NEW u \in Firmware!Restarters, Firmware!UpdateRestarts(u)
      PROVE  Fresh'
  <2>1. ~(dirty /\ u \notin excused)
    BY <1>3 DEF Firmware!UpdateRestarts, UpdateInv, ImageInv
  <2> QED
    BY <1>1, <1>3, <2>1 DEF Firmware!UpdateRestarts, Firmware!RestartChip, Firmware!EmptySlot, Fresh
<1>4. Fresh'
  BY <1>2, <1>3
<1> QED
  BY <1>4, FreshHolds, PTL

(* Steps that leave the partition alone. *)
LEMMA UpdateStageStep ==
  ASSUME UpdateInv, NEW u \in Updates,
         \/ Firmware!StartUpdateProcess(u) \/ Firmware!UpdateFails(u) \/ Firmware!WifiUp(u)
         \/ Firmware!DownloadEnds(u) \/ Firmware!UpdateFinishes(u)
  PROVE  UpdateInv'
<1> USE DEF Firmware!Writers, Firmware!Restarters, Firmware!Stages, Firmware!OtaStatus, Firmware!Told,
            UpdateInv, Firmware!UpdateTypeOK, ImageInv, Using, Ended
<1>0. Hub # u /\ Caller # u /\ Caller # Hub
  BY UpdateAssumption
<1>1. CASE Firmware!StartUpdateProcess(u)
  BY <1>0, <1>1 DEF Firmware!StartUpdateProcess
<1>2. CASE Firmware!UpdateFails(u)
  BY <1>0, <1>2 DEF Firmware!UpdateFails
<1>3. CASE Firmware!WifiUp(u)
  BY <1>0, <1>3 DEF Firmware!WifiUp
<1>4. CASE Firmware!DownloadEnds(u)
  BY <1>0, <1>4 DEF Firmware!DownloadEnds
<1>5. CASE Firmware!UpdateFinishes(u)
  BY <1>0, <1>5 DEF Firmware!UpdateFinishes
<1> QED
  BY <1>1, <1>2, <1>3, <1>4, <1>5

(* The write-back, which may not write all. *)
LEMMA FlushStep ==
  ASSUME UpdateInv, NEW u \in Firmware!Restarters, Firmware!FlushCaches(u)
  PROVE  UpdateInv'
<1>0. /\ Hub # u /\ Caller \notin Firmware!Writers /\ Updates \subseteq Firmware!Writers /\ Hub \in Firmware!Writers
      /\ Firmware!Restarters = Updates \cup {Caller}
  BY UpdateAssumption DEF Firmware!Restarters, Firmware!Writers
<1>1. /\ updateStage' = [updateStage EXCEPT ![u] = "resting"]
      /\ updateStage[u] = IF u = Caller THEN "none" ELSE "finished"
      /\ dirty' \in {FALSE, dirty}
      /\ excused' = IF dirty' THEN excused \cup {u} ELSE excused \ {u}
      /\ UNCHANGED <<got, slot, bootSlot, otaStatus, told, lost, met>>
  BY DEF Firmware!FlushCaches
<1>2. Firmware!UpdateTypeOK'
  BY <1>0, <1>1 DEF UpdateInv, Firmware!UpdateTypeOK, Firmware!Stages
<1>3. /\ updateStage'[u] = "resting"
      /\ \A v \in (Firmware!Writers \cup {Caller}) \ {u} : updateStage'[v] = updateStage[v]
  BY <1>0, <1>1 DEF UpdateInv, Firmware!UpdateTypeOK
<1>4. /\ \A v \in Firmware!Writers : Using(v)' <=> Using(v)
      /\ \A v \in Firmware!Writers : Ended(v)' <=> Ended(v)
  BY <1>0, <1>1, <1>3 DEF Using, Ended
<1>5. \A v \in Firmware!Restarters : updateStage'[v] = "resting" /\ dirty' => v \in excused'
  BY <1>0, <1>1, <1>3 DEF UpdateInv, ImageInv
<1>6. \A v \in Firmware!Writers : told'[v] = "success" => bootSlot' /\ updateStage'[v] \in {"finished", "resting"}
  BY <1>1, <1>3 DEF UpdateInv, ImageInv
<1> QED
  BY <1>0, <1>1, <1>2, <1>3, <1>4, <1>5, <1>6 DEF UpdateInv, ImageInv

(* Steps that write to the partition. *)
LEMMA PartitionStep ==
  ASSUME UpdateInv,
         \/ \E u \in Updates : Firmware!UpdateBegins(u) \/ Firmware!Downloads(u)
         \/ Firmware!HubBegins \/ Firmware!HubDownloads
  PROVE  UpdateInv'
<1> USE DEF Firmware!Writers, Firmware!Restarters, UpdateInv, Firmware!UpdateTypeOK, ImageInv, Using, Ended
<1>0. Hub \notin Updates /\ Caller \notin Updates \cup {Hub} /\ Parts \in Nat \ {0}
  BY UpdateAssumption
<1>1. ASSUME NEW u \in Updates, Firmware!UpdateBegins(u)
      PROVE  UpdateInv'
  <2>1. /\ slot' = [of |-> u, parts |-> 0] /\ slot'.of = u /\ slot'.parts = 0
        /\ updateStage' = [updateStage EXCEPT ![u] = "download"] /\ got' = [got EXCEPT ![u] = 0]
        /\ ~met' => ~met /\ \A v \in Firmware!Writers \ {u} : ~Using(v)
        /\ updateStage[u] = "begin" /\ UNCHANGED <<bootSlot, otaStatus, told, dirty, excused, lost>>
        /\ met' \in BOOLEAN
    BY <1>1 DEF Firmware!UpdateBegins, Firmware!Using
  <2>2. Firmware!UpdateTypeOK'
    BY <1>0, <2>1 DEF Firmware!Stages
  <2>3. ImageInv'
    BY <1>0, <2>1
  <2> QED
    BY <2>2, <2>3
<1>2. CASE Firmware!HubBegins
  <2>1. /\ slot' = [of |-> Hub, parts |-> 1] /\ slot'.of = Hub /\ slot'.parts = 1
        /\ updateStage' = [updateStage EXCEPT ![Hub] = "download"] /\ got' = [got EXCEPT ![Hub] = 1]
        /\ ~met' => ~met /\ \A v \in Updates : ~Using(v)
        /\ updateStage[Hub] = "begin" /\ UNCHANGED <<bootSlot, otaStatus, told, dirty, excused, lost>>
        /\ met' \in BOOLEAN
    BY <1>2 DEF Firmware!HubBegins, Firmware!Using
  <2>2. Firmware!UpdateTypeOK'
    BY <1>0, <2>1 DEF Firmware!Stages
  <2>3. ImageInv'
    BY <1>0, <2>1
  <2> QED
    BY <2>2, <2>3
<1>3. ASSUME NEW u \in Firmware!Writers, Firmware!PartWritten(u), got[u] < Parts, updateStage[u] = "download",
             told' = [told EXCEPT ![u] = told'[u]], told'[u] \in {told[u], "progress"},
             UNCHANGED <<updateStage, bootSlot, otaStatus, dirty, excused, lost, met>>
      PROVE  UpdateInv'
  <2>1. got' = [got EXCEPT ![u] = got[u] + 1] /\ got[u] + 1 \in 0 .. Parts
    BY <1>0, <1>3 DEF Firmware!PartWritten
  <2>2. /\ slot.of = u => slot'.of = u /\ slot'.parts = got[u] + 1
        /\ slot.of # u => slot' = slot
        /\ slot' \in [of : Firmware!Writers \cup {NoUpdate}, parts : 0 .. Parts]
    BY <1>3, <2>1 DEF Firmware!PartWritten
  <2>3. Firmware!UpdateTypeOK'
    BY <1>3, <2>1, <2>2 DEF Firmware!Told
  <2>4. ImageInv'
    BY <1>0, <1>3, <2>1, <2>2
  <2> QED
    BY <2>3, <2>4
<1>4. ASSUME NEW u \in Updates, Firmware!Downloads(u)
      PROVE  UpdateInv'
  <2>1. told' = [told EXCEPT ![u] = told'[u]] /\ told'[u] = "progress"
    BY <1>4 DEF Firmware!Downloads
  <2> QED
    BY <1>3, <1>4, <2>1 DEF Firmware!Downloads
<1>5. CASE Firmware!HubDownloads
  <2>1. told' = [told EXCEPT ![Hub] = told'[Hub]] /\ told'[Hub] = told[Hub]
    BY <1>5 DEF Firmware!HubDownloads
  <2> QED
    BY <1>3, <1>5, <2>1 DEF Firmware!HubDownloads
<1> QED
  BY <1>1, <1>2, <1>4, <1>5

(* The hub's other steps, and a value that is cached. *)
LEMMA HubStageStep ==
  ASSUME UpdateInv, Firmware!HubStarts \/ Firmware!HubFinishes \/ Firmware!ValueCached
  PROVE  UpdateInv'
<1> USE DEF Firmware!Writers, Firmware!Restarters, Firmware!Stages, Firmware!Told,
            UpdateInv, Firmware!UpdateTypeOK, ImageInv, Using, Ended
<1>0. Hub \notin Updates /\ Caller \notin Updates \cup {Hub}
  BY UpdateAssumption
<1>1. CASE Firmware!HubStarts
  BY <1>0, <1>1 DEF Firmware!HubStarts
<1>2. CASE Firmware!HubFinishes
  BY <1>0, <1>2 DEF Firmware!HubFinishes
<1>3. CASE Firmware!ValueCached
  BY <1>3 DEF Firmware!ValueCached
<1> QED
  BY <1>1, <1>2, <1>3

LEMMA UpdateAlways == AllSpec => []UpdateInv
<1>1. AllInit => UpdateInv
  <2>1. Firmware!UpdateStart => Fresh
    BY DEF Firmware!UpdateStart, Firmware!EmptySlot, Fresh
  <2> QED
    BY <2>1, FreshHolds DEF AllInit
<1>2. UpdateInv /\ [AllNext]_allVars => UpdateInv'
  <2> SUFFICES ASSUME UpdateInv, [AllNext]_allVars
               PROVE  UpdateInv'
    OBVIOUS
  <2>1. Firmware!UpdateNext \/ UNCHANGED updateVars
    BY DEF AllNext, allVars, GroupRecords, ButtonScan, LedGroups, DailyTimers, FirmwareUpdates, AppStarts
  <2>2. CASE UNCHANGED updateVars
    BY <2>2 DEF updateVars, UpdateInv, Firmware!UpdateTypeOK, ImageInv, Using, Ended
  <2> QED
    BY <2>1, <2>2, RestartStep, UpdateStageStep, FlushStep, PartitionStep, HubStageStep DEF Firmware!UpdateNext
<1> QED
  BY <1>1, <1>2, PTL DEF AllSpec, allVars

(* Whoever was told that its update succeeded has its own image, whole, in  *)
(* the partition to boot, for any number of updates of the platform beside   *)
(* the hub's, unless two of them wrote it at once; and no restart of the      *)
(* platform's loses a value that its own write-back came after and could write. *)
THEOREM ImageIsWhole == AllSpec => []SuccessIsWhole
<1>1. UpdateInv => SuccessIsWhole
  <2> SUFFICES ASSUME UpdateInv, NEW u \in Firmware!Writers, told[u] = "success", ~met
               PROVE  bootSlot /\ slot = [of |-> u, parts |-> Parts]
    BY DEF SuccessIsWhole, Firmware!SuccessIsWhole, UpdateInv, ImageInv
  <2>1. bootSlot /\ Using(u) /\ got[u] = Parts
    BY DEF UpdateInv, ImageInv, Using, Ended, Firmware!Writers
  <2>2. slot.of = u /\ slot.parts = Parts /\ slot \in [of : Firmware!Writers \cup {NoUpdate}, parts : 0 .. Parts]
    BY <2>1 DEF UpdateInv, ImageInv, Firmware!UpdateTypeOK
  <2> QED
    BY <2>1, <2>2
<1> QED
  BY <1>1, UpdateAlways, PTL

-----------------------------------------------------------------------------
(* main.cpp: the resets of the button                                      *)

PlatformStays == "core" \in failed \/ "platform" \in taken
HubStays == ("dormitory" \in failed /\ "database" \in failed) \/ "hub" \in taken

(* Before Detect nothing is known and nobody is heard.  While a reset goes    *)
(* on, whatever should be erased by now and is still in flash is there because *)
(* a step failed or because somebody took the device since; so it is after the *)
(* restart, and when Detect has read it, while somebody may take it again.      *)
ResetInv ==
  /\ stage \in {"nvs", "wifi", "detect"} => mode = "none"
  /\ mode = "none" => handler = "idle"
  /\ handler # "idle" => ended = "none"
  /\ handler \in {"kickHub", "kickDb", "kickNvs", "kickWait"} /\ "platform" \in flash => PlatformStays
  /\ handler \in {"configAp", "configWait", "kickDb"} /\ "hub" \in flash =>
       "dormitory" \in failed \/ "hub" \in taken
  /\ handler \in {"kickNvs", "kickWait"} /\ "hub" \in flash => HubStays
  /\ handler = "kickWait" /\ "nvs" \notin failed => ~nvsUp /\ "platform" \notin flash
  /\ ended = "kick" /\ (IF mode = "none" THEN "platform" \in flash ELSE mode = "WIFI_MODE") =>
       "nvs" \in failed /\ PlatformStays
  /\ ended = "kick" /\ (IF mode = "none" THEN "hub" \in flash ELSE mode = "HC_MODE") => HubStays
  /\ ended = "config" /\ (IF mode = "none" THEN "hub" \in flash ELSE mode = "HC_MODE") =>
       "dormitory" \in failed \/ "hub" \in taken

AppInv == App!AppTypeOK /\ ResetInv

LEMMA RebootStep ==
  ASSUME AppInv, App!StartsAgain, ended' = "none", failed' = {}, taken' = {}
  PROVE  AppInv'
BY DEF App!StartsAgain, AppInv, App!AppTypeOK, App!Stages, App!Modes, App!Handlers, App!Erasing, ResetInv

(* app_main, step by step, and the power. *)
LEMMA StartStep ==
  ASSUME AppInv,
         \/ App!NvsInit \/ App!WifiInit \/ App!Detect \/ App!InitPlatform \/ App!CoreInit
         \/ App!RegisterEventCb \/ App!StartUdpListen \/ App!PanicRestarts \/ App!PowerCut
  PROVE  AppInv'
<1> USE DEF AppInv, App!AppTypeOK, App!Stages, App!Modes, App!Handlers, App!Erasing, ResetInv, PlatformStays, HubStays
<1>1. CASE App!NvsInit
  BY <1>1 DEF App!NvsInit, App!Proceed
<1>2. CASE App!WifiInit
  BY <1>2 DEF App!WifiInit, App!Proceed
<1>3. CASE App!Detect
  BY <1>3 DEF App!Detect
<1>4. CASE App!InitPlatform
  BY <1>4 DEF App!InitPlatform
<1>5. CASE App!CoreInit \/ App!RegisterEventCb \/ App!StartUdpListen
  <2>1. /\ stage \in {"core", "register", "listen"} /\ stage' \in {"register", "listen", "up"}
        /\ hears' \in BOOLEAN
        /\ UNCHANGED <<asserts, eventLoop, mode, handler, provisioning, nvsUp, flash, ended, failed, taken>>
    BY <1>5 DEF App!CoreInit, App!RegisterEventCb, App!StartUdpListen, App!Proceed
  <2> QED
    BY <2>1
<1>6. CASE App!PanicRestarts \/ App!PowerCut
  BY <1>6, RebootStep DEF App!PanicRestarts, App!PowerCut, App!Reboot
<1> QED
  BY <1>1, <1>2, <1>3, <1>4, <1>5, <1>6

(* The platform and the hub. *)
LEMMA TakenStep ==
  ASSUME AppInv, App!Provisioned \/ App!ProvisionRestarts \/ App!HubJoins \/ App!HubRestarts
  PROVE  AppInv'
<1> USE DEF AppInv, App!AppTypeOK, App!Stages, App!Modes, App!Handlers, App!Erasing, ResetInv, PlatformStays, HubStays
<1>1. CASE App!Provisioned
  BY <1>1 DEF App!Provisioned
<1>2. CASE App!HubJoins
  BY <1>2 DEF App!HubJoins
<1>3. CASE App!ProvisionRestarts \/ App!HubRestarts
  BY <1>3, RebootStep DEF App!ProvisionRestarts, App!HubRestarts, App!Reboot
<1> QED
  BY <1>1, <1>2, <1>3

(* The handler of the button. *)
LEMMA HandlerStep ==
  ASSUME AppInv,
         \/ App!HearConfig \/ App!ConfigLeavesHub \/ App!ConfigStartsAp \/ App!ConfigRestarts
         \/ App!HearKickOut \/ App!KickPlatform \/ App!KickHub \/ App!KickDatabase
         \/ App!KickErasesNvs \/ App!KickRestarts
  PROVE  AppInv'
<1> USE DEF AppInv, App!AppTypeOK, App!Stages, App!Modes, App!Handlers, App!Erasing, ResetInv, PlatformStays, HubStays
<1>1. CASE App!HearConfig \/ App!HearKickOut
  <2>1. /\ mode # "none" /\ handler' \in {"config", "kick"} /\ ended' = "none"
        /\ failed' = {} /\ taken' = {}
        /\ UNCHANGED <<asserts, stage, eventLoop, mode, hears, provisioning, nvsUp, flash>>
    BY <1>1 DEF App!HearConfig, App!HearKickOut, App!Hear
  <2> QED
    BY <2>1
<1>2. CASE App!ConfigLeavesHub
  <2>1. /\ handler = "config" /\ handler' = "configAp" /\ nvsUp' = nvsUp
        /\ UNCHANGED <<asserts, stage, eventLoop, mode, hears, provisioning, ended>>
    BY <1>2 DEF App!ConfigLeavesHub, App!HandlerGoesOn
  <2>2. CASE flash' = flash \ {"hub"} /\ taken' = taken \ {"hub"} /\ failed' = failed
    BY <2>1, <2>2
  <2>3. CASE failed' = failed \cup {"dormitory"} /\ flash' = flash /\ taken' = taken
    BY <2>1, <2>3
  <2> QED
    BY <1>2, <2>2, <2>3 DEF App!ConfigLeavesHub, App!Erases
<1>3. CASE App!ConfigStartsAp
  BY <1>3 DEF App!ConfigStartsAp, App!HandlerGoesOn
<1>4. CASE App!ConfigRestarts
  BY <1>4 DEF App!ConfigRestarts, App!StartsAgain
<1>5. CASE App!KickPlatform
  <2>1. /\ handler = "kick" /\ handler' = "kickHub" /\ nvsUp' = nvsUp
        /\ UNCHANGED <<asserts, stage, eventLoop, mode, hears, provisioning, ended>>
    BY <1>5 DEF App!KickPlatform, App!HandlerGoesOn
  <2>2. CASE flash' = flash \ {"platform"} /\ taken' = taken \ {"platform"} /\ failed' = failed
    BY <2>1, <2>2
  <2>3. CASE failed' = failed \cup {"core"} /\ flash' = flash /\ taken' = taken
    BY <2>1, <2>3
  <2>4. CASE "platform" \notin flash /\ UNCHANGED <<flash, failed, taken>>
    BY <2>1, <2>4
  <2> QED
    BY <1>5, <2>2, <2>3, <2>4 DEF App!KickPlatform, App!Erases
<1>6. CASE App!KickHub
  <2>1. /\ handler = "kickHub" /\ handler' = "kickDb" /\ nvsUp' = nvsUp
        /\ UNCHANGED <<asserts, stage, eventLoop, mode, hears, provisioning, ended>>
    BY <1>6 DEF App!KickHub, App!HandlerGoesOn
  <2>2. CASE flash' = flash \ {"hub"} /\ taken' = taken \ {"hub"} /\ failed' = failed
    BY <2>1, <2>2
  <2>3. CASE failed' = failed \cup {"dormitory"} /\ flash' = flash /\ taken' = taken
    BY <2>1, <2>3
  <2> QED
    BY <1>6, <2>2, <2>3 DEF App!KickHub, App!Erases
<1>7. CASE App!KickDatabase
  <2>1. /\ handler = "kickDb" /\ handler' = "kickNvs" /\ nvsUp' = nvsUp
        /\ UNCHANGED <<asserts, stage, eventLoop, mode, hears, provisioning, ended>>
    BY <1>7 DEF App!KickDatabase, App!HandlerGoesOn
  <2>2. CASE flash' = flash \ {"hub"} /\ taken' = taken \ {"hub"} /\ failed' = failed
    BY <2>1, <2>2
  <2>3. CASE failed' = failed \cup {"database"} /\ flash' = flash /\ taken' = taken
    BY <2>1, <2>3
  <2> QED
    BY <1>7, <2>2, <2>3 DEF App!KickDatabase, App!Erases
<1>8. CASE App!KickErasesNvs
  <2>1. /\ handler = "kickNvs" /\ handler' = "kickWait"
        /\ nvsUp' \in BOOLEAN /\ ("nvs" \notin failed' => ~nvsUp')
        /\ UNCHANGED <<asserts, stage, eventLoop, mode, hears, provisioning, ended>>
    BY <1>8 DEF App!KickErasesNvs, App!HandlerGoesOn
  <2>2. CASE flash' = flash \ {"platform"} /\ taken' = taken \ {"platform"} /\ failed' = failed
    BY <2>1, <2>2
  <2>3. CASE failed' = failed \cup {"nvs"} /\ flash' = flash /\ taken' = taken
    BY <2>1, <2>3
  <2> QED
    BY <1>8, <2>2, <2>3 DEF App!KickErasesNvs, App!Erases
<1>9. CASE App!KickRestarts
  BY <1>9 DEF App!KickRestarts, App!StartsAgain
<1> QED
  BY <1>1, <1>2, <1>3, <1>4, <1>5, <1>6, <1>7, <1>8, <1>9

LEMMA AppAlways == AllSpec => []AppInv
<1>1. AllInit => AppInv
  BY DEF AllInit, App!AppStart, AppInv, App!AppTypeOK, App!Stages, App!Modes, App!Handlers, App!Erasing, ResetInv
<1>2. AppInv /\ [AllNext]_allVars => AppInv'
  <2> SUFFICES ASSUME AppInv, [AllNext]_allVars
               PROVE  AppInv'
    OBVIOUS
  <2>1. App!AppNext \/ UNCHANGED appVars
    BY DEF AllNext, allVars, GroupRecords, ButtonScan, LedGroups, DailyTimers, FirmwareUpdates, AppStarts
  <2>2. CASE UNCHANGED appVars
    BY <2>2 DEF appVars, AppInv, App!AppTypeOK, ResetInv, PlatformStays, HubStays
  <2> QED
    BY <2>1, <2>2, StartStep, TakenStep, HandlerStep DEF App!AppNext
<1> QED
  BY <1>1, <1>2, PTL DEF AllSpec, allVars

(* What the start finds after a reset that ran to its restart is there only *)
(* because every step that should have erased it failed, or because it was     *)
(* brought back after the last that did not; wherever the platform, the hub or   *)
(* the power came in between.                                                *)
THEOREM ResetCompletes == AllSpec => []ResetIsComplete
<1>1. AppInv => ResetIsComplete
  BY DEF AppInv, ResetInv, PlatformStays, HubStays, ResetIsComplete, App!ResetIsComplete
<1> QED
  BY <1>1, AppAlways, PTL

-----------------------------------------------------------------------------
(* TimerSchedule.cpp: daily timers                                         *)

(* TimerThread has queued only for the second it saw last.  A second that   *)
(* came in time is new to it, midnight included, and one it has looked at    *)
(* has every timer that was due queued; what was due and is gone is freed.    *)
DueInv ==
  /\ ~twice
  /\ queued # {} => oldTimer = now
  /\ looked => oldTimer = now
  /\ ~looked /\ ~late => oldTimer # now
  /\ due \subseteq timerList \cup freed
  /\ \A t \in due : TimeOf[t] = now
  /\ looked /\ ~late => (due \cap timerList) \subseteq queued

ScheduleInv == Daily!ScheduleTypeOK /\ DueInv

LEMMA SameCardinality == \A S : Daily!Cardinality(S) = Cardinality(S)
BY DEF Daily!Cardinality, Cardinality

(* A list of all of a set's timers has each of them. *)
LEMMA OrderIsWhole ==
  ASSUME NEW S, IsFiniteSet(S), NEW order \in Daily!SetToSeqs(S)
  PROVE  /\ order \in Seq(S) /\ Len(order) = Cardinality(S)
         /\ \A t \in S : \E i \in 1 .. Len(order) : order[i] = t
<1> DEFINE D == 1 .. Cardinality(S)
<1>1. Cardinality(S) \in Nat /\ IsFiniteSet(D) /\ Cardinality(D) = Cardinality(S)
  BY FS_CardinalityType, FS_Interval
<1>2. order \in [D -> S] /\ \A i, j \in D : i # j => order[i] # order[j]
  BY SameCardinality DEF Daily!SetToSeqs
<1>3. order \in Injection(D, S)
  BY <1>2 DEF Injection, IsInjective
<1>4. order \in Surjection(D, S)
  BY <1>1, <1>3, FS_Injection
<1>5. order \in Seq(S) /\ Len(order) = Cardinality(S)
  BY <1>1, <1>2
<1> QED
  BY <1>4, <1>5 DEF Surjection

LEMMA Smaller ==
  ASSUME NEW a \in Nat, NEW b \in Nat
  PROVE  Daily!Min({a, b}) = IF a <= b THEN a ELSE b
BY DEF Daily!Min

(* What fits in the queue. *)
LEMMA Prefix ==
  ASSUME NEW S, NEW order \in Seq(S), NEW m \in 0 .. Len(order)
  PROVE  /\ SubSeq(order, 1, m) \in Seq(S) /\ Len(SubSeq(order, 1, m)) = m
         /\ m = Len(order) => SubSeq(order, 1, m) = order
<1>1. \A i \in 1 .. m : order[i] \in S
  OBVIOUS
<1>2. SubSeq(order, 1, m) \in Seq(S) /\ Len(SubSeq(order, 1, m)) = IF 1 <= m THEN m - 1 + 1 ELSE 0
  BY <1>1, SubSeqProperties
<1> QED
  BY <1>2, SubSeqFull

LEMMA NextSecond ==
  ASSUME NEW n \in 0 .. DaySeconds - 1
  PROVE  (n + 1) % DaySeconds \in 0 .. DaySeconds - 1 /\ (n + 1) % DaySeconds # n
<1>1. CASE n + 1 < DaySeconds
  <2>1. (n + 1) % DaySeconds = n + 1
    BY <1>1, ScheduleAssumption
  <2> QED
    BY <1>1, <2>1, ScheduleAssumption
<1>2. CASE n + 1 = DaySeconds
  <2>1. (n + 1) % DaySeconds = 0
    BY <1>2, ScheduleAssumption
  <2> QED
    BY <1>2, <2>1, ScheduleAssumption
<1> QED
  BY <1>1, <1>2, ScheduleAssumption

(* One turn of TimerThread. *)
LEMMA LookStep ==
  ASSUME ScheduleInv, Daily!Look
  PROVE  ScheduleInv'
<1>0. /\ looked' = TRUE /\ UNCHANGED <<now, timerList, freed, due>>
      /\ queue \in Seq(DayTimers) /\ Len(queue) \in Nat /\ Len(queue) <= QueueRoom
  BY DEF Daily!Look, ScheduleInv, Daily!ScheduleTypeOK
<1>1. CASE Daily!IsNew
  <2> DEFINE S == {t \in timerList : TimeOf[t] = now}
             room == QueueRoom - Len(queue)
             m(order) == IF Len(order) <= room THEN Len(order) ELSE room
             fit(order) == SubSeq(order, 1, m(order))
  <2>1. S \subseteq DayTimers /\ IsFiniteSet(S)
    <3>1. S \subseteq DayTimers
      BY DEF ScheduleInv, Daily!ScheduleTypeOK
    <3> QED
      BY <3>1, ScheduleAssumption, FS_Subset
  <2>2. room \in Nat
    BY <1>0, ScheduleAssumption
  <2> HIDE DEF S, room
  <2>3. PICK order \in Daily!SetToSeqs(S) :
          LET f == SubSeq(order, 1, Daily!Min({Len(order), room}))
          IN /\ queue' = queue \o f
             /\ queued' = queued \cup Daily!Range(f)
             /\ twice' = (twice \/ queued \cap Daily!Range(f) # {})
             /\ late' = (late \/ Len(f) < Len(order))
             /\ oldTimer' = now
    BY <1>1 DEF Daily!Look, S, room
  <2>4. /\ order \in Seq(S) /\ Len(order) \in Nat
        /\ \A t \in S : \E i \in 1 .. Len(order) : order[i] = t
    BY <2>1, OrderIsWhole
  <2>5. Daily!Min({Len(order), room}) = m(order) /\ m(order) \in 0 .. Len(order) /\ m(order) <= room
    BY <2>2, <2>4, Smaller
  <2>6. /\ fit(order) \in Seq(S) /\ Len(fit(order)) = m(order)
        /\ m(order) = Len(order) => fit(order) = order
    <3> HIDE DEF m
    <3> QED
      BY <2>4, <2>5, Prefix
  <2>7. /\ queue' = queue \o fit(order)
        /\ queued' = queued \cup Daily!Range(fit(order))
        /\ twice' = (twice \/ queued \cap Daily!Range(fit(order)) # {})
        /\ late' = (late \/ m(order) < Len(order))
        /\ oldTimer' = now
    <3> HIDE DEF m
    <3> QED
      BY <2>3, <2>5, <2>6
  <2> HIDE DEF fit, m
  <2>8. Daily!Range(fit(order)) \subseteq S
    BY <2>6 DEF Daily!Range
  <2>9. queue' \in Seq(DayTimers) /\ Len(queue') <= QueueRoom
    <3>1. fit(order) \in Seq(DayTimers)
      BY <2>1, <2>6
    <3>2. queue' \in Seq(DayTimers) /\ Len(queue') = Len(queue) + Len(fit(order))
      BY <1>0, <2>7, <3>1
    <3> QED
      BY <1>0, <2>5, <2>6, <3>2, ScheduleAssumption DEF room
  <2>10. queued = {} /\ twice = FALSE
    BY <1>1 DEF Daily!IsNew, ScheduleInv, DueInv, Daily!ScheduleTypeOK
  <2>11. ~late' => S \subseteq queued'
    <3> SUFFICES ASSUME ~late', NEW t \in S
                 PROVE  t \in queued'
      OBVIOUS
    <3>1. ~(m(order) < Len(order))
      BY <2>7
    <3>2. m(order) = Len(order)
      BY <2>4, <2>5, <3>1
    <3>3. fit(order) = order
      BY <2>6, <3>2
    <3>4. PICK i \in 1 .. Len(order) : order[i] = t
      BY <2>4
    <3>5. DOMAIN order = 1 .. Len(order)
      BY <2>4
    <3>6. t \in Daily!Range(order)
      BY <3>4, <3>5 DEF Daily!Range
    <3> QED
      BY <2>7, <3>3, <3>6
  <2>12. Daily!ScheduleTypeOK'
    BY <1>0, <2>1, <2>7, <2>8, <2>9, <2>10 DEF ScheduleInv, Daily!ScheduleTypeOK
  <2>13. due \cap timerList \subseteq S
    BY DEF S, ScheduleInv, DueInv
  <2>14. ~twice' /\ oldTimer' = now
    BY <2>7, <2>10
  <2> QED
    BY <1>0, <2>11, <2>12, <2>13, <2>14 DEF ScheduleInv, DueInv
<1>2. CASE ~Daily!IsNew
  BY <1>0, <1>2 DEF Daily!Look, Daily!IsNew, ScheduleInv, Daily!ScheduleTypeOK, DueInv
<1> QED
  BY <1>1, <1>2

(* Another second comes, the next one or any other. *)
LEMMA SecondStep ==
  ASSUME ScheduleInv, Daily!SecondPasses \/ Daily!ClockIsSet
  PROVE  ScheduleInv'
<1>1. PICK s \in (0 .. DaySeconds - 1) \ {now} : Daily!ClockShows(s)
  <2>1. CASE Daily!SecondPasses
    <3>1. (now + 1) % DaySeconds \in (0 .. DaySeconds - 1) \ {now}
      BY NextSecond DEF ScheduleInv, Daily!ScheduleTypeOK
    <3> QED
      BY <2>1, <3>1 DEF Daily!SecondPasses
  <2>2. CASE Daily!ClockIsSet
    BY <2>2 DEF Daily!ClockIsSet
  <2> QED
    BY <2>1, <2>2
<1>2. /\ now' = s /\ late' = ~looked /\ looked' = FALSE /\ queued' = {}
      /\ due' = {t \in timerList : TimeOf[t] = now'}
      /\ UNCHANGED <<oldTimer, timerList, freed, queue, twice>>
  BY <1>1 DEF Daily!ClockShows
<1>3. Daily!ScheduleTypeOK'
  BY <1>1, <1>2 DEF ScheduleInv, Daily!ScheduleTypeOK
<1> QED
  BY <1>1, <1>2, <1>3 DEF ScheduleInv, DueInv, Daily!ScheduleTypeOK

LEMMA TimerStep ==
  ASSUME ScheduleInv,
         Daily!RunDue \/ \E t \in DayTimers : Daily!RegisterTimer(t) \/ Daily!UnregisterTimer(t)
  PROVE  ScheduleInv'
<1>1. CASE Daily!RunDue
  <2>1. queue' \in Seq(DayTimers) /\ Len(queue') <= QueueRoom
    BY <1>1, ScheduleAssumption DEF Daily!RunDue, ScheduleInv, Daily!ScheduleTypeOK
  <2> QED
    BY <1>1, <2>1 DEF Daily!RunDue, ScheduleInv, Daily!ScheduleTypeOK, DueInv
<1>2. ASSUME NEW t \in DayTimers, Daily!RegisterTimer(t)
      PROVE  ScheduleInv'
  BY <1>2 DEF Daily!RegisterTimer, ScheduleInv, Daily!ScheduleTypeOK, DueInv
<1>3. ASSUME NEW t \in DayTimers, Daily!UnregisterTimer(t)
      PROVE  ScheduleInv'
  BY <1>3 DEF Daily!UnregisterTimer, ScheduleInv, Daily!ScheduleTypeOK, DueInv
<1> QED
  BY <1>1, <1>2, <1>3

LEMMA ScheduleAlways == AllSpec => []ScheduleInv
<1>1. AllInit => ScheduleInv
  <2> SUFFICES ASSUME Daily!ScheduleStart
               PROVE  ScheduleInv
    BY DEF AllInit
  <2>1. queue \in Seq(DayTimers) /\ Len(queue) <= QueueRoom
    BY ScheduleAssumption DEF Daily!ScheduleStart
  <2>2. looked \in BOOLEAN /\ (looked => now = 0)
    BY DEF Daily!ScheduleStart
  <2>3. 0 \in 0 .. DaySeconds - 1
    BY ScheduleAssumption
  <2>4. Daily!ScheduleTypeOK
    BY <2>1, <2>2, <2>3 DEF Daily!ScheduleStart, Daily!ScheduleTypeOK
  <2>5. ~looked => oldTimer # now
    BY DEF Daily!ScheduleStart
  <2>6. DueInv
    BY <2>2, <2>5 DEF Daily!ScheduleStart, DueInv
  <2> QED
    BY <2>4, <2>6 DEF ScheduleInv
<1>2. ScheduleInv /\ [AllNext]_allVars => ScheduleInv'
  <2> SUFFICES ASSUME ScheduleInv, [AllNext]_allVars
               PROVE  ScheduleInv'
    OBVIOUS
  <2>1. Daily!ScheduleNext \/ UNCHANGED scheduleVars
    BY DEF AllNext, allVars, GroupRecords, ButtonScan, LedGroups, DailyTimers, FirmwareUpdates, AppStarts
  <2>2. CASE UNCHANGED scheduleVars
    BY <2>2 DEF scheduleVars, ScheduleInv, Daily!ScheduleTypeOK, DueInv
  <2> QED
    BY <2>1, <2>2, LookStep, SecondStep, TimerStep DEF Daily!ScheduleNext
<1> QED
  BY <1>1, <1>2, PTL DEF AllSpec, allVars

(* Each time a second comes a timer is queued for it at most once, and once *)
(* if it is its own and it is registered, for any length of the day, timers   *)
(* and queue and wherever the clock is set meanwhile; unless the thread fell   *)
(* behind or the queue was full.                                             *)
THEOREM EveryTimerQueued == AllSpec => []NothingMissed
<1>1. ScheduleInv => NothingMissed
  BY DEF ScheduleInv, DueInv, NothingMissed, Daily!NothingMissed
<1> QED
  BY <1>1, ScheduleAlways, PTL

-----------------------------------------------------------------------------
(* button.cpp: what a hold is answered with                                *)

LEMMA ButtonBounds ==
  /\ ButtonCount \in Nat /\ PressTicks \in Nat /\ KeepTicks \in Nat /\ LongTicks \in Nat
  /\ TickMod \in Nat /\ PairTicks \in Nat
  /\ 1 <= PressTicks /\ PressTicks < KeepTicks /\ KeepTicks < LongTicks /\ LongTicks < TickMod
  /\ NoButton \notin Button!ButtonIds
BY ButtonAssumption DEF Button!ButtonIds

(* A set of buttons has a last one. *)
LEMMA LastButton ==
  ASSUME NEW S \in SUBSET Button!ButtonIds, S # {}
  PROVE  Button!Max(S) \in S
<1> DEFINE T == {k .. ButtonCount : k \in S}
<1>1. \A k \in S : k \in Nat /\ k <= ButtonCount /\ k .. ButtonCount \in FiniteSubsetsOf(Nat)
  <2> SUFFICES ASSUME NEW k \in S
               PROVE  k \in Nat /\ k <= ButtonCount /\ k .. ButtonCount \in FiniteSubsetsOf(Nat)
    OBVIOUS
  <2>1. k \in Nat /\ k <= ButtonCount
    BY ButtonBounds DEF Button!ButtonIds
  <2>2. IsFiniteSet(k .. ButtonCount)
    BY <2>1, FS_Interval, ButtonBounds
  <2> QED
    BY <2>1, <2>2, ButtonBounds DEF FiniteSubsetsOf
<1>2. T \subseteq FiniteSubsetsOf(Nat) /\ T # {}
  BY <1>1
<1>3. PICK x \in T : \A y \in T : <<y, x>> \notin StrictSubsetOrdering(Nat)
  <2>1. IsWellFoundedOn(StrictSubsetOrdering(Nat), FiniteSubsetsOf(Nat))
    BY FS_StrictSubsetOrderingWellFounded
  <2> HIDE DEF T
  <2> QED
    BY <1>2, <2>1, WFMin
<1>4. PICK m \in S : x = m .. ButtonCount
  OBVIOUS
<1>5. ASSUME NEW l \in S, ~(m >= l)
      PROVE  FALSE
  <2>1. l .. ButtonCount \subseteq m .. ButtonCount /\ l .. ButtonCount # m .. ButtonCount
    <3>1. m \in m .. ButtonCount /\ m \notin l .. ButtonCount
      BY <1>1, <1>5, ButtonBounds
    <3> QED
      BY <1>1, <1>5, <3>1, ButtonBounds
  <2>2. l .. ButtonCount \in SUBSET Nat /\ m .. ButtonCount \in SUBSET Nat
    BY <1>1, ButtonBounds
  <2>3. <<l .. ButtonCount, m .. ButtonCount>> \in StrictSubsetOrdering(Nat)
    BY <2>1, <2>2 DEF StrictSubsetOrdering
  <2> QED
    BY <1>3, <1>4, <2>3
<1>6. m \in S /\ \A l \in S : m >= l
  BY <1>5
<1> QED
  BY <1>6 DEF Button!Max

LEMMA Sooner ==
  ASSUME NEW a \in Nat, NEW b \in Nat
  PROVE  Button!Min({a, b}) = IF a <= b THEN a ELSE b
BY DEF Button!Min

EventFor(n) ==
  IF n < PressTicks THEN "none" ELSE IF n < KeepTicks THEN "press"
  ELSE IF n < LongTicks THEN "keeping" ELSE "longKeeping"

ToldIn(n) == IF n < KeepTicks THEN <<>> ELSE <<"pair">>

(* A button has counted its hold, if it is down, and been answered for as     *)
(* much of it; if it is up its last hold is answered.                          *)
Followed(b) ==
  /\ ticks[b] = held[b] /\ event[b] = EventFor(held[b])
  /\ held[b] # 0 => posted[b] = ToldIn(held[b])
  /\ held[b] = 0 /\ lastHold[b] # 0 => posted[b] = Button!Answer(lastHold[b], b \in again)

(* The button a short press of which deletes is the one kept last, if that    *)
(* was not too long ago at the last scan.                                     *)
PairKnown ==
  /\ sincePair = keptAgo /\ (~inTime => keptAgo > PairTicks)
  /\ pair = IF inTime THEN lastKept ELSE NoButton

HoldInv == Button!ButtonTypeOK /\ (\A b \in buttons : Followed(b)) /\ PairKnown

Words == {"press", "deleteAll", "pair", "configWifi", "kickOut"}

LEMMA Joined ==
  ASSUME NEW a \in Words, NEW b \in Words
  PROVE  <<a>> \o <<b>> = <<a, b>> /\ <<>> \o <<a>> = <<a>> /\ <<a>> \o <<>> = <<a>>
<1> DEFINE s == <<a>>
           t == <<b>>
           u == <<a, b>>
<1>1. s \in Seq(Words) /\ t \in Seq(Words) /\ u \in Seq(Words)
  OBVIOUS
<1>2. Len(s) = 1 /\ Len(t) = 1 /\ Len(u) = 2 /\ s[1] = a /\ t[1] = b /\ u[1] = a /\ u[2] = b
  OBVIOUS
<1>3. s \o t = u
  <2> HIDE DEF s, t, u
  <2>1. /\ s \o t \in Seq(Words) /\ Len(s \o t) = Len(s) + Len(t)
        /\ \A i \in 1 .. Len(s) + Len(t) : (s \o t)[i] = IF i <= Len(s) THEN s[i] ELSE t[i - Len(s)]
    BY <1>1, ConcatProperties
  <2>2. Len(s \o t) = Len(u) /\ \A i \in 1 .. Len(s \o t) : (s \o t)[i] = u[i]
    BY <1>2, <2>1
  <2> QED
    BY <1>1, <2>1, <2>2, SeqEqual
<1>4. <<>> \o s = s /\ s \o <<>> = s
  BY <1>1, ConcatEmptySeq
<1> QED
  BY <1>3, <1>4

LEMMA EventOf ==
  ASSUME NEW n \in Nat
  PROVE  /\ n < PressTicks => EventFor(n) = "none"
         /\ PressTicks <= n /\ n < KeepTicks => EventFor(n) = "press"
         /\ KeepTicks <= n /\ n < LongTicks => EventFor(n) = "keeping"
         /\ LongTicks <= n => EventFor(n) = "longKeeping"
BY ButtonBounds DEF EventFor

LEMMA PostsAtEnd ==
  /\ Button!Posts("none", 0) = <<>> /\ Button!Posts("press", 0) = <<"press">>
  /\ Button!Posts("keeping", 0) = <<"configWifi">> /\ Button!Posts("longKeeping", 0) = <<"kickOut">>
<1>1. ~(0 >= KeepTicks)
  BY ButtonBounds
<1> QED
  BY <1>1 DEF Button!Posts

LEMMA Distinct ==
  /\ <<"pair">> # <<>> /\ <<"press">> # <<>> /\ <<"pair">> # <<"press">> /\ <<"configWifi">> # <<"press">>
  /\ <<"kickOut">> # <<"press">> /\ <<"configWifi">> # <<"pair">> /\ <<"kickOut">> # <<"pair">>
OBVIOUS

(* What a button says while a hold of n scans goes on, *)
LEMMA SaidOn ==
  ASSUME NEW n \in Nat
  PROVE  /\ Button!EventAfter(EventFor(n), n + 1) = EventFor(n + 1)
         /\ Button!Posts(EventFor(n), n + 1) = IF n + 1 = KeepTicks THEN <<"pair">> ELSE <<>>
<1>1. Button!EventAfter(EventFor(n), n + 1) = EventFor(n + 1)
  BY ButtonBounds DEF Button!EventAfter, EventFor
<1>2. Button!Posts(EventFor(n), n + 1) = IF n + 1 = KeepTicks THEN <<"pair">> ELSE <<>>
  BY ButtonBounds DEF Button!Posts, EventFor
<1> QED
  BY <1>1, <1>2

(* and when it ends. *)
LEMMA SaidLast ==
  ASSUME NEW n \in Nat
  PROVE  /\ Button!EventAfter(EventFor(n), 0) = EventFor(0)
         /\ n < PressTicks => Button!Posts(EventFor(n), 0) = <<>>
         /\ PressTicks <= n /\ n < KeepTicks => Button!Posts(EventFor(n), 0) = <<"press">>
         /\ KeepTicks <= n /\ n < LongTicks => Button!Posts(EventFor(n), 0) = <<"configWifi">>
         /\ LongTicks <= n => Button!Posts(EventFor(n), 0) = <<"kickOut">>
<1>1. Button!EventAfter(EventFor(n), 0) = EventFor(0)
  BY ButtonBounds DEF Button!EventAfter, EventFor
<1> QED
  BY <1>1, EventOf, PostsAtEnd

LEMMA ToldOn ==
  ASSUME NEW n \in Nat
  PROVE  ToldIn(n) \o Button!Posts(EventFor(n), n + 1) \o <<>> = ToldIn(n + 1)
<1>1. CASE n + 1 = KeepTicks
  <2>1. ToldIn(n) = <<>> /\ ToldIn(n + 1) = <<"pair">> /\ Button!Posts(EventFor(n), n + 1) = <<"pair">>
    BY <1>1, SaidOn, ButtonBounds DEF ToldIn
  <2>2. "pair" \in Words
    BY DEF Words
  <2>3. <<>> \o <<"pair">> = <<"pair">> /\ <<"pair">> \o <<>> = <<"pair">>
    BY ONLY <2>2, Joined
  <2> QED
    BY <2>1, <2>3
<1>2. CASE n + 1 # KeepTicks
  <2>1. ToldIn(n) = ToldIn(n + 1) /\ Button!Posts(EventFor(n), n + 1) = <<>>
    BY <1>2, SaidOn, ButtonBounds DEF ToldIn
  <2>2. ToldIn(n) \o <<>> \o <<>> = ToldIn(n)
    BY DEF ToldIn
  <2> QED
    BY <2>1, <2>2
<1> QED
  BY <1>1, <1>2

(* A hold that ends has its answer, with a deletion if it is a short press. *)
LEMMA ToldLast ==
  ASSUME NEW n \in Nat, NEW soon \in BOOLEAN, soon => PressTicks <= n /\ n < KeepTicks
  PROVE  ToldIn(n) \o Button!Posts(EventFor(n), 0) \o (IF soon THEN <<"deleteAll">> ELSE <<>>)
           = Button!Answer(n, soon)
<1> DEFINE d == IF soon THEN <<"deleteAll">> ELSE <<>>
<1>1. CASE n < PressTicks
  <2>1. ToldIn(n) = <<>> /\ Button!Posts(EventFor(n), 0) = <<>> /\ Button!Answer(n, soon) = <<>>
    BY <1>1, SaidLast, ButtonBounds DEF ToldIn, Button!Answer
  <2>2. d = <<>>
    BY <1>1, ButtonBounds
  <2> QED
    BY <2>1, <2>2
<1>2. CASE PressTicks <= n /\ n < KeepTicks
  <2>1. /\ ToldIn(n) = <<>> /\ Button!Posts(EventFor(n), 0) = <<"press">>
        /\ Button!Answer(n, soon) = IF soon THEN <<"press", "deleteAll">> ELSE <<"press">>
    BY <1>2, SaidLast, ButtonBounds DEF ToldIn, Button!Answer
  <2>2. /\ <<>> \o <<"press">> = <<"press">> /\ <<"press">> \o <<>> = <<"press">>
        /\ <<"press">> \o <<"deleteAll">> = <<"press", "deleteAll">>
    <3>1. "press" \in Words /\ "deleteAll" \in Words
      BY DEF Words
    <3> QED
      BY ONLY <3>1, Joined
  <2> QED
    BY <2>1, <2>2
<1>3. CASE KeepTicks <= n
  <2>1. ToldIn(n) = <<"pair">>
    BY <1>3, ButtonBounds DEF ToldIn
  <2>2. \/ Button!Posts(EventFor(n), 0) = <<"configWifi">> /\ Button!Answer(n, soon) = <<"pair", "configWifi">>
        \/ Button!Posts(EventFor(n), 0) = <<"kickOut">> /\ Button!Answer(n, soon) = <<"pair", "kickOut">>
    BY <1>3, SaidLast, ButtonBounds DEF Button!Answer
  <2>3. d = <<>>
    BY <1>3, ButtonBounds
  <2>4. /\ <<"pair">> \o <<"configWifi">> = <<"pair", "configWifi">>
        /\ <<"pair">> \o <<"kickOut">> = <<"pair", "kickOut">>
    <3>1. "pair" \in Words /\ "configWifi" \in Words /\ "kickOut" \in Words
      BY DEF Words
    <3> QED
      BY ONLY <3>1, Joined
  <2>5. /\ <<"pair", "configWifi">> \o <<>> = <<"pair", "configWifi">>
        /\ <<"pair", "kickOut">> \o <<>> = <<"pair", "kickOut">>
    OBVIOUS
  <2> QED
    BY <2>1, <2>2, <2>3, <2>4, <2>5
<1> QED
  BY <1>1, <1>2, <1>3, ButtonBounds

(* The count of a scan. *)
LEMMA Counted ==
  ASSUME NEW n \in 0 .. TickMod - 1
  PROVE  /\ n + 1 < TickMod => (n + 1) % TickMod = n + 1
         /\ n + 1 = TickMod => (n + 1) % TickMod = 0
         /\ (n + 1) % TickMod \in 0 .. TickMod - 1
  BY ButtonBounds

(* What the code makes of a scan is what the holds say. *)
LEMMA ScanSays ==
  ASSUME HoldInv, NEW down \in SUBSET Button!ButtonIds, NEW b \in buttons
  PROVE  /\ b \in down /\ held[b] + 1 < TickMod =>
              Button!Count(b, down) = held[b] + 1 /\ Button!Says(b, down) = Button!Posts(EventFor(held[b]), held[b] + 1)
         /\ ~(b \in down /\ held[b] + 1 < TickMod) =>
              Button!Count(b, down) = 0 /\ Button!Says(b, down) = Button!Posts(EventFor(held[b]), 0)
         /\ b \in Button!ButtonIds /\ held[b] \in 0 .. TickMod - 1
         /\ b \in down /\ ~(held[b] + 1 < TickMod) => held[b] + 1 = TickMod
<1>1. b \in Button!ButtonIds /\ held[b] \in 0 .. TickMod - 1 /\ ticks[b] = held[b] /\ event[b] = EventFor(held[b])
  BY DEF HoldInv, Button!ButtonTypeOK, Followed
<1>2. held[b] + 1 < TickMod \/ held[b] + 1 = TickMod
  BY <1>1, ButtonBounds
<1>3. /\ b \in down /\ held[b] + 1 < TickMod => Button!Count(b, down) = held[b] + 1
      /\ ~(b \in down /\ held[b] + 1 < TickMod) => Button!Count(b, down) = 0
  BY <1>1, <1>2, Counted DEF Button!Count
<1> QED
  BY <1>1, <1>2, <1>3 DEF Button!Says

LEMMA KeptReach ==
  ASSUME HoldInv, NEW down \in SUBSET Button!ButtonIds
  PROVE  Button!Kept(down) = Button!Reaching(down) /\ Button!Kept(down) \in SUBSET Button!ButtonIds
<1>1. ASSUME NEW b \in buttons
      PROVE  Button!Says(b, down) = <<"pair">> <=> b \in down /\ held[b] + 1 = KeepTicks
  <2>1. held[b] \in Nat
    BY ScanSays, ButtonBounds
  <2>2. CASE b \in down /\ held[b] + 1 < TickMod
    <3>1. Button!Says(b, down) = Button!Posts(EventFor(held[b]), held[b] + 1)
      BY <2>2, ScanSays
    <3>2. Button!Says(b, down) = IF held[b] + 1 = KeepTicks THEN <<"pair">> ELSE <<>>
      BY <2>1, <3>1, SaidOn
    <3> QED
      BY <2>2, <3>2, Distinct
  <2>3. CASE ~(b \in down /\ held[b] + 1 < TickMod)
    <3>1. Button!Says(b, down) # <<"pair">>
      <4>1. Button!Says(b, down) = Button!Posts(EventFor(held[b]), 0)
        BY <2>3, ScanSays
      <4> QED
        BY <2>1, <4>1, SaidLast, Distinct, ButtonBounds
    <3>2. ~(b \in down /\ held[b] + 1 = KeepTicks)
      BY <2>3, ScanSays, ButtonBounds
    <3> QED
      BY <3>1, <3>2
  <2> QED
    BY <2>2, <2>3
<1>2. buttons \subseteq Button!ButtonIds
  BY DEF HoldInv, Button!ButtonTypeOK
<1> QED
  BY <1>1, <1>2 DEF Button!Kept, Button!Reaching

LEMMA DeletesAgain ==
  ASSUME HoldInv, NEW down \in SUBSET Button!ButtonIds
  PROVE  Button!Deletes(down) = Button!Again(down)
<1>1. ASSUME NEW b \in buttons
      PROVE  Button!Says(b, down) = <<"press">> <=> b \notin down /\ PressTicks <= held[b] /\ held[b] < KeepTicks
  <2>1. held[b] \in Nat
    BY ScanSays, ButtonBounds
  <2>2. CASE b \in down /\ held[b] + 1 < TickMod
    <3>1. Button!Says(b, down) = Button!Posts(EventFor(held[b]), held[b] + 1)
      BY <2>2, ScanSays
    <3>2. Button!Says(b, down) = IF held[b] + 1 = KeepTicks THEN <<"pair">> ELSE <<>>
      BY <2>1, <3>1, SaidOn
    <3> QED
      BY <2>2, <3>2, Distinct
  <2>3. CASE b \in down /\ held[b] + 1 = TickMod
    <3>1. Button!Says(b, down) = Button!Posts(EventFor(held[b]), 0)
      BY <2>1, <2>3, ScanSays, ButtonBounds
    <3>2. LongTicks <= held[b]
      BY <2>1, <2>3, ButtonBounds
    <3> QED
      BY <2>1, <2>3, <3>1, <3>2, SaidLast, Distinct, ButtonBounds
  <2>4. CASE b \notin down
    <3>1. Button!Says(b, down) = Button!Posts(EventFor(held[b]), 0)
      BY <2>4, ScanSays
    <3> QED
      BY <2>1, <2>4, <3>1, SaidLast, Distinct, ButtonBounds
  <2> QED
    BY <2>2, <2>3, <2>4, ScanSays
<1>2. ASSUME NEW b \in buttons, b \notin down
      PROVE  Button!PairFoundBy(b, down) = b <=>
               lastKept = b /\ inTime /\ \A k \in Button!Reaching(down) : k > b
  <2> DEFINE before == {k \in Button!Kept(down) : k < b}
  <2>1. b \in Button!ButtonIds /\ b # NoButton /\ b \in Nat
    <3>1. b \in Button!ButtonIds
      BY DEF HoldInv, Button!ButtonTypeOK
    <3> QED
      BY <3>1, ButtonBounds DEF Button!ButtonIds
  <2>2. b \notin Button!Reaching(down) /\ Button!Reaching(down) \subseteq Nat
    BY <1>2, KeptReach DEF Button!Reaching, Button!ButtonIds
  <2>3. before = {} <=> \A k \in Button!Reaching(down) : k > b
    BY <2>1, <2>2, KeptReach
  <2>4. before # {} => Button!Max(before) # b
    <3>1. before \in SUBSET Button!ButtonIds
      BY KeptReach
    <3>2. before # {} => Button!Max(before) \in before
      BY <3>1, LastButton
    <3>3. b \notin before
      BY <2>1
    <3> QED
      BY <3>2, <3>3
  <2>5. pair = b <=> lastKept = b /\ inTime
    BY <2>1 DEF HoldInv, PairKnown
  <2>6. Button!PairFoundBy(b, down) = IF before = {} THEN pair ELSE Button!Max(before)
    BY DEF Button!PairFoundBy
  <2> HIDE DEF before
  <2> QED
    BY <2>3, <2>4, <2>5, <2>6
<1> QED
  BY <1>1, <1>2 DEF Button!Deletes, Button!Again

(* One scan: the types, *)
LEMMA ScanTyped ==
  ASSUME HoldInv, NEW down \in SUBSET Button!ButtonIds, Button!Scan(down)
  PROVE  Button!ButtonTypeOK'
<1> USE DEF HoldInv, Button!ButtonTypeOK
<1>1. ticks' \in [Button!ButtonIds -> 0 .. TickMod - 1]
  <2>1. \A b \in Button!ButtonIds : Button!Count(b, down) \in 0 .. TickMod - 1
    BY Counted, ButtonBounds DEF Button!Count
  <2>2. ticks' = [b \in Button!ButtonIds |-> IF b \in buttons THEN Button!Count(b, down) ELSE ticks[b]]
    BY DEF Button!Scan
  <2> QED
    BY <2>1, <2>2
<1>2. event' \in [Button!ButtonIds -> Button!ButtonEvents]
  <2>1. ASSUME NEW e \in Button!ButtonEvents, NEW t
        PROVE  Button!EventAfter(e, t) \in Button!ButtonEvents
    BY DEF Button!EventAfter, Button!ButtonEvents
  <2> QED
    BY <2>1 DEF Button!Scan
<1>3. /\ held' = [b \in Button!ButtonIds |-> IF b \in down THEN (held[b] + 1) % TickMod ELSE 0]
      /\ lastHold' = [b \in Button!ButtonIds |->
                        IF b \in Button!Ending(down) THEN (IF b \in down THEN TickMod ELSE held[b])
                        ELSE IF b \in down THEN 0 ELSE lastHold[b]]
      /\ again' = (again \ (down \cup Button!Ending(down))) \cup Button!Again(down)
  BY DEF Button!Scan, Button!HoldsGoOn
<1>4. held' \in [Button!ButtonIds -> 0 .. TickMod - 1]
  BY <1>3, Counted, ButtonBounds
<1>5. lastHold' \in [Button!ButtonIds -> 0 .. TickMod]
  BY <1>3, ButtonBounds
<1>6. again' \subseteq Button!ButtonIds
  BY <1>3 DEF Button!Again
<1>7. Button!Kept(down) # {} => Button!Max(Button!Kept(down)) \in Button!ButtonIds
  BY KeptReach, LastButton
<1>8. {pair', lastKept'} \subseteq Button!ButtonIds \cup {NoButton}
  BY <1>7, KeptReach DEF Button!Scan, Button!HoldsGoOn, Button!PairTimesOut
<1>9. {sincePair', keptAgo'} \subseteq Button!Ages /\ inTime' \in BOOLEAN
  <2>1. inTime' \in BOOLEAN
    <3>1. inTime' = (keptAgo' <= PairTicks)
      BY DEF Button!Scan, Button!HoldsGoOn
    <3>2. (keptAgo' <= PairTicks) \in BOOLEAN
      BY SMT
    <3> QED
      BY ONLY <3>1, <3>2, Zenon
  <2>2. {sincePair', keptAgo'} \subseteq Button!Ages
    <3>1. sincePair' \in {0, sincePair} /\ keptAgo' \in {0, keptAgo}
      BY DEF Button!Scan, Button!HoldsGoOn
    <3>2. 0 \in Button!Ages
      BY ButtonBounds DEF Button!Ages
    <3> QED
      BY <3>1, <3>2
  <2> QED
    BY <2>1, <2>2
<1>10. listening' \in BOOLEAN /\ buttons' \subseteq Button!ButtonIds
  BY DEF Button!Scan
<1> QED
  BY <1>1, <1>2, <1>4, <1>5, <1>6, <1>8, <1>9, <1>10

(* the pairing, *)
LEMMA ScanPairs ==
  ASSUME HoldInv, NEW down \in SUBSET Button!ButtonIds, Button!Scan(down)
  PROVE  PairKnown'
<1> DEFINE K == Button!Kept(down)
           D == Button!Deletes(down)
<1>1. /\ sincePair' = IF K # {} THEN 0 ELSE sincePair
      /\ pair' = Button!PairTimesOut(IF K # {} THEN Button!Max(K) ELSE IF D # {} THEN NoButton ELSE pair, sincePair')
  BY DEF Button!Scan
<1>2. /\ lastKept' = IF K # {} THEN Button!Max(K) ELSE IF D # {} THEN NoButton ELSE lastKept
      /\ keptAgo' = IF K # {} THEN 0 ELSE keptAgo
      /\ (inTime' => keptAgo' <= PairTicks) /\ (~inTime' => ~(keptAgo' <= PairTicks))
  <2>1. inTime' = (keptAgo' <= PairTicks)
    BY DEF Button!Scan, Button!HoldsGoOn
  <2>2. (inTime' => keptAgo' <= PairTicks) /\ (~inTime' => ~(keptAgo' <= PairTicks))
    BY <2>1, Zenon
  <2> QED
    BY <2>2, KeptReach, DeletesAgain DEF Button!Scan, Button!HoldsGoOn
<1>3. keptAgo \in Nat /\ PairTicks \in Nat /\ keptAgo' \in Nat
  BY <1>2, ButtonBounds DEF HoldInv, Button!ButtonTypeOK, Button!Ages
<1>4. /\ sincePair = keptAgo /\ (~inTime => keptAgo > PairTicks)
      /\ pair = IF inTime THEN lastKept ELSE NoButton
  BY DEF HoldInv, PairKnown
<1> HIDE DEF K, D
<1>5. sincePair' = keptAgo' /\ (~inTime' => keptAgo' > PairTicks)
  BY <1>1, <1>2, <1>3, <1>4
<1>6. pair' = IF inTime' THEN lastKept' ELSE NoButton
  <2>1. CASE K # {}
    BY <1>1, <1>2, <1>3, <2>1 DEF Button!PairTimesOut
  <2>2. CASE K = {} /\ D # {}
    BY <1>1, <1>2, <2>2 DEF Button!PairTimesOut
  <2>3. CASE K = {} /\ D = {}
    BY <1>1, <1>2, <1>3, <1>4, <2>3 DEF Button!PairTimesOut
  <2> QED
    BY <2>1, <2>2, <2>3
<1> QED
  BY <1>5, <1>6 DEF PairKnown

(* and the answers. *)
LEMMA ScanFollowed ==
  ASSUME HoldInv, NEW down \in SUBSET Button!ButtonIds, Button!Scan(down), NEW b \in buttons
  PROVE  Followed(b)'
<1> DEFINE del == IF b \in Button!Deletes(down) THEN <<"deleteAll">> ELSE <<>>
           so == IF held[b] = 0 /\ b \in down THEN <<>> ELSE posted[b]
<1>1. /\ b \in Button!ButtonIds /\ held[b] \in 0 .. TickMod - 1 /\ held[b] \in Nat
      /\ ticks[b] = held[b] /\ event[b] = EventFor(held[b])
      /\ held[b] # 0 => posted[b] = ToldIn(held[b])
      /\ held[b] = 0 /\ lastHold[b] # 0 => posted[b] = Button!Answer(lastHold[b], b \in again)
      /\ lastHold[b] \in 0 .. TickMod
  BY ButtonBounds DEF HoldInv, Button!ButtonTypeOK, Followed
<1>2. /\ ticks'[b] = Button!Count(b, down) /\ event'[b] = Button!EventAfter(event[b], Button!Count(b, down))
      /\ posted'[b] = so \o Button!Says(b, down) \o del
  BY <1>1 DEF Button!Scan
<1>3. /\ held'[b] = IF b \in down THEN (held[b] + 1) % TickMod ELSE 0
      /\ lastHold'[b] = IF b \in Button!Ending(down) THEN (IF b \in down THEN TickMod ELSE held[b])
                        ELSE IF b \in down THEN 0 ELSE lastHold[b]
      /\ again' = (again \ (down \cup Button!Ending(down))) \cup Button!Again(down)
  BY <1>1 DEF Button!Scan, Button!HoldsGoOn
<1>4. /\ del = IF b \in Button!Again(down) THEN <<"deleteAll">> ELSE <<>>
      /\ b \in Button!Again(down) => b \notin down /\ PressTicks <= held[b] /\ held[b] < KeepTicks
  BY DeletesAgain DEF Button!Again
<1>5. b \in Button!Ending(down) <=> IF b \in down THEN held[b] + 1 = TickMod ELSE held[b] # 0
  BY <1>1 DEF Button!Ending
<1> HIDE DEF del
<1>6. CASE b \in down /\ held[b] + 1 < TickMod
  <2>1. Button!Count(b, down) = held[b] + 1 /\ Button!Says(b, down) = Button!Posts(EventFor(held[b]), held[b] + 1)
    BY <1>6, ScanSays
  <2>2. held'[b] = held[b] + 1 /\ ticks'[b] = held[b] + 1 /\ event'[b] = EventFor(held[b] + 1)
    BY <1>1, <1>2, <1>3, <1>6, <2>1, Counted, SaidOn
  <2>3. so = ToldIn(held[b])
    BY <1>1, <1>6, ButtonBounds DEF ToldIn
  <2>4. del = <<>>
    BY <1>4, <1>6
  <2> HIDE DEF so
  <2>5. posted'[b] = ToldIn(held[b] + 1)
    BY <1>1, <1>2, <2>1, <2>3, <2>4, ToldOn
  <2>6. held'[b] # 0
    BY <1>1, <2>2
  <2> QED
    BY <2>2, <2>5, <2>6 DEF Followed, EventFor, ToldIn
<1>7. CASE b \in down /\ held[b] + 1 = TickMod
  <2>1. Button!Count(b, down) = 0 /\ Button!Says(b, down) = Button!Posts(EventFor(held[b]), 0)
    BY <1>1, <1>7, ScanSays, ButtonBounds
  <2>2. held'[b] = 0 /\ ticks'[b] = 0 /\ event'[b] = EventFor(0)
    BY <1>1, <1>2, <1>3, <1>7, <2>1, Counted, SaidLast
  <2>3. lastHold'[b] = TickMod /\ b \notin again'
    BY <1>3, <1>4, <1>5, <1>7
  <2>4. so = ToldIn(held[b]) /\ del = <<>>
    BY <1>1, <1>4, <1>7, ButtonBounds
  <2> HIDE DEF so
  <2>5. posted'[b] = Button!Answer(held[b], FALSE)
    <3>1. ToldIn(held[b]) \o Button!Posts(EventFor(held[b]), 0) \o (IF FALSE THEN <<"deleteAll">> ELSE <<>>)
            = Button!Answer(held[b], FALSE)
      BY <1>1, ToldLast
    <3> QED
      BY <1>2, <2>1, <2>4, <3>1
  <2>6. Button!Answer(held[b], FALSE) = Button!Answer(TickMod, FALSE)
    BY <1>1, <1>7, ButtonBounds DEF Button!Answer
  <2>7. Button!Answer(TickMod, FALSE) = Button!Answer(lastHold'[b], b \in again')
    BY <2>3 DEF Button!Answer
  <2>8. posted'[b] = Button!Answer(lastHold'[b], b \in again')
    BY <2>5, <2>6, <2>7
  <2> QED
    BY <2>2, <2>8 DEF Followed, EventFor
<1>8. CASE b \notin down
  <2>1. Button!Count(b, down) = 0 /\ Button!Says(b, down) = Button!Posts(EventFor(held[b]), 0)
    BY <1>8, ScanSays
  <2>2. held'[b] = 0 /\ ticks'[b] = 0 /\ event'[b] = EventFor(0)
    BY <1>1, <1>2, <1>3, <1>8, <2>1, SaidLast
  <2>3. so = posted[b]
    BY <1>8
  <2> HIDE DEF so
  <2>4. CASE held[b] # 0
    <3> DEFINE soon == b \in Button!Again(down)
    <3>1. lastHold'[b] = held[b] /\ (b \in again' <=> soon) /\ so = ToldIn(held[b])
      BY <1>1, <1>3, <1>5, <1>8, <2>3, <2>4
    <3>2. soon \in BOOLEAN /\ (soon => PressTicks <= held[b] /\ held[b] < KeepTicks)
      BY <1>4
    <3>3. del = IF soon THEN <<"deleteAll">> ELSE <<>>
      BY <1>4
    <3>4. posted'[b] = Button!Answer(held[b], b \in again')
      <4> HIDE DEF soon
      <4>1. posted'[b] = Button!Answer(held[b], soon)
        BY <1>1, <1>2, <2>1, <3>1, <3>2, <3>3, ToldLast
      <4>2. Button!Answer(held[b], soon) = Button!Answer(held[b], b \in again')
        BY <3>1 DEF Button!Answer
      <4> QED
        BY <4>1, <4>2
    <3> QED
      BY <2>2, <3>1, <3>4 DEF Followed, EventFor
  <2>5. CASE held[b] = 0
    <3>1. lastHold'[b] = lastHold[b] /\ (b \in again' <=> b \in again)
      <4>1. b \notin Button!Again(down) /\ b \notin Button!Ending(down)
        BY <1>4, <1>5, <1>8, <2>5, ButtonBounds
      <4> QED
        BY <1>3, <1>8, <4>1
    <3>2. del = <<>> /\ Button!Says(b, down) = <<>>
      <4>1. held[b] < PressTicks
        BY <2>5, ButtonBounds
      <4>2. Button!Posts(EventFor(held[b]), 0) = <<>>
        BY <1>1, <4>1, SaidLast
      <4>3. b \notin Button!Again(down)
        BY <1>1, <1>4, <4>1, ButtonBounds
      <4> QED
        BY <1>4, <2>1, <4>2, <4>3
    <3>3. ASSUME lastHold[b] # 0
          PROVE  posted'[b] = Button!Answer(lastHold[b], b \in again')
      <4>1. posted[b] = Button!Answer(lastHold[b], b \in again)
        BY <1>1, <2>5, <3>3
      <4>2. posted[b] \in Seq(Words)
        <5>1. /\ <<>> \in Seq(Words) /\ <<"press">> \in Seq(Words) /\ <<"press", "deleteAll">> \in Seq(Words)
              /\ <<"pair", "configWifi">> \in Seq(Words) /\ <<"pair", "kickOut">> \in Seq(Words)
          BY DEF Words
        <5>2. posted[b] \in {<<>>, <<"press">>, <<"press", "deleteAll">>, <<"pair", "configWifi">>,
                             <<"pair", "kickOut">>}
          BY <1>1, <4>1, ButtonBounds DEF Button!Answer
        <5> QED
          BY ONLY <5>1, <5>2
      <4>3. posted[b] \o <<>> = posted[b]
        BY <4>2, ConcatEmptySeq
      <4>4. Button!Answer(lastHold[b], b \in again) = Button!Answer(lastHold[b], b \in again')
        BY <3>1 DEF Button!Answer
      <4> QED
        BY <1>2, <2>3, <3>2, <4>1, <4>3, <4>4
    <3> QED
      BY <2>2, <3>1, <3>3 DEF Followed, EventFor
  <2> QED
    BY <2>4, <2>5
<1> QED
  BY <1>1, <1>6, <1>7, <1>8, ScanSays

LEMMA TimeStep ==
  ASSUME HoldInv, Button!TimePasses
  PROVE  HoldInv'
<1>1. /\ sincePair' = Button!Min({sincePair + 1, PairTicks + 1}) /\ keptAgo' = Button!Min({keptAgo + 1, PairTicks + 1})
      /\ UNCHANGED <<listening, buttons, ticks, event, pair, posted, held, lastHold, again, lastKept, inTime>>
  BY DEF Button!TimePasses
<1>2. sincePair \in 0 .. PairTicks + 1 /\ keptAgo \in 0 .. PairTicks + 1 /\ PairTicks \in Nat
  BY ButtonBounds DEF HoldInv, Button!ButtonTypeOK, Button!Ages
<1>3. /\ sincePair' = IF sincePair + 1 <= PairTicks + 1 THEN sincePair + 1 ELSE PairTicks + 1
      /\ keptAgo' = IF keptAgo + 1 <= PairTicks + 1 THEN keptAgo + 1 ELSE PairTicks + 1
  BY <1>1, <1>2, Sooner
<1>4. {sincePair', keptAgo'} \subseteq 0 .. PairTicks + 1
  BY <1>2, <1>3
<1>5. Button!ButtonTypeOK'
  BY <1>1, <1>4 DEF HoldInv, Button!ButtonTypeOK, Button!Ages
<1>6. PairKnown'
  BY <1>1, <1>2, <1>3 DEF HoldInv, PairKnown
<1>7. (\A b \in buttons : Followed(b))'
  BY <1>1 DEF HoldInv, Followed
<1> QED
  BY <1>5, <1>6, <1>7 DEF HoldInv

LEMMA HoldAlways == AllSpec => []HoldInv
<1>1. AllInit => HoldInv
  <2> SUFFICES ASSUME Button!ButtonStart
               PROVE  HoldInv
    BY DEF AllInit
  <2>1. 0 \in 0 .. TickMod - 1 /\ 0 \in 0 .. TickMod /\ 0 \in 0 .. PairTicks + 1 /\ EventFor(0) = "none"
    BY ButtonBounds DEF EventFor
  <2>2. Button!ButtonTypeOK
    BY <2>1 DEF Button!ButtonStart, Button!ButtonTypeOK, Button!ButtonEvents, Button!Ages
  <2>3. (\A b \in buttons : Followed(b)) /\ PairKnown
    BY <2>1 DEF Button!ButtonStart, Followed, PairKnown
  <2> QED
    BY <2>2, <2>3 DEF HoldInv
<1>2. HoldInv /\ [AllNext]_allVars => HoldInv'
  <2> SUFFICES ASSUME HoldInv, [AllNext]_allVars
               PROVE  HoldInv'
    OBVIOUS
  <2>1. Button!ButtonNext \/ UNCHANGED buttonVars
    BY DEF AllNext, allVars, GroupRecords, ButtonScan, LedGroups, DailyTimers, FirmwareUpdates, AppStarts
  <2>2. CASE UNCHANGED buttonVars
    BY <2>2 DEF buttonVars, HoldInv, Button!ButtonTypeOK, Followed, PairKnown
  <2>3. CASE Button!StartListening \/ Button!StopListening
    <3>1. /\ listening' \in BOOLEAN
          /\ UNCHANGED <<buttons, ticks, event, pair, sincePair, posted, held, lastHold, again,
                         lastKept, keptAgo, inTime>>
      BY <2>3 DEF Button!StartListening, Button!StopListening, Button!holdVars
    <3>2. Button!ButtonTypeOK'
      BY <3>1 DEF HoldInv, Button!ButtonTypeOK
    <3>3. PairKnown'
      BY <3>1 DEF HoldInv, PairKnown
    <3>4. (\A b \in buttons : Followed(b))'
      BY <3>1 DEF HoldInv, Followed
    <3> QED
      BY <3>2, <3>3, <3>4 DEF HoldInv
  <2>4. ASSUME NEW b \in Button!ButtonIds, Button!RemoveButton(b)
        PROVE  HoldInv'
    BY <2>4 DEF Button!RemoveButton, Button!holdVars, HoldInv, Button!ButtonTypeOK, Followed, PairKnown
  <2>5. ASSUME NEW down \in SUBSET Button!ButtonIds, Button!Scan(down)
        PROVE  HoldInv'
    <3>1. buttons' = buttons
      BY <2>5 DEF Button!Scan
    <3>2. (\A b \in buttons : Followed(b))'
      BY <2>5, <3>1, ScanFollowed
    <3> QED
      BY <2>5, <3>2, ScanTyped, ScanPairs DEF HoldInv
  <2> QED
    BY <2>1, <2>2, <2>3, <2>4, <2>5, TimeStep DEF Button!ButtonNext
<1> QED
  BY <1>1, <1>2, PTL DEF AllSpec, allVars

(* A hold that has ended was answered once, by its length and by what was     *)
(* kept before it, for any number of buttons and any thresholds in order,       *)
(* whatever the other buttons do and whenever scanning stops; one as long as     *)
(* the counter, each time that wraps.                                        *)
THEOREM HoldsAnswered == AllSpec => []HoldAnsweredByLength
<1>1. HoldInv => HoldAnsweredByLength
  BY DEF HoldInv, Followed, HoldAnsweredByLength, Button!HoldAnsweredByLength
<1> QED
  BY <1>1, HoldAlways, PTL

-----------------------------------------------------------------------------
(* led_mgmt.cpp: what a change under way owes its group                    *)

TaskIn(g) == task.pc = "write" /\ task.group = g

LedShape ==
  /\ DOMAIN lit = Groups /\ DOMAIN frame = Groups /\ DOMAIN wanted = Groups
  /\ blinkCount \in [Groups -> Nat]
  /\ ledCall.pc \in {"ready", "write", "send", "next", "startBlink"}
  /\ ledCall.pc = "write" =>
       \/ ledCall = [pc |-> "write", groups |-> ledCall.groups, copy |-> ledCall.copy, cycles |-> 0]
       \/ /\ ledCall = [pc |-> "write", groups |-> ledCall.groups, copy |-> ledCall.copy, old |-> ledCall.old,
                         cycles |-> ledCall.cycles]
          /\ ledCall.cycles # 0
  /\ task.pc \in {"ready", "write"}
  /\ task.pc = "write" => task.group \in Groups /\ blinkCount[task.group] > 0

(* What the frame has and the strip does not show is owed by a task. *)
FrameOwed(g) ==
  strip[g] # frame[g] => sendDue \/ (ledCall.pc = "send" /\ g \in ledCall.groups)

(* A group that no two changes have met in: at rest it is as it was asked to  *)
(* be, and the one change under way in it knows the state to end with.        *)
ChangeOwed(g) ==
  /\ ~Led!InCall(g) /\ ~Led!InBlink(g) => lit[g] = wanted[g] /\ frame[g] = lit[g]
  /\ ledCall.pc = "write" /\ g \in ledCall.groups => ledCall.copy[g] = lit[g]
  /\ ledCall.pc = "send" /\ g \in ledCall.groups => frame[g] = lit[g]
  /\ ledCall.pc \in {"write", "send"} /\ g \in ledCall.groups =>
       /\ ~Led!InBlink(g)
       /\ IF ledCall.cycles = 0 THEN lit[g] = wanted[g] ELSE ledCall.old[g] = wanted[g]
  /\ ledCall.pc = "next" /\ g \in ledCall.groups => ~Led!InBlink(g) /\ ledCall.old[g] = wanted[g]
  /\ ledCall.pc = "startBlink" /\ g \in ledCall.groups =>
       lit[g] = wanted[g] /\ blinkCount[g] > 0 /\ ~TaskIn(g)
  /\ ~Led!InCall(g) /\ Led!InBlink(g) => oldState[g] = wanted[g]
  /\ TaskIn(g) => task.copy = lit[g] /\ (blinkCount[g] = 1 => lit[g] = wanted[g])

LedInv ==
  /\ LedShape
  /\ \A g \in Groups : FrameOwed(g) /\ (g \notin mixed => ChangeOwed(g))

(* The application's calls. *)
LEMMA SetGroupStep ==
  ASSUME LedInv, NEW g \in Groups, NEW on, Led!SetGroup(g, on)
  PROVE  LedInv'
<1>1. /\ ledCall.pc = "ready" /\ lit' = [lit EXCEPT ![g] = on]
      /\ wanted' = IF Led!InBlink(g) THEN wanted ELSE [wanted EXCEPT ![g] = on]
      /\ mixed' = IF Led!InBlink(g) THEN mixed \cup {g} ELSE mixed \ {g}
      /\ ledCall' = [pc |-> "write", groups |-> {g}, copy |-> Led!Kept({g}, lit'), cycles |-> 0]
      /\ UNCHANGED <<frame, strip, blinkCount, oldState, task, sendDue>>
  BY DEF Led!SetGroup
<1>2. /\ ledCall'.pc = "write" /\ ledCall'.groups = {g} /\ ledCall'.copy[g] = lit'[g] /\ ledCall'.cycles = 0
      /\ ledCall' = [pc |-> "write", groups |-> ledCall'.groups, copy |-> ledCall'.copy, cycles |-> 0]
  <2>1. Led!Kept({g}, lit')[g] = lit'[g]
    BY DEF Led!Kept
  <2> QED
    BY <1>1, <2>1
<1>3. LedShape'
  BY <1>1, <1>2 DEF LedInv, LedShape
<1>4. ASSUME NEW h \in Groups
      PROVE  FrameOwed(h)' /\ (h \notin mixed' => ChangeOwed(h)')
  BY <1>1, <1>2, <1>4 DEF LedInv, LedShape, FrameOwed, ChangeOwed, TaskIn, Led!InCall, Led!InBlink
<1> QED
  BY <1>3, <1>4 DEF LedInv

LEMMA BlinkStep ==
  ASSUME LedInv, NEW gs \in Led!GroupSets, NEW n \in 1 .. BlinkRoom,
         Led!BlinkHere(gs, n) \/ Led!BlinkThere(gs, n)
  PROVE  LedInv'
<1>0. gs \subseteq Groups /\ 2 * n + 1 \in Nat /\ 2 * n + 1 > 0
  BY LedAssumption DEF Led!GroupSets
<1>1. CASE Led!BlinkHere(gs, n)
  <2>1. /\ ledCall.pc = "ready" /\ gs \cap mixed = {}
        /\ ledCall' = [pc |-> "next", groups |-> gs, old |-> Led!Kept(gs, lit), cycles |-> 2 * n]
        /\ mixed' = mixed \cup {g \in gs : Led!InBlink(g)}
        /\ UNCHANGED <<lit, frame, strip, blinkCount, oldState, task, sendDue, wanted>>
    BY <1>1 DEF Led!BlinkHere
  <2>2. \A g \in gs : Led!Kept(gs, lit)[g] = lit[g]
    BY DEF Led!Kept
  <2>3. /\ ledCall'.pc = "next" /\ ledCall'.groups = gs
        /\ \A g \in gs : ledCall'.old[g] = lit[g]
    BY <2>1, <2>2
  <2>4. LedShape'
    BY <2>1, <2>3 DEF LedInv, LedShape
  <2>5. ASSUME NEW h \in Groups
        PROVE  FrameOwed(h)' /\ (h \notin mixed' => ChangeOwed(h)')
    BY <2>1, <2>3 DEF LedInv, LedShape, FrameOwed, ChangeOwed, TaskIn, Led!InCall, Led!InBlink
  <2> QED
    BY <2>4, <2>5 DEF LedInv
<1>2. CASE Led!BlinkThere(gs, n)
  <2>1. /\ ledCall.pc = "ready" /\ gs \cap mixed = {}
        /\ blinkCount' = Led!With(blinkCount, gs, Led!Same(2 * n + 1))
        /\ ledCall'.pc = "startBlink" /\ ledCall'.groups = gs
        /\ mixed' = mixed \cup {g \in gs : Led!InBlink(g)}
        /\ UNCHANGED <<lit, frame, strip, oldState, task, sendDue, wanted>>
    BY <1>2 DEF Led!BlinkThere
  <2>2. blinkCount' = [g \in Groups |-> IF g \in gs THEN 2 * n + 1 ELSE blinkCount[g]]
    BY <1>0, <2>1 DEF Led!With, Led!Same
  <2>3. LedShape'
    <3>1. blinkCount' \in [Groups -> Nat]
      BY <1>0, <2>2 DEF LedInv, LedShape
    <3> QED
      BY <1>0, <2>1, <2>2, <3>1 DEF LedInv, LedShape
  <2>4. ASSUME NEW h \in Groups
        PROVE  FrameOwed(h)' /\ (h \notin mixed' => ChangeOwed(h)')
    BY <1>0, <2>1, <2>2 DEF LedInv, LedShape, FrameOwed, ChangeOwed, TaskIn, Led!InCall, Led!InBlink
  <2> QED
    BY <2>3, <2>4 DEF LedInv
<1> QED
  BY <1>1, <1>2

LEMMA CallStep ==
  ASSUME LedInv, Led!NextCycle \/ Led!CallWrites \/ Led!CallSends \/ Led!KeepOldState
  PROVE  LedInv'
<1>1. CASE Led!NextCycle
  <2> DEFINE gs == ledCall.groups
             new == IF ledCall.cycles > 0 THEN Led!Same(Led!BlinkOn(gs, ledCall.cycles)) ELSE ledCall.old
  <2>1. /\ ledCall.pc = "next" /\ lit' = Led!With(lit, gs, new)
        /\ ledCall' = IF ledCall.cycles > 0
                      THEN [pc |-> "write", groups |-> gs, copy |-> Led!Kept(gs, lit'), old |-> ledCall.old,
                            cycles |-> ledCall.cycles]
                      ELSE [pc |-> "write", groups |-> gs, copy |-> Led!Kept(gs, lit'), cycles |-> 0]
        /\ mixed' = mixed \cup {g \in gs : Led!InBlink(g)}
        /\ UNCHANGED <<frame, strip, blinkCount, oldState, task, sendDue, wanted>>
    BY <1>1 DEF Led!NextCycle
  <2>2. lit' = [g \in Groups |-> IF g \in gs THEN new[g] ELSE lit[g]]
    BY <2>1 DEF Led!With
  <2>3. \A g \in gs : Led!Kept(gs, lit')[g] = lit'[g]
    BY DEF Led!Kept
  <2>4. /\ ledCall'.pc = "write" /\ ledCall'.groups = gs /\ \A g \in gs : ledCall'.copy[g] = lit'[g]
        /\ \/ ledCall' = [pc |-> "write", groups |-> ledCall'.groups, copy |-> ledCall'.copy, cycles |-> 0]
           \/ /\ ledCall' = [pc |-> "write", groups |-> ledCall'.groups, copy |-> ledCall'.copy,
                             old |-> ledCall'.old, cycles |-> ledCall'.cycles]
              /\ ledCall'.cycles # 0
        /\ IF ledCall'.cycles = 0 THEN new = ledCall.old ELSE ledCall'.old = ledCall.old
    BY <2>1, <2>3
  <2> HIDE DEF new
  <2>5. LedShape'
    BY <2>1, <2>2, <2>4 DEF LedInv, LedShape
  <2>6. ASSUME NEW h \in Groups
        PROVE  FrameOwed(h)' /\ (h \notin mixed' => ChangeOwed(h)')
    BY <2>1, <2>2, <2>4 DEF LedInv, LedShape, FrameOwed, ChangeOwed, TaskIn, Led!InCall, Led!InBlink
  <2> QED
    BY <2>5, <2>6 DEF LedInv
<1>2. CASE Led!CallWrites
  <2>1. /\ ledCall.pc = "write" /\ frame' = Led!With(frame, ledCall.groups, ledCall.copy)
        /\ ledCall' = [ledCall EXCEPT !.pc = "send"]
        /\ UNCHANGED <<lit, strip, blinkCount, oldState, task, sendDue, wanted, mixed>>
    BY <1>2 DEF Led!CallWrites
  <2>2. frame' = [g \in Groups |-> IF g \in ledCall.groups THEN ledCall.copy[g] ELSE frame[g]]
    BY <2>1 DEF Led!With
  <2>3. /\ ledCall'.pc = "send" /\ ledCall'.groups = ledCall.groups /\ ledCall'.cycles = ledCall.cycles
        /\ ledCall.cycles # 0 => ledCall'.old = ledCall.old
    <3>1. CASE ledCall = [pc |-> "write", groups |-> ledCall.groups, copy |-> ledCall.copy, cycles |-> 0]
      <4>1. ledCall' = [pc |-> "send", groups |-> ledCall.groups, copy |-> ledCall.copy, cycles |-> 0]
        BY <2>1, <3>1
      <4> QED
        BY <3>1, <4>1
    <3>2. CASE ledCall = [pc |-> "write", groups |-> ledCall.groups, copy |-> ledCall.copy, old |-> ledCall.old,
                          cycles |-> ledCall.cycles]
      <4>1. ledCall' = [pc |-> "send", groups |-> ledCall.groups, copy |-> ledCall.copy, old |-> ledCall.old,
                        cycles |-> ledCall.cycles]
        BY <2>1, <3>2
      <4> QED
        BY <4>1
    <3> QED
      BY <2>1, <3>1, <3>2 DEF LedInv, LedShape
  <2>4. LedShape'
    BY <2>1, <2>2, <2>3 DEF LedInv, LedShape
  <2>5. ASSUME NEW h \in Groups
        PROVE  FrameOwed(h)' /\ (h \notin mixed' => ChangeOwed(h)')
    BY <2>1, <2>2, <2>3 DEF LedInv, LedShape, FrameOwed, ChangeOwed, TaskIn, Led!InCall, Led!InBlink
  <2> QED
    BY <2>4, <2>5 DEF LedInv
<1>3. CASE Led!CallSends
  <2>1. /\ ledCall.pc = "send" /\ strip' = frame
        /\ IF ledCall.cycles = 0 THEN ledCall'.pc = "ready"
           ELSE ledCall'.pc = "next" /\ ledCall'.groups = ledCall.groups /\ ledCall'.old = ledCall.old
        /\ UNCHANGED <<lit, frame, blinkCount, oldState, task, sendDue, wanted, mixed>>
    BY <1>3 DEF Led!CallSends, Led!Idle
  <2>2. LedShape'
    BY <2>1 DEF LedInv, LedShape
  <2>3. ASSUME NEW h \in Groups
        PROVE  FrameOwed(h)' /\ (h \notin mixed' => ChangeOwed(h)')
    BY <2>1 DEF LedInv, LedShape, FrameOwed, ChangeOwed, TaskIn, Led!InCall, Led!InBlink
  <2> QED
    BY <2>2, <2>3 DEF LedInv
<1>4. CASE Led!KeepOldState
  <2>1. /\ ledCall.pc = "startBlink" /\ oldState' = Led!With(oldState, ledCall.groups, lit)
        /\ ledCall'.pc = "ready"
        /\ UNCHANGED <<lit, frame, strip, blinkCount, task, sendDue, wanted, mixed>>
    BY <1>4 DEF Led!KeepOldState, Led!Idle
  <2>2. oldState' = [g \in Groups |-> IF g \in ledCall.groups THEN lit[g] ELSE oldState[g]]
    BY <2>1 DEF Led!With
  <2>3. LedShape'
    BY <2>1 DEF LedInv, LedShape
  <2>4. ASSUME NEW h \in Groups
        PROVE  FrameOwed(h)' /\ (h \notin mixed' => ChangeOwed(h)')
    BY <2>1, <2>2 DEF LedInv, LedShape, FrameOwed, ChangeOwed, TaskIn, Led!InCall, Led!InBlink
  <2> QED
    BY <2>3, <2>4 DEF LedInv
<1> QED
  BY <1>1, <1>2, <1>3, <1>4

(* The blink task. *)
LEMMA TaskStep ==
  ASSUME LedInv, (\E g \in Groups : Led!TaskSets(g)) \/ Led!TaskWrites \/ Led!TaskSends
  PROVE  LedInv'
<1>1. ASSUME NEW g \in Groups, Led!TaskSets(g)
      PROVE  LedInv'
  <2> DEFINE new == IF blinkCount[g] = 1 THEN oldState[g] ELSE blinkCount[g] % 2 = 1
  <2>1. /\ task.pc = "ready" /\ blinkCount[g] > 0 /\ lit' = [lit EXCEPT ![g] = new]
        /\ task'.pc = "write" /\ task'.group = g /\ task'.copy = lit'[g]
        /\ mixed' = IF Led!InCall(g) THEN mixed \cup {g} ELSE mixed
        /\ UNCHANGED <<frame, strip, blinkCount, oldState, ledCall, sendDue, wanted>>
    BY <1>1 DEF Led!TaskSets
  <2>2. blinkCount[g] = 1 => new = oldState[g]
    OBVIOUS
  <2> HIDE DEF new
  <2>3. LedShape'
    BY <2>1 DEF LedInv, LedShape
  <2>4. ASSUME NEW h \in Groups
        PROVE  FrameOwed(h)' /\ (h \notin mixed' => ChangeOwed(h)')
    BY <2>1, <2>2 DEF LedInv, LedShape, FrameOwed, ChangeOwed, TaskIn, Led!InCall, Led!InBlink
  <2> QED
    BY <2>3, <2>4 DEF LedInv
<1>2. CASE Led!TaskWrites
  <2>1. /\ task.pc = "write" /\ frame' = [frame EXCEPT ![task.group] = task.copy]
        /\ sendDue' = TRUE /\ task'.pc = "ready"
        /\ blinkCount' = [blinkCount EXCEPT ![task.group] = blinkCount[task.group] - 1]
        /\ UNCHANGED <<lit, strip, oldState, ledCall, wanted, mixed>>
    BY <1>2 DEF Led!TaskWrites, Led!Idle
  <2>2. LedShape'
    BY <2>1 DEF LedInv, LedShape
  <2>3. ASSUME NEW h \in Groups
        PROVE  FrameOwed(h)' /\ (h \notin mixed' => ChangeOwed(h)')
    BY <2>1 DEF LedInv, LedShape, FrameOwed, ChangeOwed, TaskIn, Led!InCall, Led!InBlink
  <2> QED
    BY <2>2, <2>3 DEF LedInv
<1>3. CASE Led!TaskSends
  <2>1. /\ strip' = frame /\ sendDue' = FALSE
        /\ UNCHANGED <<lit, frame, blinkCount, oldState, ledCall, task, wanted, mixed>>
    BY <1>3 DEF Led!TaskSends
  <2>2. LedShape'
    BY <2>1 DEF LedInv, LedShape
  <2>3. ASSUME NEW h \in Groups
        PROVE  FrameOwed(h)' /\ (h \notin mixed' => ChangeOwed(h)')
    BY <2>1 DEF LedInv, FrameOwed, ChangeOwed, TaskIn, Led!InCall, Led!InBlink
  <2> QED
    BY <2>2, <2>3 DEF LedInv
<1> QED
  BY <1>1, <1>2, <1>3

LEMMA LedAlways == AllSpec => []LedInv
<1>1. AllInit => LedInv
  <2> SUFFICES ASSUME Led!LedStart
               PROVE  LedInv
    BY DEF AllInit
  <2>1. /\ lit = [g \in Groups |-> FALSE] /\ frame = lit /\ strip = lit /\ wanted = lit
        /\ blinkCount = [g \in Groups |-> 0] /\ ledCall.pc = "ready" /\ task.pc = "ready"
    BY DEF Led!LedStart, Led!Idle
  <2> QED
    BY <2>1 DEF LedInv, LedShape, FrameOwed, ChangeOwed, TaskIn, Led!InCall, Led!InBlink
<1>2. LedInv /\ [AllNext]_allVars => LedInv'
  <2> SUFFICES ASSUME LedInv, [AllNext]_allVars
               PROVE  LedInv'
    OBVIOUS
  <2>1. Led!LedNext \/ UNCHANGED ledVars
    BY DEF AllNext, allVars, GroupRecords, ButtonScan, LedGroups, DailyTimers, FirmwareUpdates, AppStarts
  <2>2. CASE UNCHANGED ledVars
    BY <2>2 DEF ledVars, LedInv, LedShape, FrameOwed, ChangeOwed, TaskIn, Led!InCall, Led!InBlink
  <2> QED
    BY <2>1, <2>2, SetGroupStep, BlinkStep, CallStep, TaskStep DEF Led!LedNext
<1> QED
  BY <1>1, <1>2, PTL DEF AllSpec, allVars

(* A group whose changes did not meet has the state the application asked    *)
(* for last, and the strip shows it, for any groups and counts of blinks.     *)
THEOREM BlinksRestore == AllSpec => []LedsRestored
<1>1. LedInv => LedsRestored
  BY DEF LedInv, FrameOwed, ChangeOwed, LedsRestored, Led!LedsRestored, Led!InCall
<1> QED
  BY <1>1, LedAlways, PTL

-----------------------------------------------------------------------------
(* The types of all                                                        *)

(* What a change under way is to write, or to come back to, is on or off, and *)
(* no blink is asked for more often than the bound.                           *)
LedTyped ==
  /\ Led!LedTypeOK
  /\ ledCall.pc # "ready" => ledCall.groups \subseteq Groups
  /\ ledCall.pc = "write" => \A g \in ledCall.groups : ledCall.copy[g] \in BOOLEAN
  /\ ledCall.pc = "next" => \A g \in ledCall.groups : ledCall.old[g] \in BOOLEAN
  /\ ledCall.pc \in {"write", "send"} /\ ledCall.cycles # 0 =>
       \A g \in ledCall.groups : ledCall.old[g] \in BOOLEAN
  /\ task.pc = "write" => task.copy \in BOOLEAN

LEMMA CallTyped ==
  ASSUME LedInv, LedInv', LedTyped,
         \/ \E g \in Groups : Led!SetGroup(g, lit[g]) \/ Led!SetGroup(g, ~lit[g])
         \/ \E gs \in Led!GroupSets, n \in 1 .. BlinkRoom : Led!BlinkHere(gs, n) \/ Led!BlinkThere(gs, n)
         \/ Led!NextCycle \/ Led!CallWrites \/ Led!CallSends \/ Led!KeepOldState
  PROVE  LedTyped'
<1> USE DEF LedTyped, Led!LedTypeOK, Led!States
<1>1. ASSUME NEW g \in Groups, NEW on \in BOOLEAN, Led!SetGroup(g, on)
      PROVE  LedTyped'
  <2>1. /\ ledCall.pc = "ready" /\ lit' = [lit EXCEPT ![g] = on]
        /\ wanted' = IF Led!InBlink(g) THEN wanted ELSE [wanted EXCEPT ![g] = on]
        /\ mixed' = IF Led!InBlink(g) THEN mixed \cup {g} ELSE mixed \ {g}
        /\ ledCall' = [pc |-> "write", groups |-> {g}, copy |-> [h \in {g} |-> lit'[h]], cycles |-> 0]
        /\ UNCHANGED <<frame, strip, blinkCount, oldState, task, sendDue>>
    BY <1>1 DEF Led!SetGroup, Led!Kept
  <2>2. lit' \in [Groups -> BOOLEAN] /\ wanted' \in [Groups -> BOOLEAN] /\ mixed' \subseteq Groups
    BY <2>1
  <2> QED
    BY <2>1, <2>2
<1>2. ASSUME NEW gs \in Led!GroupSets, NEW n \in 1 .. BlinkRoom, Led!BlinkHere(gs, n)
      PROVE  LedTyped'
  <2>1. gs \subseteq Groups
    BY DEF Led!GroupSets
  <2>2. /\ ledCall' = [pc |-> "next", groups |-> gs, old |-> [g \in gs |-> lit[g]], cycles |-> 2 * n]
        /\ mixed' = mixed \cup {g \in gs : Led!InBlink(g)}
        /\ UNCHANGED <<lit, frame, strip, blinkCount, oldState, task, sendDue, wanted>>
    BY <1>2 DEF Led!BlinkHere, Led!Kept
  <2> QED
    BY <2>1, <2>2
<1>3. ASSUME NEW gs \in Led!GroupSets, NEW n \in 1 .. BlinkRoom, Led!BlinkThere(gs, n)
      PROVE  LedTyped'
  <2>1. gs \subseteq Groups /\ 2 * n + 1 \in 0 .. 2 * BlinkRoom + 1
    BY LedAssumption DEF Led!GroupSets
  <2>2. /\ blinkCount' = [g \in Groups |-> IF g \in gs THEN 2 * n + 1 ELSE blinkCount[g]]
        /\ ledCall'.pc = "startBlink" /\ ledCall'.groups = gs
        /\ mixed' = mixed \cup {g \in gs : Led!InBlink(g)}
        /\ UNCHANGED <<lit, frame, strip, oldState, task, sendDue, wanted>>
    BY <1>3, <2>1 DEF Led!BlinkThere, Led!With, Led!Same
  <2>3. blinkCount' \in [Groups -> 0 .. 2 * BlinkRoom + 1]
    BY <2>1, <2>2
  <2> QED
    BY <2>1, <2>2, <2>3
<1>4. CASE Led!NextCycle
  <2> DEFINE gs == ledCall.groups
             on == Led!BlinkOn(gs, ledCall.cycles)
             new == IF ledCall.cycles > 0 THEN Led!Same(on) ELSE ledCall.old
  <2>1. /\ ledCall.pc = "next" /\ lit' = [g \in Groups |-> IF g \in gs THEN new[g] ELSE lit[g]]
        /\ ledCall' = IF ledCall.cycles > 0
                      THEN [pc |-> "write", groups |-> gs, copy |-> [g \in gs |-> lit'[g]], old |-> ledCall.old,
                            cycles |-> ledCall.cycles]
                      ELSE [pc |-> "write", groups |-> gs, copy |-> [g \in gs |-> lit'[g]], cycles |-> 0]
        /\ mixed' = mixed \cup {g \in gs : Led!InBlink(g)}
        /\ UNCHANGED <<frame, strip, blinkCount, oldState, task, sendDue, wanted>>
    BY <1>4 DEF Led!NextCycle, Led!With, Led!Kept
  <2>2. on \in BOOLEAN
    BY DEF Led!BlinkOn
  <2>3. \A g \in Groups : g \in gs => new[g] \in BOOLEAN
    <3> HIDE DEF on
    <3> QED
      BY <2>1, <2>2 DEF Led!Same
  <2> HIDE DEF on, new
  <2>4. lit' \in [Groups -> BOOLEAN]
    BY <2>1, <2>3
  <2>5. gs \subseteq Groups
    BY <2>1
  <2> QED
    BY <2>1, <2>4, <2>5
<1>5. CASE Led!CallWrites
  <2>1. /\ ledCall.pc = "write"
        /\ frame' = [g \in Groups |-> IF g \in ledCall.groups THEN ledCall.copy[g] ELSE frame[g]]
        /\ ledCall' = [ledCall EXCEPT !.pc = "send"]
        /\ UNCHANGED <<lit, strip, blinkCount, oldState, task, sendDue, wanted, mixed>>
    BY <1>5 DEF Led!CallWrites, Led!With
  <2>2. /\ ledCall'.pc = "send" /\ ledCall'.groups = ledCall.groups /\ ledCall'.cycles = ledCall.cycles
        /\ ledCall.cycles # 0 => ledCall'.old = ledCall.old
    <3>1. CASE ledCall = [pc |-> "write", groups |-> ledCall.groups, copy |-> ledCall.copy, cycles |-> 0]
      <4>1. ledCall' = [pc |-> "send", groups |-> ledCall.groups, copy |-> ledCall.copy, cycles |-> 0]
        BY <2>1, <3>1
      <4> QED
        BY <3>1, <4>1
    <3>2. CASE ledCall = [pc |-> "write", groups |-> ledCall.groups, copy |-> ledCall.copy, old |-> ledCall.old,
                          cycles |-> ledCall.cycles]
      <4>1. ledCall' = [pc |-> "send", groups |-> ledCall.groups, copy |-> ledCall.copy, old |-> ledCall.old,
                        cycles |-> ledCall.cycles]
        BY <2>1, <3>2
      <4> QED
        BY <4>1
    <3> QED
      BY <2>1, <3>1, <3>2 DEF LedInv, LedShape
  <2>3. frame' \in [Groups -> BOOLEAN]
    BY <2>1
  <2> QED
    BY <2>1, <2>2, <2>3
<1>6. CASE Led!CallSends
  <2>1. /\ ledCall.pc = "send" /\ strip' = frame
        /\ IF ledCall.cycles = 0 THEN ledCall'.pc = "ready"
           ELSE ledCall'.pc = "next" /\ ledCall'.groups = ledCall.groups /\ ledCall'.old = ledCall.old
        /\ UNCHANGED <<lit, frame, blinkCount, oldState, task, sendDue, wanted, mixed>>
    BY <1>6 DEF Led!CallSends, Led!Idle
  <2> QED
    BY <2>1
<1>7. CASE Led!KeepOldState
  <2>1. /\ oldState' = [g \in Groups |-> IF g \in ledCall.groups THEN lit[g] ELSE oldState[g]]
        /\ ledCall'.pc = "ready"
        /\ UNCHANGED <<lit, frame, strip, blinkCount, task, sendDue, wanted, mixed>>
    BY <1>7 DEF Led!KeepOldState, Led!Idle, Led!With
  <2>2. oldState' \in [Groups -> BOOLEAN]
    BY <2>1
  <2> QED
    BY <2>1, <2>2
<1>8. \A g \in Groups : lit[g] \in BOOLEAN /\ (~lit[g]) \in BOOLEAN
  OBVIOUS
<1> QED
  BY <1>1, <1>2, <1>3, <1>4, <1>5, <1>6, <1>7, <1>8

LEMMA TaskTyped ==
  ASSUME LedInv, LedTyped, (\E g \in Groups : Led!TaskSets(g)) \/ Led!TaskWrites \/ Led!TaskSends
  PROVE  LedTyped'
<1> USE DEF LedTyped, Led!LedTypeOK, Led!States
<1>1. ASSUME NEW g \in Groups, Led!TaskSets(g)
      PROVE  LedTyped'
  <2> DEFINE odd == (blinkCount[g] % 2 = 1)
             new == IF blinkCount[g] = 1 THEN oldState[g] ELSE odd
  <2>1. /\ lit' = [lit EXCEPT ![g] = new]
        /\ task'.pc = "write" /\ task'.group = g /\ task'.copy = lit'[g]
        /\ mixed' = IF Led!InCall(g) THEN mixed \cup {g} ELSE mixed
        /\ UNCHANGED <<frame, strip, blinkCount, oldState, ledCall, sendDue, wanted>>
    BY <1>1 DEF Led!TaskSets
  <2>2. odd \in BOOLEAN
    OBVIOUS
  <2> HIDE DEF odd
  <2>3. new \in BOOLEAN
    BY <2>2
  <2> HIDE DEF new
  <2>4. lit' \in [Groups -> BOOLEAN] /\ lit'[g] \in BOOLEAN
    BY <2>1, <2>3
  <2> QED
    BY <2>1, <2>4
<1>2. CASE Led!TaskWrites
  <2>1. /\ task.pc = "write" /\ frame' = [frame EXCEPT ![task.group] = task.copy]
        /\ sendDue' = TRUE /\ task'.pc = "ready"
        /\ blinkCount' = [blinkCount EXCEPT ![task.group] = blinkCount[task.group] - 1]
        /\ UNCHANGED <<lit, strip, oldState, ledCall, wanted, mixed>>
    BY <1>2 DEF Led!TaskWrites, Led!Idle
  <2>2. blinkCount' \in [Groups -> 0 .. 2 * BlinkRoom + 1]
    BY <2>1, LedAssumption DEF LedInv, LedShape
  <2>3. frame' \in [Groups -> BOOLEAN]
    BY <2>1
  <2> QED
    BY <2>1, <2>2, <2>3
<1>3. CASE Led!TaskSends
  BY <1>3 DEF Led!TaskSends
<1> QED
  BY <1>1, <1>2, <1>3

LEMMA LedTypeAlways == AllSpec => []Led!LedTypeOK
<1>1. AllInit => LedTyped
  <2> SUFFICES ASSUME Led!LedStart
               PROVE  LedTyped
    BY DEF AllInit
  <2>1. blinkCount \in [Groups -> 0 .. 2 * BlinkRoom + 1]
    BY LedAssumption DEF Led!LedStart
  <2> QED
    BY <2>1 DEF Led!LedStart, Led!Idle, LedTyped, Led!LedTypeOK, Led!States
<1>2. LedInv /\ LedInv' /\ LedTyped /\ [AllNext]_allVars => LedTyped'
  <2> SUFFICES ASSUME LedInv, LedInv', LedTyped, [AllNext]_allVars
               PROVE  LedTyped'
    OBVIOUS
  <2>1. Led!LedNext \/ UNCHANGED ledVars
    BY DEF AllNext, allVars, GroupRecords, ButtonScan, LedGroups, DailyTimers, FirmwareUpdates, AppStarts
  <2>2. CASE UNCHANGED ledVars
    BY <2>2 DEF ledVars, LedTyped, Led!LedTypeOK
  <2> QED
    BY <2>1, <2>2, CallTyped, TaskTyped DEF Led!LedNext
<1>3. LedTyped => Led!LedTypeOK
  BY DEF LedTyped
<1> QED
  BY <1>1, <1>2, <1>3, LedAlways, PTL DEF AllSpec, allVars

LEMMA GroupAlways == AllSpec => []GroupInv
<1>1. AllInit => GroupInv
  BY GroupInvStarts DEF AllInit
<1>2. GroupInv /\ [AllNext]_allVars => GroupInv'
  <2>1. [AllNext]_allVars => [GroupNext]_groupVars
    BY DEF AllNext, allVars, GroupRecords, ButtonScan, LedGroups, DailyTimers, FirmwareUpdates, AppStarts
  <2> QED
    BY <2>1, GroupInvKept
<1> QED
  BY <1>1, <1>2, PTL DEF AllSpec, allVars

(* The types of the group records, buttons, LEDs, schedules, updates and of   *)
(* the application, at any bounds: the uint16_t counts of the scans and the   *)
(* blinks stay within theirs, and a queue holds no more than it has room for. *)
THEOREM ApplianceTyped == AllSpec => []TypesOK
<1>1. GroupInv /\ UpdateInv /\ AppInv /\ ScheduleInv /\ HoldInv /\ Led!LedTypeOK => TypesOK
  BY DEF GroupInv, UpdateInv, AppInv, ScheduleInv, HoldInv, TypesOK
<1> QED
  BY <1>1, GroupAlways, UpdateAlways, AppAlways, ScheduleAlways, HoldAlways, LedTypeAlways, PTL
=============================================================================
