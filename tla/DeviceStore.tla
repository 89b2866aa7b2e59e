---------------------------- MODULE DeviceStore ----------------------------
(***************************************************************************)
(* The records of the paired devices (components/sdk/dao/IOT_DaoDeviceMgmt *)
(* .c): an identity, a common record and a mesh key in three namespaces of *)
(* the storage, and the state of the elements in a fourth, read and        *)
(* written through the cache.                                              *)
(*                                                                         *)
(* A call is a sequence of calls of the cache and the storage with no lock *)
(* of its own: an update reads the state of the whole device, changes an   *)
(* element and writes the whole state back.  A call of the storage is one  *)
(* action (AtomicStore) that waits for the requests queued before it; a    *)
(* region under the mutex of the cache is another.  The cache is written   *)
(* through, and may drop an entry at any time to make room (Cache).        *)
(***************************************************************************)
EXTENDS Naturals, Sequences

CONSTANTS
  Tasks,      \* the tasks that call it
  Devices,    \* the devices (eid)
  Writers,    \* Writers[d]: the tasks that write or remove data of d
  Sharings,   \* what readers may be
  Resetters,  \* the tasks that reset to factory settings
  Uses,       \* the calls made
  Elems,      \* the elements of a device
  Values,     \* what their attribute may be
  MaxElems,   \* how many elements fit into 65535 bytes
  QueueSize,  \* the length of the queue of the storage
  MaxCalls,   \* bound: MaxCalls[t]: the calls of task t
  MaxStarts,  \* bound: restarts of the device
  DaoFaults,  \* TRUE: a storage call may fail
  MemFaults,  \* TRUE: an allocation may fail
  Absent,     \* no record
  NoData      \* an entry of the cache whose copy could not be allocated

ASSUME DeviceAssumption ==
  /\ Writers \in [Devices -> SUBSET Tasks] /\ Sharings \subseteq [Devices -> SUBSET Tasks]
  /\ Resetters \subseteq Tasks
  /\ MaxElems \in Nat /\ QueueSize \in Nat /\ MaxStarts \in Nat
  /\ MaxCalls \in [Tasks -> Nat]
  /\ DaoFaults \in BOOLEAN /\ MemFaults \in BOOLEAN

Present == "present"   \* a record whose contents do not matter
Unknown == "unknown"   \* nothing was acknowledged
Plain == {"identity", "common", "devkey"}
Kinds == Plain \cup {"elems"}

VARIABLES
  readers,   \* readers[d]: the tasks that get the state of d, whoever they are
  stored,    \* stored[d]: the records of d in the storage, by kind
  queue,     \* the asynchronous requests that dao_task has not run
  cached,    \* cached[d]: the entries of d in the cache, the one found first
  pc,        \* pc[t]: where task t is in its call
  op,        \* op[t]: the locals of that call
  calls,     \* calls[t]: how many calls it has made
  starts,    \* how many times the device has restarted
  acked,     \* history: acked[d][e]: the value last acknowledged, or Unknown
  gone,      \* history: gone[d]: removed, and not written since
  before     \* history: before[d]: its records when its removal began, or Absent

vars == <<readers, stored, queue, cached, pc, op, calls, starts, acked, gone,
          before>>
histories == <<acked, gone, before>>

(* The states of the elements of a device, in the order they were added.   *)
States == UNION {[1 .. n -> [id : Elems, val : Values]] : n \in 1 .. MaxElems}

(* No record is no state. *)
ASSUME RecordAssumption == Absent \notin States

NoOp == [call |-> "none"]
NoAck == [e \in Elems |-> Unknown]

(* One task writes the device; one task alone uses it. *)
OneWriter(d) == \E t \in Tasks : Writers[d] = {t}
Own(d) == \E t \in Tasks : Writers[d] \cup readers[d] = {t}

Init ==
  /\ readers \in Sharings
  /\ stored \in [Devices -> {[k \in Kinds |-> Absent]} \cup
                               {[k \in Kinds |-> IF k = "elems" THEN s ELSE Present] :
                                  s \in States}]
  /\ queue = <<>>
  /\ cached = [d \in Devices |-> <<>>]
  /\ pc = [t \in Tasks |-> "idle"]
  /\ op = [t \in Tasks |-> NoOp]
  /\ calls = [t \in Tasks |-> 0] /\ starts = 0
  /\ acked = [d \in Devices |-> NoAck]
  /\ gone = [d \in Devices |-> FALSE]
  /\ before = [d \in Devices |-> Absent]

-----------------------------------------------------------------------------
Starts(t, call) ==
  /\ pc[t] = "idle" /\ call \in Uses
  /\ calls[t] < MaxCalls[t]
  /\ calls' = [calls EXCEPT ![t] = @ + 1]

Goto(t, place, locals) ==
  /\ pc' = [pc EXCEPT ![t] = place]
  /\ op' = [op EXCEPT ![t] = locals]

Return(t) == Goto(t, "idle", NoOp)

(* A write of d begins. *)
Writes(d) ==
  /\ gone' = [gone EXCEPT ![d] = FALSE]
  /\ before' = [before EXCEPT ![d] = Absent]

Resetting == \E t \in Tasks : pc[t] = "reset"

(* dao_task reaches a blocking request after all that were queued.         *)
Reached == queue = <<>>

With(d, kind, v) == [stored EXCEPT ![d][kind] = v]

(* What a storage call that writes may leave: done, or failed before or    *)
(* after it had written.                                                   *)
Ends(new) ==
  {[ok |-> TRUE, stored |-> new]}
    \cup {[ok |-> FALSE, stored |-> s] : s \in IF DaoFaults THEN {stored, new} ELSE {}}

-----------------------------------------------------------------------------
(* The state of the elements. *)

At(s, e) == {i \in DOMAIN s : s[i].id = e}
Has(s, e) == At(s, e) # {}
First(s, e) == CHOOSE i \in At(s, e) : \A j \in At(s, e) : i <= j
ValueOf(s, e) == s[First(s, e)].val

(* Mutant: the search stops at the first element whatever its number. *)
UpdatedUnmatched(s, e, v) == IF Has(s, e) THEN [s EXCEPT ![1].val = v] ELSE s

(* The first element of that number takes the value; one that is not there *)
(* is skipped.                                                             *)
Updated(s, e, v) == IF Has(s, e) THEN [s EXCEPT ![First(s, e)].val = v] ELSE s

(* An element is added at the end, also when it is already there.          *)
Added(s, e, v) == Append(s, [id |-> e, val |-> v])

Changed(o) == IF o.call = "add" THEN Added(o.state, o.e, o.v) ELSE Updated(o.state, o.e, o.v)

(* The call has the state it asked for. *)
Have(t, o) == IF o.call = "get" THEN Return(t) ELSE Goto(t, "put", o)

(* A call reads the state of the elements with IOT_CacheGet.  It fails if   *)
(* there is no memory for the copy, or no data: the entry is then of length *)
(* 0, or never had a type and is copied from NULL as a number, which is a   *)
(* Restart.                                                                 *)
CacheGet(t, call, d, e, v) ==
  /\ Starts(t, call)
  /\ LET o == [call |-> call, d |-> d, e |-> e, v |-> v, state |-> <<>>]
         hit == cached[d] # <<>>
         data == IF hit THEN Head(cached[d]) ELSE NoData
     IN \/ ~hit /\ Goto(t, "load", o)
        \/ hit /\ data # NoData /\ Have(t, [o EXCEPT !.state = data])
        \/ hit /\ (data = NoData \/ MemFaults) /\ Return(t)
  /\ UNCHANGED <<readers, stored, queue, cached, starts, acked>>

(* Also IOT_DaoDeviceGetElementType, which looks at one element of it. *)
GetDeviceElemsState(t, d) ==
  /\ t \in readers[d]
  /\ CacheGet(t, "get", d, Absent, Absent)
  /\ UNCHANGED <<gone, before>>

AddElementInfo(t, d, e, v) ==
  /\ t \in Writers[d]
  /\ CacheGet(t, "add", d, e, v)
  /\ Writes(d)

(* Also UpdateElementStateAsync, which calls it. *)
UpdateElementState(t, d, e, v) ==
  /\ t \in Writers[d]
  /\ CacheGet(t, "update", d, e, v)
  /\ Writes(d)

(* The storage is read; only an added element may be the first.            *)
Load(t) ==
  /\ pc[t] = "load" /\ Reached
  /\ LET s == stored[op[t].d].elems
     IN \/ s # Absent /\ Goto(t, "fill", [op[t] EXCEPT !.state = s])
        \/ s = Absent /\ op[t].call = "add" /\ Have(t, op[t])
        \/ ((s = Absent /\ op[t].call # "add") \/ DaoFaults) /\ Return(t)
  /\ UNCHANGED <<readers, stored, queue, cached, calls, starts, histories>>

(* What was loaded becomes the entry found first, if there is room.  The    *)
(* call then needs memory for a copy of its own.                            *)
Fill(t) ==
  /\ pc[t] = "fill"
  /\ \/ /\ cached' = [cached EXCEPT ![op[t].d] = <<op[t].state>> \o @]
        /\ Have(t, op[t]) \/ (MemFaults /\ Return(t))
     \/ MemFaults /\ UNCHANGED cached /\ Have(t, op[t])
  /\ UNCHANGED <<readers, stored, queue, calls, starts, histories>>

(* The entry found first, or a new one, takes the value.                   *)
Replaced(d, s) == [cached EXCEPT ![d] = <<s>> \o (IF @ = <<>> THEN @ ELSE Tail(@))]

(* Mutant: the length of the new state is not checked. *)
PutUnbounded(t) ==
  /\ pc[t] = "put"
  /\ LET o == op[t]
     IN /\ Goto(t, "write", [o EXCEPT !.state = Changed(o)])
        /\ cached' = Replaced(o.d, Changed(o))
        /\ acked' = [acked EXCEPT ![o.d][o.e] = Unknown]
  /\ UNCHANGED <<readers, stored, queue, calls, starts, gone, before>>

(* The new state is made and IOT_CacheSet puts it into the cache.          *)
Put(t) ==
  /\ pc[t] = "put"
  /\ LET o == op[t]
         new == Changed(o)
     IN /\ \/ /\ Len(new) > MaxElems \/ MemFaults
              /\ Return(t) /\ UNCHANGED cached
           \/ /\ Len(new) <= MaxElems /\ MemFaults
              /\ Return(t) /\ cached' = Replaced(o.d, NoData)
           \/ /\ Len(new) <= MaxElems
              /\ Goto(t, "write", [o EXCEPT !.state = new])
              /\ cached' = Replaced(o.d, new)
        /\ acked' = [acked EXCEPT ![o.d][o.e] = Unknown]
  /\ UNCHANGED <<readers, stored, queue, calls, starts, gone, before>>

(* The new state is written through.  An update that is acknowledged, was  *)
(* not skipped and did not run into a factory reset is remembered.         *)
Write(t) ==
  /\ pc[t] = "write" /\ Reached
  /\ LET o == op[t]
     IN \E end \in Ends(With(o.d, "elems", o.state)) :
          /\ stored' = end.stored
          /\ acked' = [acked EXCEPT ![o.d][o.e] =
                         IF end.ok /\ o.call = "update" /\ Has(o.state, o.e) /\ ~Resetting
                         THEN o.v ELSE @]
  /\ Return(t)
  /\ UNCHANGED <<readers, queue, cached, calls, starts, gone, before>>

-----------------------------------------------------------------------------
(* IOT_DaoDeviceSetIdentityInfo, SetCommonInfo and SetMeshKey. *)
Set(t, d, kind) ==
  /\ Starts(t, "set") /\ t \in Writers[d] /\ Reached
  /\ \E end \in Ends(With(d, kind, Present)) : stored' = end.stored
  /\ Writes(d)
  /\ UNCHANGED <<readers, queue, cached, pc, op, starts, acked>>

(* A request is queued, or refused: the queue stays full or there is no    *)
(* memory for it.                                                          *)
Post(d, kind, v) ==
  \/ Len(queue) < QueueSize /\ queue' = Append(queue, [d |-> d, kind |-> kind, val |-> v])
  \/ (Len(queue) = QueueSize \/ MemFaults) /\ UNCHANGED queue

(* The same, asynchronously. *)
SetAsync(t, d, kind) ==
  /\ Starts(t, "setAsync") /\ t \in Writers[d]
  /\ Post(d, kind, Present)
  /\ Writes(d)
  /\ UNCHANGED <<readers, stored, cached, pc, op, starts, acked>>

(* dao_task runs the next asynchronous request. *)
RunQueued ==
  /\ queue # <<>>
  /\ \E end \in Ends(With(Head(queue).d, Head(queue).kind, Head(queue).val)) :
       stored' = end.stored
  /\ queue' = Tail(queue)
  /\ UNCHANGED <<readers, cached, pc, op, calls, starts, histories>>

-----------------------------------------------------------------------------
(* Removal. *)

(* Mutant: the identity goes last. *)
PlanFromKey(what) ==
  IF what = "all" THEN <<"devkey", "common", "invalidate", "elems", "identity">>
  ELSE IF what = "elems" THEN <<"invalidate", "elems">> ELSE <<what>>

(* The steps that remove a kind of data, or all.                           *)
Plan(what) ==
  IF what = "all" THEN <<"identity", "common", "invalidate", "elems", "devkey">>
  ELSE IF what = "elems" THEN <<"invalidate", "elems">> ELSE <<what>>

(* IOT_DaoDeviceRemoveData, IOT_DaoDeviceRemoveDevice and                  *)
(* IOT_DaoDeviceRemoveDataAsync begin.                                     *)
Remove(t, call, d, what) ==
  /\ Starts(t, call) /\ t \in Writers[d]
  /\ Goto(t, "remove", [call |-> call, d |-> d, what |-> what, plan |-> Plan(what)])
  /\ before' = [before EXCEPT ![d] = IF call = "remove" /\ what = "all" /\ queue = <<>>
                                       /\ ~Resetting
                                     THEN stored[d] ELSE Absent]
  /\ acked' = IF what \in {"all", "elems"} THEN [acked EXCEPT ![d] = NoAck] ELSE acked
  /\ UNCHANGED <<readers, stored, queue, cached, starts, gone>>

Step(t, name) == pc[t] = "remove" /\ op[t].plan # <<>> /\ Head(op[t].plan) = name

NextStep(t) == Goto(t, "remove", [op[t] EXCEPT !.plan = Tail(@)])

(* IOT_CacheInvalidate drops the entry that is found. *)
Invalidate(t) ==
  /\ Step(t, "invalidate")
  /\ cached' = [cached EXCEPT ![op[t].d] = IF @ = <<>> THEN @ ELSE Tail(@)]
  /\ NextStep(t)
  /\ UNCHANGED <<readers, stored, queue, calls, starts, histories>>

(* Mutant: the removal goes on after an error. *)
RemoveKindUnchecked(t) ==
  /\ op[t].call = "remove" /\ Reached
  /\ \E kind \in Kinds :
       /\ Step(t, kind)
       /\ \E end \in Ends(With(op[t].d, kind, Absent)) : stored' = end.stored
  /\ NextStep(t)
  /\ UNCHANGED <<readers, queue, cached, calls, starts, histories>>

(* IOT_DaoStorageRemoveByKey; the removal ends at the first error. *)
RemoveKind(t) ==
  /\ op[t].call = "remove" /\ Reached
  /\ \E kind \in Kinds :
       /\ Step(t, kind)
       /\ \E end \in Ends(With(op[t].d, kind, Absent)) :
            /\ stored' = end.stored
            /\ IF end.ok THEN NextStep(t) ELSE Return(t)
  /\ UNCHANGED <<readers, queue, cached, calls, starts, histories>>

(* IOT_DaoStorageRemoveByKeyAsync, whose answer nobody looks at. *)
PostKind(t) ==
  /\ op[t].call = "removeAsync"
  /\ \E kind \in Kinds : Step(t, kind) /\ Post(op[t].d, kind, Absent)
  /\ NextStep(t)
  /\ UNCHANGED <<readers, stored, cached, calls, starts, histories>>

(* Every step is done: IOT_OK. *)
Removed(t) ==
  /\ pc[t] = "remove" /\ op[t].plan = <<>>
  /\ gone' = IF op[t].call = "remove" /\ op[t].what = "all"
             THEN [gone EXCEPT ![op[t].d] = TRUE] ELSE gone
  /\ Return(t)
  /\ UNCHANGED <<readers, stored, queue, cached, calls, starts, acked, before>>

-----------------------------------------------------------------------------
(* IOT_DaoDeviceFactoryReset: all four namespaces, whatever fails.  The    *)
(* flush at its end finds nothing to write.                                *)
FactoryReset(t) ==
  /\ Starts(t, "reset") /\ t \in Resetters
  /\ Goto(t, "reset", [call |-> "reset", plan |-> <<"identity", "common", "elems", "devkey">>])
  /\ acked' = [d \in Devices |-> NoAck]
  /\ before' = [d \in Devices |-> Absent]
  /\ UNCHANGED <<readers, stored, queue, cached, starts, gone>>

ResetKind(t) ==
  /\ pc[t] = "reset" /\ op[t].plan # <<>> /\ Reached
  /\ \E end \in Ends([d \in Devices |-> [stored[d] EXCEPT ![Head(op[t].plan)] = Absent]]) :
       stored' = end.stored
  /\ Goto(t, "reset", [op[t] EXCEPT !.plan = Tail(@)])
  /\ UNCHANGED <<readers, queue, cached, calls, starts, histories>>

ResetEnds(t) ==
  /\ pc[t] = "reset" /\ op[t].plan = <<>>
  /\ Return(t)
  /\ UNCHANGED <<readers, stored, queue, cached, calls, starts, histories>>

(* IOT_DaoDeviceInvalidateCache.  IOT_DaoDeviceFlushCache changes nothing. *)
InvalidateCache(t) ==
  /\ Starts(t, "invalidate")
  /\ cached' = [d \in Devices |-> <<>>]
  /\ UNCHANGED <<readers, stored, queue, pc, op, starts, histories>>

(* The cache makes room. *)
Evict(d) ==
  /\ \E i \in DOMAIN cached[d] :
       cached' = [cached EXCEPT ![d] = SubSeq(@, 1, i - 1) \o SubSeq(@, i + 1, Len(@))]
  /\ UNCHANGED <<readers, stored, queue, pc, op, calls, starts, histories>>

(* Power loss, a reboot or a crash: what was not stored is lost. *)
Restart ==
  /\ starts < MaxStarts
  /\ starts' = starts + 1
  /\ queue' = <<>>
  /\ cached' = [d \in Devices |-> <<>>]
  /\ pc' = [t \in Tasks |-> "idle"]
  /\ op' = [t \in Tasks |-> NoOp]
  /\ UNCHANGED <<readers, stored, calls, histories>>

(* Every task has made its calls: the bound, not a deadlock. *)
Finished ==
  /\ \A t \in Tasks : pc[t] = "idle" /\ calls[t] = MaxCalls[t]
  /\ UNCHANGED vars

-----------------------------------------------------------------------------
Next ==
  \/ \E t \in Tasks, d \in Devices :
       \/ GetDeviceElemsState(t, d)
       \/ \E e \in Elems, v \in Values :
            AddElementInfo(t, d, e, v) \/ UpdateElementState(t, d, e, v)
       \/ \E kind \in Plain : Set(t, d, kind) \/ SetAsync(t, d, kind)
       \/ \E call \in {"remove", "removeAsync"}, what \in Kinds \cup {"all"} :
            Remove(t, call, d, what)
  \/ \E t \in Tasks :
       \/ Load(t) \/ Fill(t) \/ Put(t) \/ Write(t)
       \/ Invalidate(t) \/ RemoveKind(t) \/ PostKind(t) \/ Removed(t)
       \/ FactoryReset(t) \/ ResetKind(t) \/ ResetEnds(t)
       \/ InvalidateCache(t)
  \/ RunQueued
  \/ \E d \in Devices : Evict(d)
  \/ Restart
  \/ Finished

Spec == Init /\ [][Next]_vars

-----------------------------------------------------------------------------
(* Properties *)

(* Every variable holds a value of its type; a state that is stored or     *)
(* cached fits into its 65535 bytes.                                       *)
TypeOK ==
  /\ \A d \in Devices :
       /\ \A k \in Plain : stored[d][k] \in {Present, Absent}
       /\ stored[d].elems \in States \cup {Absent}
       /\ \A i \in DOMAIN cached[d] : cached[d][i] \in States \cup {NoData}
  /\ Len(queue) <= QueueSize
  /\ \A t \in Tasks : pc[t] \in {"idle", "load", "fill", "put", "write", "remove", "reset"}

(* UpdateElementState: the value of an element that was updated last stays *)
(* in the storage, and in the copy that the next update will start from,   *)
(* whichever other elements are updated or added, whether or not those     *)
(* calls fail, and across restarts, as long as one task uses the device.   *)
UpdatesKept ==
  \A d \in {x \in Devices : Own(x)}, e \in Elems :
    acked[d][e] # Unknown =>
      /\ stored[d].elems # Absent /\ Has(stored[d].elems, e)
      /\ ValueOf(stored[d].elems, e) = acked[d][e]
      /\ \A i \in DOMAIN cached[d] :
           cached[d][i] # NoData => /\ Has(cached[d][i], e)
                                    /\ ValueOf(cached[d][i], e) = acked[d][e]

(* A device that has one writer and whose removal answered IOT_OK has left *)
(* nothing in the storage, whatever others read of it meanwhile.           *)
RemovedLeavesNothing ==
  \A d \in Devices :
    OneWriter(d) /\ gone[d] => \A k \in Kinds : stored[d][k] = Absent

(* IOT_DaoDeviceRemoveDevice: a removal that fails or is cut off half way  *)
(* has removed the identity first, so that a device that can still be      *)
(* looked up still has all it had.                                         *)
RemovesIdentityFirst ==
  \A d \in Devices :
    OneWriter(d) /\ before[d] # Absent /\ stored[d].identity # Absent
      => stored[d] = before[d]
=============================================================================
