------------------------- MODULE DeviceStoreProofs -------------------------
(***************************************************************************)
(* What the device records guarantee for every number of tasks, devices,   *)
(* elements and calls: type correctness, and for a device with one writer  *)
(* that a removal takes the identity first and, once it answered IOT_OK,   *)
(* leaves nothing; for a device that one task uses, that an acknowledged   *)
(* update stays.                                                           *)
(***************************************************************************)
EXTENDS DeviceStore, FiniteSetTheorems, SequenceTheorems, WellFoundedInduction, TLAPS

-----------------------------------------------------------------------------
(* The inductive invariant *)

Pairs == [id : Elems, val : Values]
Contents == States \cup {Present, Absent}
Requests == [d : Devices, kind : Plain, val : {Present, Absent}]
              \cup [d : Devices, kind : {"elems"}, val : {Absent}]
StateOps == [call : {"get", "add", "update"}, d : Devices, e : Elems \cup {Absent},
             v : Values \cup {Absent}, state : States \cup {<<>>}]
RemoveOps == [call : {"remove", "removeAsync"}, d : Devices, what : Kinds \cup {"all"},
              plan : Seq(Kinds \cup {"invalidate"})]
ResetOps == [call : {"reset"}, plan : Seq(Kinds)]
Places == {"idle", "load", "fill", "put", "write", "remove", "reset"}

(* The locals of task t fit the place where it is; only a writer of a      *)
(* device gets to where it changes the device.                             *)
LocalsOK(t) ==
  /\ pc[t] \in {"load", "fill", "put", "write"} =>
       /\ op[t] \in StateOps
       /\ op[t].call # "get" => /\ t \in Writers[op[t].d]
                                /\ op[t].e \in Elems /\ op[t].v \in Values
  /\ pc[t] \in {"put", "write"} => op[t].call # "get"
  /\ pc[t] \in {"fill", "write"} => op[t].state \in States
  /\ pc[t] = "put" /\ op[t].call = "update" => op[t].state \in States
  /\ pc[t] = "remove" => op[t] \in RemoveOps /\ t \in Writers[op[t].d]
  /\ pc[t] = "reset" => op[t] \in ResetOps

StoredOK ==
  /\ stored \in [Devices -> [Kinds -> Contents]]
  /\ \A d \in Devices : /\ \A k \in Plain : stored[d][k] \in {Present, Absent}
                        /\ stored[d]["elems"] \in States \cup {Absent}

TypeInv ==
  /\ StoredOK
  /\ queue \in Seq(Requests) /\ Len(queue) <= QueueSize
  /\ cached \in [Devices -> Seq(States \cup {NoData})]
  /\ pc \in [Tasks -> Places]
  /\ op \in [Tasks -> StateOps \cup RemoveOps \cup ResetOps \cup {NoOp}]
  /\ \A t \in Tasks : LocalsOK(t)
  /\ gone \in [Devices -> BOOLEAN]
  /\ before \in [Devices -> [Kinds -> Contents] \cup {Absent}]

(* Task t is removing all of d, blocking. *)
Removing(t, d) ==
  pc[t] = "remove" /\ op[t].call = "remove" /\ op[t].what = "all" /\ op[t].d = d

InPlan(t, k) == \E i \in DOMAIN op[t].plan : op[t].plan[i] = k

(* No call under way and no request in the queue will write a record of d. *)
NotWritten(d) ==
  /\ \A t \in Tasks : pc[t] \in {"load", "fill", "put", "write"} /\ op[t].d = d
                        => op[t].call = "get"
  /\ \A i \in DOMAIN queue : queue[i].d = d => queue[i].val = Absent

(* What a removal has done so far: the kinds that its plan has behind it   *)
(* are gone, and once the first is, nothing of d is written any more.      *)
Underway ==
  \A d \in Devices, t \in Tasks :
    OneWriter(d) /\ Removing(t, d) =>
      /\ op[t].plan = Plan("all") \/ (~InPlan(t, "identity") /\ NotWritten(d))
      /\ \A k \in Kinds : ~InPlan(t, k) => stored[d][k] = Absent

(* What a removal that answered IOT_OK left stays gone. *)
GoneStays ==
  \A d \in Devices :
    OneWriter(d) /\ gone[d] =>
      /\ NotWritten(d)
      /\ \A k \in Kinds : stored[d][k] = Absent

(* While the records of d are compared with those before its removal, no   *)
(* reset is under way and no request for d is queued, and until the first  *)
(* step of the removal nothing has changed.                                *)
Compared ==
  \A d \in Devices :
    OneWriter(d) /\ before[d] # Absent =>
      /\ ~Resetting
      /\ \A i \in DOMAIN queue : queue[i].d # d
      /\ NotWritten(d)
      /\ \A t \in Tasks : pc[t] = "remove" /\ op[t].d = d => Removing(t, d)
      /\ stored[d] = before[d] \/ stored[d]["identity"] = Absent

IInv == TypeInv /\ Underway /\ GoneStays /\ Compared
-----------------------------------------------------------------------------
(* Sequences of states, plans and entries *)

LEMMA StatesAreSequences ==
  /\ \A s \in States : s \in Seq(Pairs) /\ Len(s) \in 1 .. MaxElems
  /\ \A s \in Seq(Pairs) : Len(s) \in 1 .. MaxElems => s \in States
<1> USE DeviceAssumption
<1>1. ASSUME NEW s \in States PROVE s \in Seq(Pairs) /\ Len(s) \in 1 .. MaxElems
  <2>1. PICK n \in 1 .. MaxElems : s \in [1 .. n -> Pairs]
    BY DEF States, Pairs
  <2> QED
    BY <2>1
<1>2. ASSUME NEW s \in Seq(Pairs), Len(s) \in 1 .. MaxElems PROVE s \in States
  <2>1. s \in [1 .. Len(s) -> Pairs]
    OBVIOUS
  <2> QED
    BY <1>2, <2>1 DEF States, Pairs
<1> QED
  BY <1>1, <1>2

(* An element that is there keeps the length and the type of the state.    *)
LEMMA UpdatedType ==
  ASSUME NEW s \in Seq(Pairs), NEW e \in Elems, NEW v \in Values
  PROVE  Updated(s, e, v) \in Seq(Pairs) /\ Len(Updated(s, e, v)) = Len(s)
<1>1. CASE Has(s, e)
  <2>1. PICK i \in DOMAIN s : s[i].id = e
    BY <1>1 DEF Has, At
  <2>2. First(s, e) = First(s, e)
    OBVIOUS
  <2>3. CASE First(s, e) \in DOMAIN s
    <3>1. s[First(s, e)] \in Pairs
      BY <2>3
    <3>2. [s[First(s, e)] EXCEPT !.val = v] \in Pairs
      BY <3>1 DEF Pairs
    <3>3. Updated(s, e, v) = [s EXCEPT ![First(s, e)] = [s[First(s, e)] EXCEPT !.val = v]]
      BY <1>1, <2>3 DEF Updated
    <3> QED
      BY <3>2, <3>3, <2>3
  <2>4. CASE First(s, e) \notin DOMAIN s
    <3>1. Updated(s, e, v) = s
      BY <1>1, <2>4 DEF Updated
    <3> QED
      BY <3>1
  <2> QED
    BY <2>3, <2>4
<1>2. CASE ~Has(s, e)
  BY <1>2 DEF Updated
<1> QED
  BY <1>1, <1>2

(* The state that a call writes back is one, if it is short enough.        *)
LEMMA ChangedType ==
  ASSUME NEW o \in StateOps, o.call \in {"add", "update"},
         o.e \in Elems, o.v \in Values, o.call = "update" => o.state \in States,
         Len(Changed(o)) <= MaxElems
  PROVE  Changed(o) \in States
<1> USE DeviceAssumption
<1>1. o.state \in Seq(Pairs)
  <2>1. o.state \in States \cup {<<>>}
    BY DEF StateOps
  <2>2. <<>> \in Seq(Pairs)
    OBVIOUS
  <2> QED
    BY <2>1, <2>2, StatesAreSequences
<1>2. CASE o.call = "add"
  <2>1. [id |-> o.e, val |-> o.v] \in Pairs
    BY DEF Pairs
  <2>2. Changed(o) = Append(o.state, [id |-> o.e, val |-> o.v])
    BY <1>2 DEF Changed, Added
  <2>3. Changed(o) \in Seq(Pairs) /\ Len(Changed(o)) = Len(o.state) + 1
    BY <1>1, <2>1, <2>2
  <2>4. Len(o.state) \in Nat
    BY <1>1
  <2>5. Len(Changed(o)) \in 1 .. MaxElems
    BY <2>3, <2>4
  <2> QED
    BY <2>3, <2>5, StatesAreSequences
<1>3. CASE o.call = "update"
  <2>1. Changed(o) = Updated(o.state, o.e, o.v)
    BY <1>3 DEF Changed
  <2>2. Changed(o) \in Seq(Pairs) /\ Len(Changed(o)) = Len(o.state)
    BY <1>1, <2>1, UpdatedType
  <2>3. Len(o.state) \in 1 .. MaxElems
    BY <1>3, StatesAreSequences
  <2> QED
    BY <2>2, <2>3, StatesAreSequences
<1> QED
  BY <1>2, <1>3

(* What is not in the rest of a plan was at its head or not in it.         *)
LEMMA TailOf ==
  ASSUME NEW S, NEW s \in Seq(S), s # <<>>
  PROVE  /\ Tail(s) \in Seq(S)
         /\ Head(s) \in S
         /\ \A i \in DOMAIN Tail(s) : \E j \in DOMAIN s : s[j] = Tail(s)[i]
         /\ \A j \in DOMAIN s : s[j] = Head(s) \/ \E i \in DOMAIN Tail(s) : Tail(s)[i] = s[j]
<1>1. Len(s) \in Nat /\ Len(s) > 0 /\ DOMAIN s = 1 .. Len(s)
  OBVIOUS
<1>2. /\ Tail(s) \in Seq(S) /\ Len(Tail(s)) = Len(s) - 1
      /\ \A i \in 1 .. Len(s) - 1 : Tail(s)[i] = s[i + 1]
      /\ Head(s) = s[1]
  BY <1>1
<1>3. DOMAIN Tail(s) = 1 .. Len(s) - 1
  BY <1>1, <1>2
<1>4. ASSUME NEW i \in DOMAIN Tail(s) PROVE \E j \in DOMAIN s : s[j] = Tail(s)[i]
  <2>1. i + 1 \in DOMAIN s /\ s[i + 1] = Tail(s)[i]
    BY <1>1, <1>2, <1>3
  <2> QED
    BY <2>1
<1>5. ASSUME NEW j \in DOMAIN s, s[j] # Head(s)
      PROVE  \E i \in DOMAIN Tail(s) : Tail(s)[i] = s[j]
  <2>1. j # 1
    BY <1>5, <1>2
  <2>2. j - 1 \in DOMAIN Tail(s) /\ Tail(s)[j - 1] = s[j]
    BY <1>1, <1>2, <1>3, <2>1
  <2> QED
    BY <2>2
<1> QED
  BY <1>1, <1>2, <1>4, <1>5

(* An entry less. *)
LEMMA CutType ==
  ASSUME NEW S, NEW s \in Seq(S), NEW i \in DOMAIN s
  PROVE  SubSeq(s, 1, i - 1) \o SubSeq(s, i + 1, Len(s)) \in Seq(S)
<1>1. SubSeq(s, 1, i - 1) \in Seq(S)
  OBVIOUS
<1>2. SubSeq(s, i + 1, Len(s)) \in Seq(S)
  OBVIOUS
<1> QED
  BY <1>1, <1>2

LEMMA ReplacedType ==
  ASSUME TypeInv, NEW d \in Devices, NEW s \in States \cup {NoData}
  PROVE  Replaced(d, s) \in [Devices -> Seq(States \cup {NoData})]
<1> DEFINE old == cached[d]
           new == <<s>> \o (IF old = <<>> THEN old ELSE Tail(old))
<1>1. old \in Seq(States \cup {NoData})
  BY DEF TypeInv
<1>2. (IF old = <<>> THEN old ELSE Tail(old)) \in Seq(States \cup {NoData})
  BY <1>1
<1>3. <<s>> \in Seq(States \cup {NoData})
  OBVIOUS
<1>4. new \in Seq(States \cup {NoData})
  BY <1>2, <1>3
<1>5. Replaced(d, s) = [cached EXCEPT ![d] = new]
  BY DEF Replaced
<1> HIDE DEF new, old
<1> QED
  BY <1>4, <1>5 DEF TypeInv

-----------------------------------------------------------------------------
(* Type correctness *)

LEMMA TypeInit == Init => TypeInv
<1> SUFFICES ASSUME Init PROVE TypeInv
  OBVIOUS
<1> USE DeviceAssumption
<1>1. StoredOK
  <2>1. ASSUME NEW d \in Devices
        PROVE  /\ stored[d] \in [Kinds -> Contents]
               /\ \A k \in Plain : stored[d][k] \in {Present, Absent}
               /\ stored[d]["elems"] \in States \cup {Absent}
    <3>1. CASE stored[d] = [k \in Kinds |-> Absent]
      BY <3>1 DEF Kinds, Contents
    <3>2. CASE \E s \in States : stored[d] = [k \in Kinds |-> IF k = "elems" THEN s ELSE Present]
      BY <3>2 DEF Kinds, Plain, Contents
    <3> QED
      BY <3>1, <3>2, <2>1 DEF Init
  <2>2. stored = [d \in Devices |-> stored[d]]
    BY DEF Init
  <2> QED
    BY <2>1, <2>2 DEF StoredOK
<1>2. \A t \in Tasks : LocalsOK(t)
  BY DEF Init, LocalsOK
<1>3. queue \in Seq(Requests) /\ Len(queue) <= QueueSize
  BY DEF Init
<1>4. cached \in [Devices -> Seq(States \cup {NoData})]
  BY DEF Init
<1>5. pc \in [Tasks -> Places] /\ op \in [Tasks -> StateOps \cup RemoveOps \cup ResetOps \cup {NoOp}]
  BY DEF Init, Places
<1>6. gone \in [Devices -> BOOLEAN] /\ before \in [Devices -> [Kinds -> Contents] \cup {Absent}]
  BY DEF Init
<1> QED
  BY <1>1, <1>2, <1>3, <1>4, <1>5, <1>6 DEF TypeInv

(* A task goes to a place with locals that fit it; the others stay.        *)
LEMMA GotoType ==
  ASSUME TypeInv, NEW t \in Tasks, NEW place \in Places,
         NEW locals \in StateOps \cup RemoveOps \cup ResetOps \cup {NoOp},
         Goto(t, place, locals)
  PROVE  /\ pc' \in [Tasks -> Places]
         /\ op' \in [Tasks -> StateOps \cup RemoveOps \cup ResetOps \cup {NoOp}]
         /\ pc'[t] = place /\ op'[t] = locals
         /\ \A u \in Tasks : u # t => pc'[u] = pc[u] /\ op'[u] = op[u]
         /\ LocalsOK(t)' => \A u \in Tasks : LocalsOK(u)'
<1>1. /\ pc' \in [Tasks -> Places]
      /\ op' \in [Tasks -> StateOps \cup RemoveOps \cup ResetOps \cup {NoOp}]
  BY DEF Goto, TypeInv
<1>2. /\ pc'[t] = place /\ op'[t] = locals
      /\ \A u \in Tasks : u # t => pc'[u] = pc[u] /\ op'[u] = op[u]
  BY DEF Goto, TypeInv
<1>3. ASSUME LocalsOK(t)', NEW u \in Tasks PROVE LocalsOK(u)'
  <2>1. CASE u = t
    BY <1>3, <2>1
  <2>2. CASE u # t
    <3>1. pc'[u] = pc[u] /\ op'[u] = op[u] /\ LocalsOK(u)
      BY <1>2, <2>2 DEF TypeInv
    <3> QED
      BY <3>1 DEF LocalsOK
  <2> QED
    BY <2>1, <2>2
<1> QED
  BY <1>1, <1>2, <1>3

(* A task returns. *)
LEMMA ReturnType ==
  ASSUME TypeInv, NEW t \in Tasks, Return(t)
  PROVE  /\ pc' \in [Tasks -> Places]
         /\ op' \in [Tasks -> StateOps \cup RemoveOps \cup ResetOps \cup {NoOp}]
         /\ pc'[t] = "idle"
         /\ \A u \in Tasks : u # t => pc'[u] = pc[u] /\ op'[u] = op[u]
         /\ \A u \in Tasks : LocalsOK(u)'
<1>1. Goto(t, "idle", NoOp)
  BY DEF Return
<1>2. "idle" \in Places
  BY DEF Places
<1>3. pc'[t] = "idle"
  BY <1>1, <1>2, GotoType
<1>4. LocalsOK(t)'
  BY <1>3 DEF LocalsOK
<1> QED
  BY <1>1, <1>2, <1>3, <1>4, GotoType

(* What a storage call leaves is what was there or what it asked for.      *)
LEMMA EndsAre ==
  ASSUME NEW new, NEW end \in Ends(new)
  PROVE  /\ end.stored = stored \/ end.stored = new
         /\ end.ok => end.stored = new
BY DEF Ends

(* Storing a record of its type keeps the types. *)
LEMMA WithType ==
  ASSUME StoredOK, NEW d \in Devices, NEW k \in Kinds, NEW v,
         IF k = "elems" THEN v \in States \cup {Absent} ELSE v \in {Present, Absent}
  PROVE  /\ With(d, k, v) \in [Devices -> [Kinds -> Contents]]
         /\ With(d, k, v)[d][k] = v
         /\ \A j \in Kinds : j # k => With(d, k, v)[d][j] = stored[d][j]
         /\ \A c \in Devices : c # d => With(d, k, v)[c] = stored[c]
BY DEF With, StoredOK, Contents

LEMMA StoredStep ==
  ASSUME StoredOK, NEW d \in Devices, NEW k \in Kinds, NEW v,
         IF k = "elems" THEN v \in States \cup {Absent} ELSE v \in {Present, Absent},
         stored' = stored \/ stored' = With(d, k, v)
  PROVE  StoredOK'
<1>1. CASE stored' = stored
  BY <1>1 DEF StoredOK
<1>2. CASE stored' = With(d, k, v)
  <2>1. stored' \in [Devices -> [Kinds -> Contents]]
    BY <1>2, WithType
  <2>2. ASSUME NEW c \in Devices
        PROVE  /\ \A j \in Plain : stored'[c][j] \in {Present, Absent}
               /\ stored'[c]["elems"] \in States \cup {Absent}
    <3>1. CASE c # d
      BY <1>2, <3>1, WithType DEF StoredOK
    <3>2. CASE c = d
      BY <1>2, <3>2, WithType DEF StoredOK, Plain, Kinds
    <3> QED
      BY <3>1, <3>2
  <2> QED
    BY <2>1, <2>2 DEF StoredOK
<1> QED
  BY <1>1, <1>2

(* A call that looks into the cache goes to load, to put or back.          *)
LEMMA CacheGetType ==
  ASSUME TypeInv, NEW t \in Tasks, NEW call \in {"get", "add", "update"}, NEW d \in Devices,
         NEW e \in Elems \cup {Absent}, NEW v \in Values \cup {Absent},
         call # "get" => t \in Writers[d] /\ e \in Elems /\ v \in Values,
         CacheGet(t, call, d, e, v)
  PROVE  /\ pc' \in [Tasks -> Places]
         /\ op' \in [Tasks -> StateOps \cup RemoveOps \cup ResetOps \cup {NoOp}]
         /\ \A u \in Tasks : LocalsOK(u)'
         /\ pc[t] = "idle"
         /\ pc'[t] \in {"idle", "load", "put"}
         /\ pc'[t] # "idle" => op'[t].d = d /\ op'[t].call = call
         /\ \A u \in Tasks : u # t => pc'[u] = pc[u] /\ op'[u] = op[u]
<1> DEFINE o == [call |-> call, d |-> d, e |-> e, v |-> v, state |-> <<>>]
           hit == [o EXCEPT !.state = Head(cached[d])]
<1>1. pc[t] = "idle"
  BY DEF CacheGet, Starts
<1>2. o \in StateOps
  BY DEF StateOps
<1>3. CASE cached[d] = <<>> /\ Goto(t, "load", o)
  <2>1. "load" \in Places
    BY DEF Places
  <2>2. pc'[t] = "load" /\ op'[t] = o
    BY <1>2, <1>3, <2>1, GotoType
  <2>3. LocalsOK(t)'
    BY <1>2, <2>2 DEF LocalsOK
  <2> HIDE DEF o
  <2>4. o.d = d /\ o.call = call
    BY DEF o
  <2> QED
    BY <1>1, <1>2, <1>3, <2>1, <2>2, <2>3, <2>4, GotoType
<1>4. CASE Return(t)
  BY <1>1, <1>4, ReturnType
<1>5. CASE cached[d] # <<>> /\ Head(cached[d]) # NoData /\ call # "get" /\ Goto(t, "put", hit)
  <2>1. "put" \in Places
    BY DEF Places
  <2>2. cached[d] \in Seq(States \cup {NoData})
    BY DEF TypeInv
  <2>3. Head(cached[d]) \in States
    BY <1>5, <2>2
  <2>4. hit \in StateOps /\ hit.state \in States /\ hit.d = d /\ hit.call = call
          /\ hit.e = e /\ hit.v = v
    BY <1>2, <2>3 DEF StateOps
  <2> HIDE DEF hit, o
  <2>5. pc'[t] = "put" /\ op'[t] = hit
    BY <1>5, <2>1, <2>4, GotoType
  <2>6. LocalsOK(t)'
    BY <1>5, <2>4, <2>5 DEF LocalsOK
  <2> QED
    BY <1>1, <1>5, <2>1, <2>4, <2>5, <2>6, GotoType
<1>6. hit.call = call
  OBVIOUS
<1> QED
  BY <1>3, <1>4, <1>5, <1>6 DEF CacheGet, Have

LEMMA TypeLoad ==
  ASSUME TypeInv, NEW t \in Tasks, Load(t)
  PROVE  TypeInv'
<1> DEFINE s == stored[op[t].d]["elems"]
<1>1. pc[t] = "load" /\ op[t] \in StateOps /\ LocalsOK(t)
  BY DEF Load, TypeInv, LocalsOK
<1>2. /\ stored' = stored /\ queue' = queue /\ cached' = cached
      /\ gone' = gone /\ before' = before
  BY DEF Load, histories
<1>3. op[t].d \in Devices
  BY <1>1 DEF StateOps
<1>4. /\ pc' \in [Tasks -> Places]
      /\ op' \in [Tasks -> StateOps \cup RemoveOps \cup ResetOps \cup {NoOp}]
      /\ \A u \in Tasks : LocalsOK(u)'
  <2>1. CASE s # Absent /\ Goto(t, "fill", [op[t] EXCEPT !.state = s])
    <3>1. s \in States
      BY <1>3, <2>1 DEF TypeInv, StoredOK
    <3>2. /\ [op[t] EXCEPT !.state = s] \in StateOps
          /\ [op[t] EXCEPT !.state = s].state = s
          /\ [op[t] EXCEPT !.state = s].d = op[t].d
          /\ [op[t] EXCEPT !.state = s].e = op[t].e
          /\ [op[t] EXCEPT !.state = s].v = op[t].v
          /\ [op[t] EXCEPT !.state = s].call = op[t].call
      BY <1>1, <3>1 DEF StateOps
    <3>3. "fill" \in Places
      BY DEF Places
    <3>4. pc'[t] = "fill" /\ op'[t] = [op[t] EXCEPT !.state = s]
      BY <2>1, <3>2, <3>3, GotoType
    <3>5. LocalsOK(t)'
      BY <1>1, <3>1, <3>2, <3>4 DEF LocalsOK
    <3> QED
      BY <2>1, <3>2, <3>3, <3>5, GotoType
  <2>2. CASE op[t].call = "add" /\ Have(t, op[t])
    <3>1. Goto(t, "put", op[t]) /\ "put" \in Places
      BY <2>2 DEF Have, Places
    <3>2. pc'[t] = "put" /\ op'[t] = op[t]
      BY <1>1, <3>1, GotoType
    <3>3. LocalsOK(t)'
      BY <1>1, <2>2, <3>2 DEF LocalsOK
    <3> QED
      BY <1>1, <3>1, <3>3, GotoType
  <2>3. CASE Return(t)
    BY <2>3, ReturnType
  <2> QED
    BY <2>1, <2>2, <2>3 DEF Load
<1> QED
  BY <1>2, <1>4 DEF TypeInv, StoredOK

LEMMA TypeFill ==
  ASSUME TypeInv, NEW t \in Tasks, Fill(t)
  PROVE  TypeInv'
<1>1. pc[t] = "fill" /\ op[t] \in StateOps /\ LocalsOK(t) /\ op[t].state \in States
  BY DEF Fill, TypeInv, LocalsOK
<1>2. stored' = stored /\ queue' = queue /\ gone' = gone /\ before' = before
  BY DEF Fill, histories
<1>3. /\ pc' \in [Tasks -> Places]
      /\ op' \in [Tasks -> StateOps \cup RemoveOps \cup ResetOps \cup {NoOp}]
      /\ \A u \in Tasks : LocalsOK(u)'
  <2>1. CASE op[t].call = "get"
    <3>1. Return(t)
      BY <2>1 DEF Fill, Have
    <3> QED
      BY <3>1, ReturnType
  <2>2. CASE Return(t)
    BY <2>2, ReturnType
  <2>3. CASE op[t].call # "get" /\ ~Return(t)
    <3>1. Goto(t, "put", op[t]) /\ "put" \in Places
      BY <2>3 DEF Fill, Have, Places
    <3>2. pc'[t] = "put" /\ op'[t] = op[t]
      BY <1>1, <3>1, GotoType
    <3>3. LocalsOK(t)'
      BY <1>1, <2>3, <3>2 DEF LocalsOK
    <3> QED
      BY <1>1, <3>1, <3>3, GotoType
  <2> QED
    BY <2>1, <2>2, <2>3
<1>4. cached' \in [Devices -> Seq(States \cup {NoData})]
  <2>1. CASE cached' = [cached EXCEPT ![op[t].d] = <<op[t].state>> \o @]
    <3>1. op[t].d \in Devices
      BY <1>1 DEF StateOps
    <3>2. cached[op[t].d] \in Seq(States \cup {NoData})
      BY <3>1 DEF TypeInv
    <3>3. <<op[t].state>> \in Seq(States \cup {NoData})
      BY <1>1
    <3>4. <<op[t].state>> \o cached[op[t].d] \in Seq(States \cup {NoData})
      BY <3>2, <3>3
    <3> QED
      BY <2>1, <3>4 DEF TypeInv
  <2>2. CASE UNCHANGED cached
    BY <2>2 DEF TypeInv
  <2> QED
    BY <2>1, <2>2 DEF Fill
<1> QED
  BY <1>2, <1>3, <1>4 DEF TypeInv, StoredOK

LEMMA TypePut ==
  ASSUME TypeInv, NEW t \in Tasks, Put(t)
  PROVE  TypeInv'
<1> DEFINE o == op[t]
           new == Changed(o)
<1>1. /\ pc[t] = "put" /\ o \in StateOps /\ LocalsOK(t) /\ o.call \in {"add", "update"}
      /\ t \in Writers[o.d] /\ o.e \in Elems /\ o.v \in Values
      /\ o.call = "update" => o.state \in States
  BY DEF Put, TypeInv, LocalsOK, StateOps
<1>2. stored' = stored /\ queue' = queue /\ gone' = gone /\ before' = before
  BY DEF Put
<1>3. o.d \in Devices
  BY <1>1 DEF StateOps
<1>4. Len(new) <= MaxElems => new \in States
  BY <1>1, ChangedType
<1>5. CASE Return(t) /\ UNCHANGED cached
  BY <1>2, <1>5, ReturnType DEF TypeInv, StoredOK
<1>6. CASE Return(t) /\ cached' = Replaced(o.d, NoData)
  <2>1. cached' \in [Devices -> Seq(States \cup {NoData})]
    BY <1>3, <1>6, ReplacedType
  <2> QED
    BY <1>2, <1>6, <2>1, ReturnType DEF TypeInv, StoredOK
<1>7. CASE /\ Len(new) <= MaxElems
           /\ Goto(t, "write", [o EXCEPT !.state = new])
           /\ cached' = Replaced(o.d, new)
  <2>1. new \in States
    BY <1>4, <1>7
  <2> HIDE DEF new
  <2>2. cached' \in [Devices -> Seq(States \cup {NoData})]
    BY <1>3, <1>7, <2>1, ReplacedType
  <2>3. /\ [o EXCEPT !.state = new] \in StateOps
        /\ [o EXCEPT !.state = new].state = new
        /\ [o EXCEPT !.state = new].d = o.d
        /\ [o EXCEPT !.state = new].e = o.e
        /\ [o EXCEPT !.state = new].v = o.v
        /\ [o EXCEPT !.state = new].call = o.call
    BY <1>1, <2>1 DEF StateOps
  <2>4. "write" \in Places
    BY DEF Places
  <2>5. pc'[t] = "write" /\ op'[t] = [o EXCEPT !.state = new]
    BY <1>7, <2>3, <2>4, GotoType
  <2>6. LocalsOK(t)'
    BY <1>1, <2>1, <2>3, <2>5 DEF LocalsOK
  <2>7. /\ pc' \in [Tasks -> Places]
        /\ op' \in [Tasks -> StateOps \cup RemoveOps \cup ResetOps \cup {NoOp}]
        /\ \A u \in Tasks : LocalsOK(u)'
    BY <1>7, <2>3, <2>4, <2>6, GotoType
  <2> QED
    BY <1>2, <2>2, <2>7 DEF TypeInv, StoredOK
<1> QED
  BY <1>5, <1>6, <1>7 DEF Put

LEMMA TypeWrite ==
  ASSUME TypeInv, NEW t \in Tasks, Write(t)
  PROVE  TypeInv'
<1>1. op[t] \in StateOps /\ op[t].state \in States
  BY DEF Write, TypeInv, LocalsOK
<1>2. op[t].d \in Devices /\ "elems" \in Kinds
  BY <1>1 DEF StateOps, Kinds
<1>3. stored' = stored \/ stored' = With(op[t].d, "elems", op[t].state)
  BY EndsAre DEF Write
<1>4. StoredOK'
  BY <1>1, <1>2, <1>3, StoredStep DEF TypeInv
<1>5. Return(t) /\ queue' = queue /\ cached' = cached /\ gone' = gone /\ before' = before
  BY DEF Write
<1> QED
  BY <1>4, <1>5, ReturnType DEF TypeInv

LEMMA PlanType ==
  ASSUME NEW what \in Kinds \cup {"all"}
  PROVE  Plan(what) \in Seq(Kinds \cup {"invalidate"})
<1>1. "identity" \in Kinds /\ "common" \in Kinds /\ "elems" \in Kinds /\ "devkey" \in Kinds
  BY DEF Kinds, Plain
<1> DEFINE S == Kinds \cup {"invalidate"}
<1>2. what = "all" \/ what \in S
  OBVIOUS
<1> SUFFICES Plan(what) \in Seq(S)
  OBVIOUS
<1>3. "identity" \in S /\ "common" \in S /\ "elems" \in S /\ "devkey" \in S /\ "invalidate" \in S
  BY <1>1
<1> HIDE DEF S
<1>4. /\ <<"identity", "common", "invalidate", "elems", "devkey">> \in Seq(S)
      /\ <<"invalidate", "elems">> \in Seq(S)
      /\ what \in S => <<what>> \in Seq(S)
  BY <1>3
<1> QED
  BY <1>2, <1>4 DEF Plan

(* A request that is queued or refused. *)
LEMMA PostType ==
  ASSUME TypeInv, NEW d \in Devices, NEW k \in Kinds, NEW v \in {Present, Absent},
         k = "elems" => v = Absent, Post(d, k, v)
  PROVE  /\ queue' \in Seq(Requests) /\ Len(queue') <= QueueSize
         /\ queue' = queue \/ queue' = Append(queue, [d |-> d, kind |-> k, val |-> v])
<1> USE DeviceAssumption
<1>1. [d |-> d, kind |-> k, val |-> v] \in Requests
  BY DEF Requests, Kinds
<1>2. queue \in Seq(Requests) /\ Len(queue) \in Nat
  BY DEF TypeInv
<1>3. CASE Len(queue) < QueueSize /\ queue' = Append(queue, [d |-> d, kind |-> k, val |-> v])
  <2> DEFINE r == [d |-> d, kind |-> k, val |-> v]
  <2>1. r \in Requests /\ queue' = Append(queue, r)
    BY <1>1, <1>3
  <2> HIDE DEF r
  <2>2. queue' \in Seq(Requests) /\ Len(queue') = Len(queue) + 1
    BY <1>2, <2>1
  <2> QED
    BY <1>2, <1>3, <2>2
<1>4. CASE UNCHANGED queue
  BY <1>4 DEF TypeInv
<1> QED
  BY <1>3, <1>4 DEF Post

LEMMA WritesType ==
  ASSUME TypeInv, NEW d \in Devices, Writes(d)
  PROVE  /\ gone' \in [Devices -> BOOLEAN]
         /\ before' \in [Devices -> [Kinds -> Contents] \cup {Absent}]
         /\ ~gone'[d] /\ before'[d] = Absent
         /\ \A c \in Devices : c # d => gone'[c] = gone[c] /\ before'[c] = before[c]
BY DEF Writes, TypeInv

LEMMA TypeStart ==
  ASSUME TypeInv, NEW t \in Tasks, NEW d \in Devices,
         \/ GetDeviceElemsState(t, d)
         \/ \E e \in Elems, v \in Values :
              AddElementInfo(t, d, e, v) \/ UpdateElementState(t, d, e, v)
  PROVE  TypeInv'
<1>1. stored' = stored /\ queue' = queue /\ cached' = cached
  BY DEF GetDeviceElemsState, AddElementInfo, UpdateElementState, CacheGet
<1>2. CASE GetDeviceElemsState(t, d)
  <2>1. CacheGet(t, "get", d, Absent, Absent) /\ gone' = gone /\ before' = before
    BY <1>2 DEF GetDeviceElemsState
  <2> QED
    BY <1>1, <2>1, CacheGetType DEF TypeInv, StoredOK
<1>3. ASSUME NEW e \in Elems, NEW v \in Values,
             AddElementInfo(t, d, e, v) \/ UpdateElementState(t, d, e, v)
      PROVE  TypeInv'
  <2>1. PICK call \in {"add", "update"} : CacheGet(t, call, d, e, v)
    BY <1>3 DEF AddElementInfo, UpdateElementState
  <2>2. t \in Writers[d] /\ Writes(d)
    BY <1>3 DEF AddElementInfo, UpdateElementState
  <2>3. /\ pc' \in [Tasks -> Places]
        /\ op' \in [Tasks -> StateOps \cup RemoveOps \cup ResetOps \cup {NoOp}]
        /\ \A u \in Tasks : LocalsOK(u)'
    BY <2>1, <2>2, CacheGetType
  <2> QED
    BY <1>1, <2>2, <2>3, WritesType DEF TypeInv, StoredOK
<1> QED
  BY <1>2, <1>3

LEMMA TypeSet ==
  ASSUME TypeInv, NEW t \in Tasks, NEW d \in Devices, NEW k \in Plain,
         Set(t, d, k) \/ SetAsync(t, d, k)
  PROVE  TypeInv'
<1>1. k \in Kinds /\ k # "elems"
  BY DEF Kinds, Plain
<1>2. cached' = cached /\ pc' = pc /\ op' = op /\ Writes(d)
  BY DEF Set, SetAsync
<1>3. \A u \in Tasks : LocalsOK(u)'
  BY <1>2 DEF TypeInv, LocalsOK
<1>4. CASE Set(t, d, k)
  <2>1. (stored' = stored \/ stored' = With(d, k, Present)) /\ queue' = queue
    BY <1>4, EndsAre DEF Set
  <2>2. StoredOK'
    BY <1>1, <2>1, StoredStep DEF TypeInv
  <2> QED
    BY <1>2, <1>3, <2>1, <2>2, WritesType DEF TypeInv
<1>5. CASE SetAsync(t, d, k)
  <2>1. Post(d, k, Present) /\ stored' = stored
    BY <1>5 DEF SetAsync
  <2>2. queue' \in Seq(Requests) /\ Len(queue') <= QueueSize
    BY <1>1, <2>1, PostType
  <2> QED
    BY <1>2, <1>3, <2>1, <2>2, WritesType DEF TypeInv, StoredOK
<1> QED
  BY <1>4, <1>5

LEMMA TypeRunQueued ==
  ASSUME TypeInv, RunQueued
  PROVE  TypeInv'
<1> DEFINE r == Head(queue)
<1>1. /\ queue # <<>> /\ queue' = Tail(queue) /\ cached' = cached /\ pc' = pc /\ op' = op
      /\ gone' = gone /\ before' = before
  BY DEF RunQueued, histories
<1>2. queue \in Seq(Requests) /\ Len(queue) \in Nat /\ QueueSize \in Nat
  BY DeviceAssumption DEF TypeInv
<1>3. r \in Requests /\ queue' \in Seq(Requests) /\ Len(queue') = Len(queue) - 1
  BY <1>1, <1>2
<1>4. /\ r.d \in Devices /\ r.kind \in Kinds
      /\ IF r.kind = "elems" THEN r.val \in States \cup {Absent} ELSE r.val \in {Present, Absent}
  BY <1>3 DEF Requests, Kinds, Plain
<1>5. stored' = stored \/ stored' = With(r.d, r.kind, r.val)
  BY EndsAre DEF RunQueued
<1> HIDE DEF r
<1>6. StoredOK'
  BY <1>4, <1>5, StoredStep DEF TypeInv
<1>7. \A u \in Tasks : LocalsOK(u)'
  BY <1>1 DEF TypeInv, LocalsOK
<1>8. Len(queue') <= QueueSize
  BY <1>2, <1>3 DEF TypeInv
<1> QED
  BY <1>1, <1>3, <1>6, <1>7, <1>8 DEF TypeInv

(* A removal goes on with the rest of its plan. *)
LEMMA NextStepType ==
  ASSUME TypeInv, NEW t \in Tasks, pc[t] = "remove", op[t].plan # <<>>, NextStep(t)
  PROVE  /\ pc' \in [Tasks -> Places]
         /\ op' \in [Tasks -> StateOps \cup RemoveOps \cup ResetOps \cup {NoOp}]
         /\ \A u \in Tasks : LocalsOK(u)'
         /\ pc'[t] = "remove" /\ op'[t].plan = Tail(op[t].plan)
         /\ op'[t].d = op[t].d /\ op'[t].call = op[t].call /\ op'[t].what = op[t].what
         /\ \A u \in Tasks : u # t => pc'[u] = pc[u] /\ op'[u] = op[u]
<1> DEFINE rest == Tail(op[t].plan)
           o == [op[t] EXCEPT !.plan = rest]
<1>1. op[t] \in RemoveOps /\ t \in Writers[op[t].d]
  BY DEF TypeInv, LocalsOK
<1>2. op[t].plan \in Seq(Kinds \cup {"invalidate"})
  BY <1>1 DEF RemoveOps
<1>3. rest \in Seq(Kinds \cup {"invalidate"})
  BY <1>2
<1>4. Goto(t, "remove", o) /\ "remove" \in Places
  BY DEF NextStep, Places
<1> HIDE DEF rest
<1>5. /\ o \in RemoveOps /\ o.plan = rest /\ o.d = op[t].d
      /\ o.call = op[t].call /\ o.what = op[t].what
  BY <1>1, <1>3 DEF RemoveOps
<1> HIDE DEF o
<1>6. pc'[t] = "remove" /\ op'[t] = o
  BY <1>4, <1>5, GotoType
<1>7. LocalsOK(t)'
  BY <1>1, <1>5, <1>6 DEF LocalsOK
<1> QED
  BY <1>4, <1>5, <1>6, <1>7, GotoType DEF rest

LEMMA TypeRemove ==
  ASSUME TypeInv, NEW t \in Tasks, NEW d \in Devices, NEW call \in {"remove", "removeAsync"},
         NEW what \in Kinds \cup {"all"}, Remove(t, call, d, what)
  PROVE  /\ TypeInv'
         /\ pc'[t] = "remove"
         /\ op'[t] = [call |-> call, d |-> d, what |-> what, plan |-> Plan(what)]
         /\ \A u \in Tasks : u # t => pc'[u] = pc[u] /\ op'[u] = op[u]
<1> DEFINE o == [call |-> call, d |-> d, what |-> what, plan |-> Plan(what)]
<1>1. /\ t \in Writers[d] /\ Goto(t, "remove", o) /\ "remove" \in Places
      /\ stored' = stored /\ queue' = queue /\ cached' = cached /\ gone' = gone
  BY DEF Remove, Places
<1>2. o \in RemoveOps /\ o.d = d
  BY PlanType DEF RemoveOps
<1>3. before' \in [Devices -> [Kinds -> Contents] \cup {Absent}]
  <2>1. PICK b \in {stored[d], Absent} : before' = [before EXCEPT ![d] = b]
    BY DEF Remove
  <2>2. b \in [Kinds -> Contents] \cup {Absent}
    BY <2>1 DEF TypeInv, StoredOK
  <2> QED
    BY <2>1, <2>2 DEF TypeInv
<1> HIDE DEF o
<1>4. pc'[t] = "remove" /\ op'[t] = o
  BY <1>1, <1>2, GotoType
<1>5. LocalsOK(t)'
  BY <1>1, <1>2, <1>4 DEF LocalsOK
<1>6. /\ pc' \in [Tasks -> Places]
      /\ op' \in [Tasks -> StateOps \cup RemoveOps \cup ResetOps \cup {NoOp}]
      /\ \A u \in Tasks : LocalsOK(u)'
      /\ \A u \in Tasks : u # t => pc'[u] = pc[u] /\ op'[u] = op[u]
  BY <1>1, <1>2, <1>5, GotoType
<1> QED
  BY <1>1, <1>3, <1>4, <1>6 DEF TypeInv, StoredOK, o

LEMMA TypeInvalidate ==
  ASSUME TypeInv, NEW t \in Tasks, Invalidate(t)
  PROVE  TypeInv'
<1>1. /\ pc[t] = "remove" /\ op[t].plan # <<>> /\ NextStep(t)
      /\ stored' = stored /\ queue' = queue /\ gone' = gone /\ before' = before
  BY DEF Invalidate, Step, histories
<1>2. op[t].d \in Devices
  BY <1>1 DEF TypeInv, LocalsOK, RemoveOps
<1>3. cached' \in [Devices -> Seq(States \cup {NoData})]
  <2> DEFINE old == cached[op[t].d]
             new == IF old = <<>> THEN old ELSE Tail(old)
  <2>1. old \in Seq(States \cup {NoData})
    BY <1>2 DEF TypeInv
  <2>2. new \in Seq(States \cup {NoData})
    BY <2>1
  <2>3. cached' = [cached EXCEPT ![op[t].d] = new]
    BY DEF Invalidate
  <2> HIDE DEF new, old
  <2> QED
    BY <2>2, <2>3 DEF TypeInv
<1> QED
  BY <1>1, <1>3, NextStepType DEF TypeInv, StoredOK

LEMMA TypeRemoveKind ==
  ASSUME TypeInv, NEW t \in Tasks, RemoveKind(t)
  PROVE  TypeInv'
<1>1. PICK k \in Kinds : Step(t, k) /\ (stored' = stored \/ stored' = With(op[t].d, k, Absent))
  BY EndsAre DEF RemoveKind
<1>2. pc[t] = "remove" /\ op[t].plan # <<>>
  BY <1>1 DEF Step
<1>3. op[t].d \in Devices
  BY <1>2 DEF TypeInv, LocalsOK, RemoveOps
<1>4. StoredOK'
  BY <1>1, <1>3, StoredStep DEF TypeInv
<1>5. queue' = queue /\ cached' = cached /\ gone' = gone /\ before' = before
  BY DEF RemoveKind, histories
<1>6. NextStep(t) \/ Return(t)
  BY DEF RemoveKind
<1> QED
  BY <1>2, <1>4, <1>5, <1>6, NextStepType, ReturnType DEF TypeInv

LEMMA TypePostKind ==
  ASSUME TypeInv, NEW t \in Tasks, PostKind(t)
  PROVE  TypeInv'
<1>1. PICK k \in Kinds : Step(t, k) /\ Post(op[t].d, k, Absent)
  BY DEF PostKind
<1>2. pc[t] = "remove" /\ op[t].plan # <<>>
  BY <1>1 DEF Step
<1>3. op[t].d \in Devices
  BY <1>2 DEF TypeInv, LocalsOK, RemoveOps
<1>4. queue' \in Seq(Requests) /\ Len(queue') <= QueueSize
  BY <1>1, <1>3, PostType
<1>5. /\ stored' = stored /\ cached' = cached /\ gone' = gone /\ before' = before
      /\ NextStep(t)
  BY DEF PostKind, histories
<1> QED
  BY <1>2, <1>4, <1>5, NextStepType DEF TypeInv, StoredOK

LEMMA TypeRemoved ==
  ASSUME TypeInv, NEW t \in Tasks, Removed(t)
  PROVE  TypeInv'
<1>1. /\ Return(t) /\ stored' = stored /\ queue' = queue /\ cached' = cached
      /\ before' = before /\ (gone' = gone \/ gone' = [gone EXCEPT ![op[t].d] = TRUE])
  BY DEF Removed
<1>2. gone' \in [Devices -> BOOLEAN]
  BY <1>1 DEF TypeInv
<1> QED
  BY <1>1, <1>2, ReturnType DEF TypeInv, StoredOK

(* A reset has written nothing but absences. *)
LEMMA ResetStored ==
  ASSUME TypeInv, NEW t \in Tasks, ResetKind(t)
  PROVE  /\ StoredOK'
         /\ \A d \in Devices, k \in Kinds : stored'[d][k] = stored[d][k] \/ stored'[d][k] = Absent
<1> DEFINE k0 == Head(op[t].plan)
           wiped == [d \in Devices |-> [stored[d] EXCEPT ![k0] = Absent]]
<1>1. op[t].plan \in Seq(Kinds) /\ op[t].plan # <<>>
  BY DEF ResetKind, TypeInv, LocalsOK, ResetOps
<1>2. k0 \in Kinds
  BY <1>1
<1>3. stored' = stored \/ stored' = wiped
  BY EndsAre DEF ResetKind
<1> HIDE DEF k0
<1>4. CASE stored' = stored
  BY <1>4 DEF TypeInv, StoredOK
<1>5. CASE stored' = wiped
  <2>1. \A d \in Devices, k \in Kinds :
          wiped[d][k] = IF k = k0 THEN Absent ELSE stored[d][k]
    BY <1>2 DEF TypeInv, StoredOK
  <2>2. wiped \in [Devices -> [Kinds -> Contents]]
    BY <1>2 DEF TypeInv, StoredOK, Contents
  <2>3. "elems" \in Kinds /\ Plain \subseteq Kinds
    BY DEF Kinds
  <2> HIDE DEF wiped
  <2> QED
    BY <1>5, <2>1, <2>2, <2>3 DEF TypeInv, StoredOK
<1> QED
  BY <1>3, <1>4, <1>5

LEMMA TypeReset ==
  ASSUME TypeInv, NEW t \in Tasks, FactoryReset(t) \/ ResetKind(t) \/ ResetEnds(t)
  PROVE  TypeInv'
<1>0. "reset" \in Places
  BY DEF Places
<1>1. CASE FactoryReset(t)
  <2> DEFINE plan == <<"identity", "common", "elems", "devkey">>
             o == [call |-> "reset", plan |-> plan]
  <2>1. plan \in Seq(Kinds)
    <3>1. "identity" \in Kinds /\ "common" \in Kinds /\ "elems" \in Kinds /\ "devkey" \in Kinds
      BY DEF Kinds, Plain
    <3> QED
      BY <3>1
  <2>2. o \in ResetOps
    BY <2>1 DEF ResetOps
  <2>3. Goto(t, "reset", o)
    BY <1>1 DEF FactoryReset
  <2> HIDE DEF o
  <2>4. pc'[t] = "reset" /\ op'[t] = o
    BY <1>0, <2>2, <2>3, GotoType
  <2>5. LocalsOK(t)'
    BY <2>2, <2>4 DEF LocalsOK
  <2>6. /\ stored' = stored /\ queue' = queue /\ cached' = cached /\ gone' = gone
        /\ before' \in [Devices -> [Kinds -> Contents] \cup {Absent}]
    BY <1>1 DEF FactoryReset
  <2> QED
    BY <1>0, <2>2, <2>3, <2>5, <2>6, GotoType DEF TypeInv, StoredOK
<1>2. CASE ResetKind(t)
  <2> DEFINE rest == Tail(op[t].plan)
             o == [op[t] EXCEPT !.plan = rest]
  <2>1. op[t] \in ResetOps /\ op[t].plan \in Seq(Kinds) /\ op[t].plan # <<>>
    BY <1>2 DEF ResetKind, TypeInv, LocalsOK, ResetOps
  <2>2. rest \in Seq(Kinds)
    BY <2>1
  <2>3. Goto(t, "reset", o)
    BY <1>2 DEF ResetKind
  <2> HIDE DEF rest
  <2>4. o \in ResetOps
    BY <2>1, <2>2 DEF ResetOps
  <2> HIDE DEF o
  <2>5. pc'[t] = "reset" /\ op'[t] = o
    BY <1>0, <2>3, <2>4, GotoType
  <2>6. LocalsOK(t)'
    BY <2>4, <2>5 DEF LocalsOK
  <2>7. queue' = queue /\ cached' = cached /\ gone' = gone /\ before' = before
    BY <1>2 DEF ResetKind, histories
  <2> QED
    BY <1>0, <1>2, <2>3, <2>4, <2>6, <2>7, GotoType, ResetStored DEF TypeInv
<1>3. CASE ResetEnds(t)
  BY <1>3, ReturnType DEF ResetEnds, histories, TypeInv, StoredOK
<1> QED
  BY <1>1, <1>2, <1>3

LEMMA TypeEvict ==
  ASSUME TypeInv, NEW d \in Devices, Evict(d)
  PROVE  TypeInv'
<1> DEFINE old == cached[d]
<1>1. PICK i \in DOMAIN cached[d] :
        cached' = [cached EXCEPT ![d] = SubSeq(@, 1, i - 1) \o SubSeq(@, i + 1, Len(@))]
  BY DEF Evict
<1>2. old \in Seq(States \cup {NoData})
  BY DEF TypeInv
<1> DEFINE new == SubSeq(old, 1, i - 1) \o SubSeq(old, i + 1, Len(old))
<1>3. new \in Seq(States \cup {NoData})
  BY <1>1, <1>2, CutType
<1>4. cached' = [cached EXCEPT ![d] = new]
  BY <1>1
<1> HIDE DEF new, old
<1>5. cached' \in [Devices -> Seq(States \cup {NoData})]
  BY <1>3, <1>4 DEF TypeInv
<1>6. /\ stored' = stored /\ queue' = queue /\ pc' = pc /\ op' = op
      /\ gone' = gone /\ before' = before
  BY DEF Evict, histories
<1> QED
  BY <1>5, <1>6 DEF TypeInv, StoredOK, LocalsOK

LEMMA TypeRestart ==
  ASSUME TypeInv, Restart
  PROVE  TypeInv'
<1> USE DeviceAssumption
<1>1. /\ stored' = stored /\ queue' = <<>> /\ gone' = gone /\ before' = before
      /\ cached' = [d \in Devices |-> <<>>] /\ pc' = [t \in Tasks |-> "idle"]
      /\ op' = [t \in Tasks |-> NoOp]
  BY DEF Restart, histories
<1>2. \A u \in Tasks : LocalsOK(u)'
  BY <1>1 DEF LocalsOK
<1>3. pc' \in [Tasks -> Places] /\ op' \in [Tasks -> StateOps \cup RemoveOps \cup ResetOps \cup {NoOp}]
  BY <1>1 DEF Places
<1>4. cached' \in [Devices -> Seq(States \cup {NoData})]
  BY <1>1
<1>5. queue' \in Seq(Requests) /\ Len(queue') <= QueueSize
  BY <1>1
<1> QED
  BY <1>1, <1>2, <1>3, <1>4, <1>5 DEF TypeInv, StoredOK

LEMMA TypeStep == TypeInv /\ [Next]_vars => TypeInv'
<1> SUFFICES ASSUME TypeInv, [Next]_vars PROVE TypeInv'
  OBVIOUS
<1>1. CASE UNCHANGED vars
  BY <1>1 DEF vars, TypeInv, StoredOK, LocalsOK
<1>2. ASSUME NEW t \in Tasks, NEW d \in Devices,
             \/ GetDeviceElemsState(t, d)
             \/ \E e \in Elems, v \in Values :
                  AddElementInfo(t, d, e, v) \/ UpdateElementState(t, d, e, v)
             \/ \E k \in Plain : Set(t, d, k) \/ SetAsync(t, d, k)
             \/ \E call \in {"remove", "removeAsync"}, what \in Kinds \cup {"all"} :
                  Remove(t, call, d, what)
      PROVE  TypeInv'
  BY <1>2, TypeStart, TypeSet, TypeRemove
<1>3. ASSUME NEW t \in Tasks, Load(t) \/ Fill(t) \/ Put(t) \/ Write(t)
      PROVE  TypeInv'
  BY <1>3, TypeLoad, TypeFill, TypePut, TypeWrite
<1>4. ASSUME NEW t \in Tasks, Invalidate(t) \/ RemoveKind(t) \/ PostKind(t) \/ Removed(t)
      PROVE  TypeInv'
  BY <1>4, TypeInvalidate, TypeRemoveKind, TypePostKind, TypeRemoved
<1>5. ASSUME NEW t \in Tasks, FactoryReset(t) \/ ResetKind(t) \/ ResetEnds(t)
      PROVE  TypeInv'
  BY <1>5, TypeReset
<1>6. ASSUME NEW t \in Tasks, InvalidateCache(t)
      PROVE  TypeInv'
  <2>1. /\ stored' = stored /\ queue' = queue /\ pc' = pc /\ op' = op
        /\ gone' = gone /\ before' = before /\ cached' = [d \in Devices |-> <<>>]
    BY <1>6 DEF InvalidateCache, histories
  <2>2. cached' \in [Devices -> Seq(States \cup {NoData})]
    BY <2>1
  <2> QED
    BY <2>1, <2>2 DEF TypeInv, StoredOK, LocalsOK
<1> QED
  BY <1>1, <1>2, <1>3, <1>4, <1>5, <1>6, TypeRunQueued, TypeEvict, TypeRestart
     DEF Next, Finished

LEMMA TypeImplied == TypeInv => TypeOK
<1> SUFFICES ASSUME TypeInv PROVE TypeOK
  OBVIOUS
<1>1. ASSUME NEW d \in Devices
      PROVE  /\ \A k \in Plain : stored[d][k] \in {Present, Absent}
             /\ stored[d].elems \in States \cup {Absent}
             /\ \A i \in DOMAIN cached[d] : cached[d][i] \in States \cup {NoData}
  BY DEF TypeInv, StoredOK
<1>2. Len(queue) <= QueueSize
  BY DEF TypeInv
<1>3. \A t \in Tasks : pc[t] \in {"idle", "load", "fill", "put", "write", "remove", "reset"}
  BY DEF TypeInv, Places
<1> QED
  BY <1>1, <1>2, <1>3 DEF TypeOK

(* Every variable keeps its type, a state that is stored or cached never   *)
(* outgrows its 65535 bytes, and the queue never its size.                 *)
THEOREM TypeCorrect == Spec => []TypeOK
<1> QED
  BY TypeInit, TypeStep, TypeImplied, PTL DEF Spec

-----------------------------------------------------------------------------
(* Removals *)

Safe == Underway /\ GoneStays /\ Compared

(* The only writer of a device is the task that removes it. *)
LEMMA RemoverWrites ==
  ASSUME TypeInv, NEW d \in Devices, OneWriter(d), NEW t \in Tasks, t \in Writers[d]
  PROVE  /\ \A u \in Tasks : u \in Writers[d] => u = t
         /\ \A u \in Tasks : pc[u] = "remove" /\ op[u].d = d => u = t
         /\ \A u \in Tasks :
              pc[u] \in {"load", "fill", "put", "write"} /\ op[u].d = d /\ op[u].call # "get"
                => u = t
<1>1. \A u \in Tasks : u \in Writers[d] => u = t
  BY DEF OneWriter
<1>2. \A u \in Tasks : LocalsOK(u)
  BY DEF TypeInv
<1>3. \A u \in Tasks : pc[u] = "remove" => u \in Writers[op[u].d]
  BY <1>2 DEF LocalsOK
<1>4. \A u \in Tasks : pc[u] \in {"load", "fill", "put", "write"} /\ op[u].call # "get"
                       => u \in Writers[op[u].d]
  BY <1>2 DEF LocalsOK
<1>5. ASSUME NEW u \in Tasks, pc[u] = "remove", op[u].d = d PROVE u = t
  <2>1. u \in Writers[op[u].d]
    BY <1>3, <1>5
  <2> QED
    BY <1>1, <1>5, <2>1
<1>6. ASSUME NEW u \in Tasks, pc[u] \in {"load", "fill", "put", "write"}, op[u].d = d,
             op[u].call # "get"
      PROVE  u = t
  <2>1. u \in Writers[op[u].d]
    BY <1>4, <1>6
  <2> QED
    BY <1>1, <1>6, <2>1
<1> QED
  BY <1>1, <1>5, <1>6

(* The plan of a removal of all names each kind; the rest of it, the       *)
(* identity no more.                                                       *)
LEMMA PlanOfAll ==
  ASSUME NEW p, p = Plan("all")
  PROVE  /\ \A k \in Kinds : \E i \in DOMAIN p : p[i] = k
         /\ p # <<>> /\ Head(p) = "identity"
         /\ \A i \in DOMAIN Tail(p) : Tail(p)[i] # "identity"
<1> DEFINE q == <<"identity", "common", "invalidate", "elems", "devkey">>
<1>1. p = q
  BY DEF Plan
<1>2. DOMAIN q = 1 .. 5 /\ q[1] = "identity" /\ q[2] = "common" /\ q[4] = "elems" /\ q[5] = "devkey"
  OBVIOUS
<1>3. Tail(q) = <<"common", "invalidate", "elems", "devkey">>
  OBVIOUS
<1>4. \A i \in DOMAIN Tail(q) : Tail(q)[i] # "identity"
  BY <1>3
<1>5. q # <<>> /\ Head(q) = "identity"
  OBVIOUS
<1> HIDE DEF q
<1>6. ASSUME NEW k \in Kinds PROVE \E i \in DOMAIN q : q[i] = k
  <2>1. k \in {"identity", "common", "elems", "devkey"}
    BY DEF Kinds, Plain
  <2> QED
    BY <1>2, <2>1
<1> QED
  BY <1>1, <1>4, <1>5, <1>6

LEMMA AllKindsPlanned ==
  ASSUME NEW t \in Tasks, op[t].plan = Plan("all"), NEW k \in Kinds
  PROVE  InPlan(t, k)
BY PlanOfAll DEF InPlan

(* A step of one task that changes no record, request or history, and that *)
(* takes the task no nearer to a write or a removal.                       *)
LEMMA QuietStep ==
  ASSUME IInv, NEW t \in Tasks,
         stored' = stored, queue' = queue, gone' = gone, before' = before,
         \A u \in Tasks : u # t => pc'[u] = pc[u] /\ op'[u] = op[u],
         \/ pc'[t] = "idle"
         \/ /\ pc'[t] \in {"load", "fill", "put", "write"}
            /\ \/ op'[t].call = "get"
               \/ /\ pc[t] \in {"load", "fill", "put", "write"}
                  /\ op'[t].d = op[t].d /\ op'[t].call = op[t].call
  PROVE  Safe'
<1>1. ASSUME NEW d \in Devices, NotWritten(d) PROVE NotWritten(d)'
  <2>1. ASSUME NEW u \in Tasks, pc'[u] \in {"load", "fill", "put", "write"}, op'[u].d = d
        PROVE  op'[u].call = "get"
    BY <1>1, <2>1 DEF NotWritten
  <2> QED
    BY <1>1, <2>1 DEF NotWritten
<1>2. ASSUME NEW d \in Devices, NEW u \in Tasks, Removing(u, d)'
      PROVE  u # t /\ Removing(u, d) /\ op'[u] = op[u]
  BY <1>2 DEF Removing
<1>3. Underway'
  <2>1. ASSUME NEW d \in Devices, NEW u \in Tasks, OneWriter(d), Removing(u, d)'
        PROVE  /\ op'[u].plan = Plan("all") \/ (~InPlan(u, "identity")' /\ NotWritten(d)')
               /\ \A k \in Kinds : ~InPlan(u, k)' => stored'[d][k] = Absent
    <3>1. Removing(u, d) /\ op'[u] = op[u]
      BY <1>2, <2>1
    <3> QED
      BY <3>1, <2>1, <1>1 DEF IInv, Underway, InPlan
  <2> QED
    BY <2>1 DEF Underway, OneWriter
<1>4. GoneStays'
  BY <1>1 DEF IInv, GoneStays, OneWriter
<1>5. Compared'
  <2>1. ASSUME NEW d \in Devices, OneWriter(d), before[d] # Absent
        PROVE  /\ ~Resetting'
               /\ \A i \in DOMAIN queue : queue[i].d # d
               /\ NotWritten(d)'
               /\ \A u \in Tasks : pc'[u] = "remove" /\ op'[u].d = d => Removing(u, d)'
               /\ stored[d] = before[d] \/ stored[d]["identity"] = Absent
    BY <1>1, <2>1 DEF IInv, Compared, Resetting, Removing
  <2> QED
    BY <2>1 DEF Compared, OneWriter
<1> QED
  BY <1>3, <1>4, <1>5 DEF Safe

(* A writer begins to write d0, or writes it at once or by a request: the  *)
(* device's histories start afresh.                                        *)
LEMMA WriterStep ==
  ASSUME IInv, NEW t \in Tasks, NEW d0 \in Devices, t \in Writers[d0], pc[t] = "idle",
         Writes(d0), pc'[t] \in {"idle", "load", "put"},
         pc'[t] # "idle" => op'[t].d = d0,
         \A u \in Tasks : u # t => pc'[u] = pc[u] /\ op'[u] = op[u],
         \A d \in Devices : d # d0 => stored'[d] = stored[d],
         queue' = queue \/ \E r : r.d = d0 /\ queue' = Append(queue, r)
  PROVE  Safe'
<1>1. /\ ~gone'[d0] /\ before'[d0] = Absent
      /\ \A d \in Devices : d # d0 => gone'[d] = gone[d] /\ before'[d] = before[d]
  BY WritesType DEF IInv
<1>2. \A i \in DOMAIN queue' : queue'[i].d # d0 => i \in DOMAIN queue /\ queue'[i] = queue[i]
  <2>1. CASE queue' = queue
    BY <2>1
  <2>2. CASE \E r : r.d = d0 /\ queue' = Append(queue, r)
    <3>1. PICK r : r.d = d0 /\ queue' = Append(queue, r)
      BY <2>2
    <3>2. queue \in Seq(Requests)
      BY DEF IInv, TypeInv
    <3>3. Len(queue') = Len(queue) + 1 /\ DOMAIN queue' = 1 .. Len(queue) + 1
            /\ DOMAIN queue = 1 .. Len(queue) /\ Len(queue) \in Nat
      BY <3>1, <3>2
    <3>4. \A i \in 1 .. Len(queue) : queue'[i] = queue[i]
      BY <3>1, <3>2
    <3>5. queue'[Len(queue) + 1] = r
      BY <3>1, <3>2
    <3>6. ASSUME NEW i \in DOMAIN queue', queue'[i].d # d0
          PROVE  i \in DOMAIN queue /\ queue'[i] = queue[i]
      <4>1. i # Len(queue) + 1
        BY <3>1, <3>5, <3>6
      <4>2. i \in 1 .. Len(queue)
        BY <3>3, <3>6, <4>1
      <4> QED
        BY <3>3, <3>4, <4>2
    <3> QED
      BY <3>6
  <2> QED
    BY <2>1, <2>2
<1>3. ASSUME NEW d \in Devices, d # d0, NotWritten(d) PROVE NotWritten(d)'
  <2>1. ASSUME NEW u \in Tasks, pc'[u] \in {"load", "fill", "put", "write"}, op'[u].d = d
        PROVE  op'[u].call = "get"
    BY <1>3, <2>1 DEF NotWritten
  <2>2. ASSUME NEW i \in DOMAIN queue', queue'[i].d = d PROVE queue'[i].val = Absent
    BY <1>2, <1>3, <2>2 DEF NotWritten
  <2> QED
    BY <2>1, <2>2 DEF NotWritten
<1>4. ASSUME NEW d \in Devices, NEW u \in Tasks, Removing(u, d)'
      PROVE  u # t /\ Removing(u, d) /\ op'[u] = op[u]
  BY <1>4 DEF Removing
<1>5. ASSUME NEW u \in Tasks, OneWriter(d0), pc'[u] = "remove", op'[u].d = d0
      PROVE  FALSE
  <2>1. u # t /\ pc[u] = "remove" /\ op[u].d = d0
    BY <1>5
  <2> QED
    BY <1>5, <2>1, RemoverWrites DEF IInv
<1>6. Underway'
  <2>1. ASSUME NEW d \in Devices, NEW u \in Tasks, OneWriter(d), Removing(u, d)'
        PROVE  /\ op'[u].plan = Plan("all") \/ (~InPlan(u, "identity")' /\ NotWritten(d)')
               /\ \A k \in Kinds : ~InPlan(u, k)' => stored'[d][k] = Absent
    <3>1. Removing(u, d) /\ op'[u] = op[u]
      BY <1>4, <2>1
    <3>2. d # d0
      BY <1>5, <2>1 DEF Removing
    <3> QED
      BY <3>1, <3>2, <2>1, <1>3 DEF IInv, Underway, InPlan
  <2> QED
    BY <2>1 DEF Underway, OneWriter
<1>7. GoneStays'
  BY <1>1, <1>3 DEF IInv, GoneStays, OneWriter
<1>8. Compared'
  <2>1. ASSUME NEW d \in Devices, OneWriter(d), before'[d] # Absent
        PROVE  /\ ~Resetting'
               /\ \A i \in DOMAIN queue' : queue'[i].d # d
               /\ NotWritten(d)'
               /\ \A u \in Tasks : pc'[u] = "remove" /\ op'[u].d = d => Removing(u, d)'
               /\ stored'[d] = before'[d] \/ stored'[d]["identity"] = Absent
    <3>1. d # d0
      BY <1>1, <2>1
    <3>2. before[d] # Absent /\ before'[d] = before[d] /\ stored'[d] = stored[d]
      BY <1>1, <2>1, <3>1
    <3>3. /\ ~Resetting /\ \A i \in DOMAIN queue : queue[i].d # d
          /\ NotWritten(d)
          /\ \A u \in Tasks : pc[u] = "remove" /\ op[u].d = d => Removing(u, d)
          /\ stored[d] = before[d] \/ stored[d]["identity"] = Absent
      BY <2>1, <3>2 DEF IInv, Compared
    <3>4. ~Resetting'
      BY <3>3 DEF Resetting
    <3>5. \A i \in DOMAIN queue' : queue'[i].d # d
      BY <1>2, <3>1, <3>3
    <3>6. \A u \in Tasks : pc'[u] = "remove" /\ op'[u].d = d => Removing(u, d)'
      BY <3>3 DEF Removing
    <3> QED
      BY <1>3, <3>1, <3>2, <3>3, <3>4, <3>5, <3>6
  <2> QED
    BY <2>1 DEF Compared, OneWriter
<1> QED
  BY <1>6, <1>7, <1>8 DEF Safe

LEMMA SafeStart ==
  ASSUME IInv, TypeInv', NEW t \in Tasks, NEW d \in Devices,
         \/ GetDeviceElemsState(t, d)
         \/ \E e \in Elems, v \in Values :
              AddElementInfo(t, d, e, v) \/ UpdateElementState(t, d, e, v)
         \/ \E k \in Plain : Set(t, d, k) \/ SetAsync(t, d, k)
  PROVE  Safe'
<1>1. CASE GetDeviceElemsState(t, d)
  <2>1. /\ CacheGet(t, "get", d, Absent, Absent) /\ gone' = gone /\ before' = before
        /\ stored' = stored /\ queue' = queue
    BY <1>1 DEF GetDeviceElemsState, CacheGet
  <2>2. /\ pc'[t] \in {"idle", "load", "put"}
        /\ pc'[t] # "idle" => op'[t].call = "get"
        /\ \A u \in Tasks : u # t => pc'[u] = pc[u] /\ op'[u] = op[u]
    BY <2>1, CacheGetType DEF IInv
  <2> QED
    BY <2>1, <2>2, QuietStep
<1>2. ASSUME NEW e \in Elems, NEW v \in Values,
             AddElementInfo(t, d, e, v) \/ UpdateElementState(t, d, e, v)
      PROVE  Safe'
  <2>1. PICK call \in {"add", "update"} : CacheGet(t, call, d, e, v)
    BY <1>2 DEF AddElementInfo, UpdateElementState
  <2>2. t \in Writers[d] /\ Writes(d) /\ stored' = stored /\ queue' = queue
    BY <1>2 DEF AddElementInfo, UpdateElementState, CacheGet
  <2>3. /\ pc[t] = "idle" /\ pc'[t] \in {"idle", "load", "put"}
        /\ pc'[t] # "idle" => op'[t].d = d
        /\ \A u \in Tasks : u # t => pc'[u] = pc[u] /\ op'[u] = op[u]
    BY <2>1, <2>2, CacheGetType DEF IInv
  <2> QED
    BY <2>2, <2>3, WriterStep
<1>3. ASSUME NEW k \in Plain, Set(t, d, k) \/ SetAsync(t, d, k)
      PROVE  Safe'
  <2>1. /\ t \in Writers[d] /\ Writes(d) /\ pc[t] = "idle" /\ pc' = pc /\ op' = op
    BY <1>3 DEF Set, SetAsync, Starts
  <2>2. k \in Kinds
    BY DEF Kinds
  <2>3. CASE Set(t, d, k)
    <3>1. (stored' = stored \/ stored' = With(d, k, Present)) /\ queue' = queue
      BY <2>3, EndsAre DEF Set
    <3>2. k # "elems" /\ StoredOK
      BY DEF IInv, TypeInv, Plain
    <3>3. \A c \in Devices : c # d => With(d, k, Present)[c] = stored[c]
      BY <2>2, <3>2, WithType
    <3>4. \A c \in Devices : c # d => stored'[c] = stored[c]
      BY <3>1, <3>3
    <3> QED
      BY <2>1, <3>1, <3>4, WriterStep
  <2>4. CASE SetAsync(t, d, k)
    <3>1. Post(d, k, Present) /\ stored' = stored
      BY <2>4 DEF SetAsync
    <3>2. queue' = queue \/ queue' = Append(queue, [d |-> d, kind |-> k, val |-> Present])
      BY <3>1 DEF Post
    <3> DEFINE r == [d |-> d, kind |-> k, val |-> Present]
    <3>3. r.d = d
      OBVIOUS
    <3> HIDE DEF r
    <3>4. queue' = queue \/ \E q : q.d = d /\ queue' = Append(queue, q)
      BY <3>2, <3>3 DEF r
    <3> QED
      BY <2>1, <3>1, <3>4, WriterStep
  <2> QED
    BY <1>3, <2>3, <2>4
<1> QED
  BY <1>1, <1>2, <1>3

(* A state is written by a call of a writer, so no removal of the device   *)
(* is under way, and its histories have started afresh.                    *)
LEMMA SafeWrite ==
  ASSUME IInv, NEW t \in Tasks, Write(t)
  PROVE  Safe'
<1> DEFINE d0 == op[t].d
<1>1. /\ op[t] \in StateOps /\ op[t].state \in States /\ op[t].call # "get"
      /\ t \in Writers[d0] /\ pc[t] = "write"
  BY DEF Write, IInv, TypeInv, LocalsOK
<1>2. d0 \in Devices /\ "elems" \in Kinds
  BY <1>1 DEF StateOps, Kinds
<1>3. stored' = stored \/ stored' = With(d0, "elems", op[t].state)
  BY EndsAre DEF Write
<1>4. \A d \in Devices : d # d0 => stored'[d] = stored[d]
  <2>1. op[t].state \in States \cup {Absent} /\ StoredOK
    BY <1>1 DEF IInv, TypeInv
  <2> QED
    BY <1>2, <1>3, <2>1, WithType
<1>5. /\ queue' = queue /\ gone' = gone /\ before' = before /\ Return(t)
  BY DEF Write
<1>6. pc'[t] = "idle" /\ \A u \in Tasks : u # t => pc'[u] = pc[u] /\ op'[u] = op[u]
  BY <1>5, ReturnType DEF IInv
<1>7. ~NotWritten(d0)
  BY <1>1 DEF NotWritten
<1>8. ASSUME NEW d \in Devices, NotWritten(d) PROVE NotWritten(d)'
  <2>1. ASSUME NEW u \in Tasks, pc'[u] \in {"load", "fill", "put", "write"}, op'[u].d = d
        PROVE  op'[u].call = "get"
    BY <1>6, <1>8, <2>1 DEF NotWritten
  <2> QED
    BY <1>5, <1>8, <2>1 DEF NotWritten
<1>9. ASSUME NEW u \in Tasks, NEW d \in Devices, OneWriter(d), Removing(u, d)'
      PROVE  Removing(u, d) /\ op'[u] = op[u] /\ d # d0
  <2>1. u # t /\ Removing(u, d) /\ op'[u] = op[u]
    BY <1>6, <1>9 DEF Removing
  <2>2. CASE d = d0
    <3>1. pc[u] = "remove" /\ op[u].d = d0
      BY <2>1, <2>2 DEF Removing
    <3>2. u = t
      BY <1>1, <1>2, <1>9, <2>2, <3>1, RemoverWrites DEF IInv
    <3> QED
      BY <2>1, <3>2
  <2> QED
    BY <2>1, <2>2
<1> HIDE DEF d0
<1>10. Underway'
  <2>1. ASSUME NEW d \in Devices, NEW u \in Tasks, OneWriter(d), Removing(u, d)'
        PROVE  /\ op'[u].plan = Plan("all") \/ (~InPlan(u, "identity")' /\ NotWritten(d)')
               /\ \A k \in Kinds : ~InPlan(u, k)' => stored'[d][k] = Absent
    <3>1. Removing(u, d) /\ op'[u] = op[u] /\ stored'[d] = stored[d]
      BY <1>4, <1>9, <2>1
    <3> QED
      BY <3>1, <2>1, <1>8 DEF IInv, Underway, InPlan
  <2> QED
    BY <2>1 DEF Underway, OneWriter
<1>11. GoneStays'
  <2>1. ASSUME NEW d \in Devices, OneWriter(d), gone[d]
        PROVE  NotWritten(d)' /\ \A k \in Kinds : stored'[d][k] = Absent
    <3>1. NotWritten(d) /\ \A k \in Kinds : stored[d][k] = Absent
      BY <2>1 DEF IInv, GoneStays
    <3>2. d # d0
      BY <3>1, <1>7
    <3> QED
      BY <1>4, <1>8, <3>1, <3>2
  <2> QED
    BY <1>5, <2>1 DEF GoneStays, OneWriter
<1>12. Compared'
  <2>1. ASSUME NEW d \in Devices, OneWriter(d), before[d] # Absent
        PROVE  /\ ~Resetting'
               /\ \A i \in DOMAIN queue' : queue'[i].d # d
               /\ NotWritten(d)'
               /\ \A u \in Tasks : pc'[u] = "remove" /\ op'[u].d = d => Removing(u, d)'
               /\ stored'[d] = before[d] \/ stored'[d]["identity"] = Absent
    <3>1. /\ ~Resetting /\ \A i \in DOMAIN queue : queue[i].d # d
          /\ NotWritten(d)
          /\ \A u \in Tasks : pc[u] = "remove" /\ op[u].d = d => Removing(u, d)
          /\ stored[d] = before[d] \/ stored[d]["identity"] = Absent
      BY <2>1 DEF IInv, Compared
    <3>2. d # d0
      BY <3>1, <1>7
    <3>3. ~Resetting'
      BY <1>6, <3>1 DEF Resetting
    <3>4. \A u \in Tasks : pc'[u] = "remove" /\ op'[u].d = d => Removing(u, d)'
      BY <1>6, <3>1 DEF Removing
    <3> QED
      BY <1>4, <1>5, <1>8, <3>1, <3>2, <3>3, <3>4
  <2> QED
    BY <1>5, <2>1 DEF Compared, OneWriter
<1> QED
  BY <1>10, <1>11, <1>12 DEF Safe

(* What is left of the queue when its first request has been taken. *)
LEMMA TakenFrom ==
  ASSUME IInv, queue # <<>>, queue' = Tail(queue)
  PROVE  /\ 1 \in DOMAIN queue /\ Head(queue) = queue[1]
         /\ \A i \in DOMAIN queue' : \E j \in DOMAIN queue : queue[j] = queue'[i]
<1>1. queue \in Seq(Requests)
  BY DEF IInv, TypeInv
<1>2. \A i \in DOMAIN queue' : \E j \in DOMAIN queue : queue[j] = queue'[i]
  BY <1>1, TailOf
<1> QED
  BY <1>1, <1>2

LEMMA SafeRunQueued ==
  ASSUME IInv, RunQueued
  PROVE  Safe'
<1> DEFINE r == Head(queue)
<1>1. /\ queue # <<>> /\ queue' = Tail(queue) /\ pc' = pc /\ op' = op
      /\ gone' = gone /\ before' = before
  BY DEF RunQueued, histories
<1>2. r \in Requests
  BY <1>1 DEF IInv, TypeInv
<1>3. /\ r.d \in Devices /\ r.kind \in Kinds
      /\ IF r.kind = "elems" THEN r.val \in States \cup {Absent} ELSE r.val \in {Present, Absent}
  BY <1>2 DEF Requests, Kinds, Plain
<1>4. stored' = stored \/ stored' = With(r.d, r.kind, r.val)
  BY EndsAre DEF RunQueued
<1>5. /\ \A d \in Devices : d # r.d => stored'[d] = stored[d]
      /\ \A k \in Kinds : stored'[r.d][k] = stored[r.d][k] \/ stored'[r.d][k] = r.val
  <2> HIDE DEF r
  <2>1. StoredOK
    BY DEF IInv, TypeInv
  <2>2. CASE stored' = stored
    BY <2>2
  <2>3. CASE stored' = With(r.d, r.kind, r.val)
    <3> DEFINE new == With(r.d, r.kind, r.val)
    <3>1. /\ new[r.d][r.kind] = r.val
          /\ \A k \in Kinds : k # r.kind => new[r.d][k] = stored[r.d][k]
          /\ \A d \in Devices : d # r.d => new[d] = stored[d]
      BY <1>3, <2>1, WithType
    <3> HIDE DEF new
    <3>2. stored' = new
      BY <2>3 DEF new
    <3> QED
      BY <3>1, <3>2
  <2> QED
    BY <1>4, <2>2, <2>3
<1>6. 1 \in DOMAIN queue /\ r = queue[1]
  BY <1>1, TakenFrom
<1>7. \A i \in DOMAIN queue' : \E j \in DOMAIN queue : queue[j] = queue'[i]
  BY <1>1, TakenFrom
<1> HIDE DEF r
<1>8. ASSUME NEW d \in Devices, NotWritten(d)
      PROVE  /\ NotWritten(d)'
             /\ \A k \in Kinds : stored[d][k] = Absent => stored'[d][k] = Absent
  <2>1. NotWritten(d)'
    BY <1>1, <1>7, <1>8 DEF NotWritten
  <2>2. d = r.d => r.val = Absent
    BY <1>6, <1>8 DEF NotWritten
  <2> QED
    BY <1>5, <2>1, <2>2
<1>9. Underway'
  <2>1. ASSUME NEW d \in Devices, NEW u \in Tasks, OneWriter(d), Removing(u, d)
        PROVE  /\ op[u].plan = Plan("all") \/ (~InPlan(u, "identity") /\ NotWritten(d)')
               /\ \A k \in Kinds : ~InPlan(u, k) => stored'[d][k] = Absent
    <3>1. /\ op[u].plan = Plan("all") \/ (~InPlan(u, "identity") /\ NotWritten(d))
          /\ \A k \in Kinds : ~InPlan(u, k) => stored[d][k] = Absent
      BY <2>1 DEF IInv, Underway
    <3>2. CASE op[u].plan = Plan("all")
      BY <3>2, AllKindsPlanned
    <3>3. CASE op[u].plan # Plan("all")
      BY <1>8, <3>1, <3>3
    <3> QED
      BY <3>2, <3>3
  <2> QED
    BY <1>1, <2>1 DEF Underway, OneWriter, Removing, InPlan
<1>10. GoneStays'
  BY <1>1, <1>8 DEF IInv, GoneStays, OneWriter
<1>11. Compared'
  <2>1. ASSUME NEW d \in Devices, OneWriter(d), before[d] # Absent
        PROVE  /\ ~Resetting
               /\ \A i \in DOMAIN queue' : queue'[i].d # d
               /\ NotWritten(d)'
               /\ \A u \in Tasks : pc[u] = "remove" /\ op[u].d = d => Removing(u, d)
               /\ stored'[d] = before[d] \/ stored'[d]["identity"] = Absent
    <3>1. /\ ~Resetting /\ \A i \in DOMAIN queue : queue[i].d # d
          /\ NotWritten(d)
          /\ \A u \in Tasks : pc[u] = "remove" /\ op[u].d = d => Removing(u, d)
          /\ stored[d] = before[d] \/ stored[d]["identity"] = Absent
      BY <2>1 DEF IInv, Compared
    <3>2. d # r.d
      BY <1>6, <3>1
    <3> QED
      BY <1>5, <1>7, <1>8, <3>1, <3>2
  <2> QED
    BY <1>1, <2>1 DEF Compared, OneWriter, Resetting, Removing
<1> QED
  BY <1>9, <1>10, <1>11 DEF Safe

(* A step of a call under way on the state of the elements that stores     *)
(* nothing; or the cache drops what it has.                                *)
LEMMA SafeStateStep ==
  ASSUME IInv, NEW t \in Tasks, Load(t) \/ Fill(t) \/ Put(t)
  PROVE  Safe'
<1>1. /\ pc[t] \in {"load", "fill", "put"} /\ op[t] \in StateOps /\ LocalsOK(t)
  BY DEF Load, Fill, Put, IInv, TypeInv, LocalsOK
<1>2. /\ stored' = stored /\ queue' = queue /\ gone' = gone /\ before' = before
  BY DEF Load, Fill, Put, histories
<1>3. \/ Return(t)
      \/ \E place \in {"fill", "put", "write"} : Goto(t, place, op[t])
      \/ \E place \in {"fill", "put", "write"} : \E s : Goto(t, place, [op[t] EXCEPT !.state = s])
  BY DEF Load, Fill, Put, Have
<1>4. ASSUME NEW place \in {"fill", "put", "write"}, NEW o, o.d = op[t].d, o.call = op[t].call,
             Goto(t, place, o)
      PROVE  Safe'
  <2>1. pc'[t] = place /\ op'[t] = o
    BY <1>4 DEF Goto, IInv, TypeInv
  <2>2. \A u \in Tasks : u # t => pc'[u] = pc[u] /\ op'[u] = op[u]
    BY <1>4 DEF Goto, IInv, TypeInv
  <2> QED
    BY <1>1, <1>2, <1>4, <2>1, <2>2, QuietStep
<1>5. \A s : LET o == [op[t] EXCEPT !.state = s] IN o.d = op[t].d /\ o.call = op[t].call
  BY <1>1 DEF StateOps
<1>6. CASE Return(t)
  BY <1>2, <1>6, ReturnType, QuietStep DEF IInv
<1> QED
  BY <1>3, <1>4, <1>5, <1>6

LEMMA SafeUnmoved ==
  ASSUME IInv, UNCHANGED <<stored, queue, pc, op, gone, before>>
  PROVE  Safe'
<1>1. \A d \in Devices : NotWritten(d) => NotWritten(d)'
  BY DEF NotWritten
<1>2. Underway'
  BY <1>1 DEF IInv, Underway, OneWriter, Removing, InPlan
<1>3. GoneStays'
  BY <1>1 DEF IInv, GoneStays, OneWriter
<1>4. Compared'
  BY <1>1 DEF IInv, Compared, OneWriter, Removing, Resetting
<1> QED
  BY <1>2, <1>3, <1>4 DEF Safe

(* A removal begins: its plan names every kind. *)
LEMMA SafeRemove ==
  ASSUME IInv, NEW t \in Tasks, NEW d0 \in Devices, NEW call \in {"remove", "removeAsync"},
         NEW what \in Kinds \cup {"all"}, Remove(t, call, d0, what)
  PROVE  Safe'
<1> DEFINE o == [call |-> call, d |-> d0, what |-> what, plan |-> Plan(what)]
<1>1. /\ pc'[t] = "remove" /\ op'[t] = o
      /\ \A u \in Tasks : u # t => pc'[u] = pc[u] /\ op'[u] = op[u]
  BY TypeRemove DEF IInv
<1>2. o.call = call /\ o.d = d0 /\ o.what = what /\ o.plan = Plan(what)
  OBVIOUS
<1>3. /\ pc[t] = "idle" /\ t \in Writers[d0]
      /\ stored' = stored /\ queue' = queue /\ gone' = gone
  BY DEF Remove, Starts
<1>4. /\ \A d \in Devices : d # d0 => before'[d] = before[d]
      /\ before'[d0] # Absent => /\ call = "remove" /\ what = "all" /\ queue = <<>> /\ ~Resetting
                                /\ before'[d0] = stored[d0]
  BY DEF Remove, IInv, TypeInv
<1> HIDE DEF o
<1>5. ASSUME NEW d \in Devices, NotWritten(d) PROVE NotWritten(d)'
  <2>1. ASSUME NEW u \in Tasks, pc'[u] \in {"load", "fill", "put", "write"}, op'[u].d = d
        PROVE  op'[u].call = "get"
    BY <1>1, <1>5, <2>1 DEF NotWritten
  <2> QED
    BY <1>3, <1>5, <2>1 DEF NotWritten
<1>6. Underway'
  <2>1. ASSUME NEW d \in Devices, NEW u \in Tasks, OneWriter(d), Removing(u, d)'
        PROVE  /\ op'[u].plan = Plan("all") \/ (~InPlan(u, "identity")' /\ NotWritten(d)')
               /\ \A k \in Kinds : ~InPlan(u, k)' => stored'[d][k] = Absent
    <3>1. CASE u = t
      <4>1. op'[u].plan = Plan("all")
        BY <1>1, <1>2, <2>1, <3>1 DEF Removing
      <4>2. \A k \in Kinds : InPlan(u, k)'
        BY <4>1, PlanOfAll DEF InPlan
      <4> QED
        BY <4>1, <4>2
    <3>2. CASE u # t
      <4>1. Removing(u, d) /\ op'[u] = op[u]
        BY <1>1, <2>1, <3>2 DEF Removing
      <4> QED
        BY <1>3, <1>5, <2>1, <4>1 DEF IInv, Underway, InPlan
    <3> QED
      BY <3>1, <3>2
  <2> QED
    BY <2>1 DEF Underway, OneWriter
<1>7. GoneStays'
  BY <1>3, <1>5 DEF IInv, GoneStays, OneWriter
<1>8. Compared'
  <2>1. ASSUME NEW d \in Devices, OneWriter(d), before'[d] # Absent
        PROVE  /\ ~Resetting'
               /\ \A i \in DOMAIN queue' : queue'[i].d # d
               /\ NotWritten(d)'
               /\ \A u \in Tasks : pc'[u] = "remove" /\ op'[u].d = d => Removing(u, d)'
               /\ stored'[d] = before'[d] \/ stored'[d]["identity"] = Absent
    <3>1. CASE d = d0
      <4>1. /\ call = "remove" /\ what = "all" /\ queue = <<>> /\ ~Resetting
            /\ before'[d] = stored[d]
        BY <1>4, <2>1, <3>1
      <4>2. /\ \A u \in Tasks : pc[u] = "remove" /\ op[u].d = d => u = t
            /\ \A u \in Tasks :
                 pc[u] \in {"load", "fill", "put", "write"} /\ op[u].d = d /\ op[u].call # "get"
                   => u = t
        BY <1>3, <2>1, <3>1, RemoverWrites DEF IInv
      <4>3. ~Resetting'
        BY <1>1, <4>1 DEF Resetting
      <4>4. \A u \in Tasks : pc'[u] = "remove" /\ op'[u].d = d => Removing(u, d)'
        BY <1>1, <1>2, <3>1, <4>1, <4>2 DEF Removing
      <4>5. \A u \in Tasks : pc'[u] \in {"load", "fill", "put", "write"} /\ op'[u].d = d
                              => op'[u].call = "get"
        BY <1>1, <4>2
      <4>6. queue' = <<>> /\ DOMAIN queue' = {}
        BY <1>3, <4>1
      <4>7. NotWritten(d)'
        BY <4>5, <4>6 DEF NotWritten
      <4> QED
        BY <1>3, <4>1, <4>3, <4>4, <4>6, <4>7
    <3>2. CASE d # d0
      <4>1. before'[d] = before[d] /\ before[d] # Absent
        BY <1>4, <2>1, <3>2
      <4>2. /\ ~Resetting /\ \A i \in DOMAIN queue : queue[i].d # d
            /\ NotWritten(d)
            /\ \A u \in Tasks : pc[u] = "remove" /\ op[u].d = d => Removing(u, d)
            /\ stored[d] = before[d] \/ stored[d]["identity"] = Absent
        BY <2>1, <4>1 DEF IInv, Compared
      <4>3. ~Resetting'
        BY <1>1, <4>2 DEF Resetting
      <4>4. \A u \in Tasks : pc'[u] = "remove" /\ op'[u].d = d => Removing(u, d)'
        BY <1>1, <1>2, <3>2, <4>2 DEF Removing
      <4> QED
        BY <1>3, <1>5, <4>1, <4>2, <4>3, <4>4
    <3> QED
      BY <3>1, <3>2
  <2> QED
    BY <2>1 DEF Compared, OneWriter
<1> QED
  BY <1>6, <1>7, <1>8 DEF Safe

(* A step of a removal of d0 by task t keeps what holds of every other     *)
(* device; what holds of d0 remains to be shown.                           *)
LEMMA RemovalStep ==
  ASSUME IInv, NEW t \in Tasks, NEW d0 \in Devices, pc[t] = "remove", op[t].d = d0,
         before' = before,
         \A d \in Devices : d # d0 => gone'[d] = gone[d] /\ stored'[d] = stored[d],
         \A u \in Tasks : u # t => pc'[u] = pc[u] /\ op'[u] = op[u],
         \/ pc'[t] = "idle"
         \/ /\ pc'[t] = "remove" /\ op'[t].d = d0
            /\ op'[t].call = op[t].call /\ op'[t].what = op[t].what,
         \/ queue' = queue
         \/ /\ op[t].call # "remove"
            /\ \E r : r.d = d0 /\ r.val = Absent /\ queue' = Append(queue, r),
         \A k \in Kinds : stored[d0][k] = Absent => stored'[d0][k] = Absent,
         OneWriter(d0) /\ Removing(t, d0)' =>
           /\ op'[t].plan = Plan("all") \/ (~InPlan(t, "identity")' /\ NotWritten(d0)')
           /\ \A k \in Kinds : ~InPlan(t, k)' => stored'[d0][k] = Absent,
         OneWriter(d0) /\ gone'[d0] /\ ~gone[d0] =>
           NotWritten(d0) /\ \A k \in Kinds : stored[d0][k] = Absent,
         OneWriter(d0) /\ before[d0] # Absent =>
           stored'[d0] = stored[d0] \/ stored'[d0]["identity"] = Absent
  PROVE  Safe'
<1>0. "identity" \in Kinds
  BY DEF Kinds, Plain
<1>1. \A i \in DOMAIN queue' :
        \/ i \in DOMAIN queue /\ queue'[i] = queue[i]
        \/ queue'[i].d = d0 /\ queue'[i].val = Absent /\ op[t].call # "remove"
  <2>1. CASE queue' = queue
    BY <2>1
  <2>2. CASE queue' # queue
    <3>1. PICK r : /\ r.d = d0 /\ r.val = Absent /\ queue' = Append(queue, r)
                   /\ op[t].call # "remove"
      BY <2>2
    <3>2. queue \in Seq(Requests)
      BY DEF IInv, TypeInv
    <3>3. DOMAIN queue' = 1 .. Len(queue) + 1 /\ DOMAIN queue = 1 .. Len(queue) /\ Len(queue) \in Nat
      BY <3>1, <3>2
    <3>4. \A i \in 1 .. Len(queue) : queue'[i] = queue[i]
      BY <3>1, <3>2
    <3>5. queue'[Len(queue) + 1] = r
      BY <3>1, <3>2
    <3>6. ASSUME NEW i \in DOMAIN queue'
          PROVE  i \in 1 .. Len(queue) \/ i = Len(queue) + 1
      BY <3>3
    <3> QED
      BY <3>1, <3>3, <3>4, <3>5, <3>6
  <2> QED
    BY <2>1, <2>2
<1>2. ASSUME NEW d \in Devices, NotWritten(d) PROVE NotWritten(d)'
  <2>1. ASSUME NEW u \in Tasks, pc'[u] \in {"load", "fill", "put", "write"}, op'[u].d = d
        PROVE  op'[u].call = "get"
    BY <1>2, <2>1 DEF NotWritten
  <2>2. ASSUME NEW i \in DOMAIN queue', queue'[i].d = d PROVE queue'[i].val = Absent
    BY <1>1, <1>2, <2>2 DEF NotWritten
  <2> QED
    BY <2>1, <2>2 DEF NotWritten
<1>3. ASSUME NEW u \in Tasks, u # t, OneWriter(d0), pc[u] = "remove", op[u].d = d0
      PROVE  FALSE
  <2>1. t \in Writers[d0]
    BY DEF IInv, TypeInv, LocalsOK
  <2> QED
    BY <1>3, <2>1, RemoverWrites DEF IInv
<1>4. Underway'
  <2>1. ASSUME NEW d \in Devices, NEW u \in Tasks, OneWriter(d), Removing(u, d)'
        PROVE  /\ op'[u].plan = Plan("all") \/ (~InPlan(u, "identity")' /\ NotWritten(d)')
               /\ \A k \in Kinds : ~InPlan(u, k)' => stored'[d][k] = Absent
    <3>1. CASE u = t
      <4>1. d = d0
        BY <2>1, <3>1 DEF Removing
      <4> QED
        BY <2>1, <3>1, <4>1
    <3>2. CASE u # t
      <4>1. Removing(u, d) /\ op'[u] = op[u]
        BY <2>1, <3>2 DEF Removing
      <4>2. d # d0
        BY <1>3, <2>1, <3>2, <4>1 DEF Removing
      <4>3. /\ op[u].plan = Plan("all") \/ (~InPlan(u, "identity") /\ NotWritten(d))
            /\ \A k \in Kinds : ~InPlan(u, k) => stored[d][k] = Absent
        BY <2>1, <4>1 DEF IInv, Underway
      <4>4. \A k : InPlan(u, k)' <=> InPlan(u, k)
        BY <4>1 DEF InPlan
      <4> QED
        BY <1>2, <4>1, <4>2, <4>3, <4>4
    <3> QED
      BY <3>1, <3>2
  <2> QED
    BY <2>1 DEF Underway, OneWriter
<1>5. GoneStays'
  <2>1. ASSUME NEW d \in Devices, OneWriter(d), gone'[d]
        PROVE  NotWritten(d)' /\ \A k \in Kinds : stored'[d][k] = Absent
    <3>1. NotWritten(d) /\ \A k \in Kinds : stored[d][k] = Absent
      <4>1. CASE gone[d]
        BY <2>1, <4>1 DEF IInv, GoneStays
      <4>2. CASE ~gone[d]
        <5>1. d = d0
          BY <2>1, <4>2
        <5> QED
          BY <2>1, <4>2, <5>1
      <4> QED
        BY <4>1, <4>2
    <3>2. CASE d = d0
      BY <1>2, <3>1, <3>2
    <3>3. CASE d # d0
      BY <1>2, <3>1, <3>3
    <3> QED
      BY <3>2, <3>3
  <2> QED
    BY <2>1 DEF GoneStays, OneWriter
<1>6. Compared'
  <2>1. ASSUME NEW d \in Devices, OneWriter(d), before[d] # Absent
        PROVE  /\ ~Resetting'
               /\ \A i \in DOMAIN queue' : queue'[i].d # d
               /\ NotWritten(d)'
               /\ \A u \in Tasks : pc'[u] = "remove" /\ op'[u].d = d => Removing(u, d)'
               /\ stored'[d] = before[d] \/ stored'[d]["identity"] = Absent
    <3>1. /\ ~Resetting /\ \A i \in DOMAIN queue : queue[i].d # d
          /\ NotWritten(d)
          /\ \A u \in Tasks : pc[u] = "remove" /\ op[u].d = d => Removing(u, d)
          /\ stored[d] = before[d] \/ stored[d]["identity"] = Absent
      BY <2>1 DEF IInv, Compared
    <3>2. ~Resetting'
      BY <3>1 DEF Resetting
    <3>3. \A u \in Tasks : pc'[u] = "remove" /\ op'[u].d = d => Removing(u, d)'
      BY <3>1 DEF Removing
    <3>4. \A i \in DOMAIN queue' : queue'[i].d # d
      BY <1>1, <3>1 DEF Removing
    <3>5. stored'[d] = before[d] \/ stored'[d]["identity"] = Absent
      <4>1. CASE d = d0
        BY <1>0, <2>1, <3>1, <4>1
      <4>2. CASE d # d0
        BY <3>1, <4>2
      <4> QED
        BY <4>1, <4>2
    <3> QED
      BY <1>2, <3>1, <3>2, <3>3, <3>4, <3>5
  <2> QED
    BY <2>1 DEF Compared, OneWriter
<1> QED
  BY <1>4, <1>5, <1>6 DEF Safe

(* A step of a removal of all takes the next kind of its plan; the first,  *)
(* the identity, when every request queued before has run.                 *)
LEMMA PlanGoesOn ==
  ASSUME IInv, NEW t \in Tasks, NEW d0 \in Devices, OneWriter(d0), Removing(t, d0),
         op[t].plan # <<>>, pc'[t] = "remove", op'[t].plan = Tail(op[t].plan),
         \A u \in Tasks : u # t => pc'[u] = pc[u] /\ op'[u] = op[u],
         queue' = queue, Head(op[t].plan) = "identity" => queue = <<>>,
         \A k \in Kinds : \/ stored'[d0][k] = Absent
                          \/ stored'[d0][k] = stored[d0][k] /\ k # Head(op[t].plan)
  PROVE  /\ ~InPlan(t, "identity")' /\ NotWritten(d0)'
         /\ \A k \in Kinds : ~InPlan(t, k)' => stored'[d0][k] = Absent
<1> DEFINE p == op[t].plan
<1>1. /\ pc[t] = "remove" /\ op[t].d = d0 /\ t \in Writers[d0]
      /\ p \in Seq(Kinds \cup {"invalidate"})
  BY DEF Removing, IInv, TypeInv, LocalsOK, RemoveOps
<1>2. /\ p = Plan("all") \/ (~InPlan(t, "identity") /\ NotWritten(d0))
      /\ \A k \in Kinds : ~InPlan(t, k) => stored[d0][k] = Absent
  BY DEF IInv, Underway
<1>3. /\ \A i \in DOMAIN Tail(p) : \E j \in DOMAIN p : p[j] = Tail(p)[i]
      /\ \A j \in DOMAIN p : p[j] = Head(p) \/ \E i \in DOMAIN Tail(p) : Tail(p)[i] = p[j]
  BY <1>1, TailOf
<1>4. ~InPlan(t, "identity")'
  <2>1. CASE p = Plan("all")
    BY <2>1, PlanOfAll DEF InPlan
  <2>2. CASE ~InPlan(t, "identity")
    BY <1>3, <2>2 DEF InPlan
  <2> QED
    BY <1>2, <2>1, <2>2
<1>5. NotWritten(d0)
  <2>1. CASE p = Plan("all")
    <3>1. queue = <<>> /\ DOMAIN queue = {}
      BY <2>1, PlanOfAll
    <3>2. \A u \in Tasks :
            pc[u] \in {"load", "fill", "put", "write"} /\ op[u].d = d0 /\ op[u].call # "get"
              => u = t
      BY <1>1, RemoverWrites DEF IInv
    <3> QED
      BY <1>1, <3>1, <3>2 DEF NotWritten
  <2> QED
    BY <1>2, <2>1
<1>6. NotWritten(d0)'
  BY <1>5 DEF NotWritten
<1>7. ASSUME NEW k \in Kinds, ~InPlan(t, k)' PROVE stored'[d0][k] = Absent
  <2>1. CASE k = Head(p)
    BY <2>1
  <2>2. CASE k # Head(p)
    <3>1. ~InPlan(t, k)
      BY <1>3, <1>7, <2>2 DEF InPlan
    <3> QED
      BY <1>2, <3>1
  <2> QED
    BY <2>1, <2>2
<1> QED
  BY <1>4, <1>6, <1>7

LEMMA SafeInvalidate ==
  ASSUME IInv, NEW t \in Tasks, Invalidate(t)
  PROVE  Safe'
<1>1. /\ pc[t] = "remove" /\ op[t].plan # <<>> /\ Head(op[t].plan) = "invalidate"
      /\ NextStep(t)
      /\ stored' = stored /\ queue' = queue /\ gone' = gone /\ before' = before
  BY DEF Invalidate, Step, histories
<1>2. PICK d0 \in Devices : op[t].d = d0
  BY <1>1 DEF IInv, TypeInv, LocalsOK, RemoveOps
<1>3. /\ pc'[t] = "remove" /\ op'[t].plan = Tail(op[t].plan)
      /\ op'[t].d = op[t].d /\ op'[t].call = op[t].call /\ op'[t].what = op[t].what
      /\ \A u \in Tasks : u # t => pc'[u] = pc[u] /\ op'[u] = op[u]
  BY <1>1, NextStepType DEF IInv
<1>4. "invalidate" \notin Kinds
  BY DEF Kinds, Plain
<1>5. ASSUME OneWriter(d0), Removing(t, d0)'
      PROVE  /\ ~InPlan(t, "identity")' /\ NotWritten(d0)'
             /\ \A k \in Kinds : ~InPlan(t, k)' => stored'[d0][k] = Absent
  <2>1. Removing(t, d0)
    BY <1>1, <1>2, <1>3, <1>5 DEF Removing
  <2>2. \/ op[t].plan = Plan("all")
        \/ \A k \in Kinds : ~InPlan(t, k) => stored[d0][k] = Absent
    BY <1>2, <1>5, <2>1 DEF IInv, Underway
  <2>3. op[t].plan # Plan("all")
    BY <1>1, PlanOfAll
  <2>4. /\ ~InPlan(t, "identity") /\ NotWritten(d0)
        /\ \A k \in Kinds : ~InPlan(t, k) => stored[d0][k] = Absent
    BY <1>2, <1>5, <2>1, <2>3 DEF IInv, Underway
  <2>5. op[t].plan \in Seq(Kinds \cup {"invalidate"})
    BY <1>1 DEF IInv, TypeInv, LocalsOK, RemoveOps
  <2>6. \A k \in Kinds : InPlan(t, k)' <=> InPlan(t, k)
    BY <1>1, <1>3, <1>4, <2>5, TailOf DEF InPlan
  <2>7. "identity" \in Kinds
    BY DEF Kinds, Plain
  <2>8. NotWritten(d0)'
    BY <1>1, <1>3, <2>4 DEF NotWritten
  <2> QED
    BY <1>1, <2>4, <2>6, <2>7, <2>8
<1> QED
  BY <1>1, <1>2, <1>3, <1>5, RemovalStep

LEMMA SafeRemoveKind ==
  ASSUME IInv, NEW t \in Tasks, RemoveKind(t)
  PROVE  Safe'
<1>1. PICK k0 \in Kinds :
        /\ Step(t, k0)
        /\ \E end \in Ends(With(op[t].d, k0, Absent)) :
             stored' = end.stored /\ IF end.ok THEN NextStep(t) ELSE Return(t)
  BY DEF RemoveKind
<1>2. /\ pc[t] = "remove" /\ op[t].plan # <<>> /\ Head(op[t].plan) = k0
      /\ op[t].call = "remove" /\ queue = <<>>
      /\ queue' = queue /\ gone' = gone /\ before' = before
  BY <1>1 DEF RemoveKind, Step, Reached, histories
<1>3. PICK d0 \in Devices : op[t].d = d0 /\ t \in Writers[d0]
  BY <1>2 DEF IInv, TypeInv, LocalsOK, RemoveOps
<1> DEFINE new == With(d0, k0, Absent)
<1>4. /\ new[d0][k0] = Absent
      /\ \A k \in Kinds : k # k0 => new[d0][k] = stored[d0][k]
      /\ \A d \in Devices : d # d0 => new[d] = stored[d]
  BY <1>3, WithType DEF IInv, TypeInv
<1>5. \/ stored' = stored /\ Return(t)
      \/ stored' = new /\ (NextStep(t) \/ Return(t))
  BY <1>1, <1>3, EndsAre
<1> HIDE DEF new
<1>6. /\ \A d \in Devices : d # d0 => stored'[d] = stored[d]
      /\ \A k \in Kinds : stored[d0][k] = Absent => stored'[d0][k] = Absent
      /\ stored'[d0] = stored[d0] \/ stored'[d0][k0] = Absent
  BY <1>4, <1>5
<1>7. ASSUME OneWriter(d0), before[d0] # Absent
      PROVE  stored'[d0] = stored[d0] \/ stored'[d0]["identity"] = Absent
  <2>1. Removing(t, d0)
    BY <1>2, <1>3, <1>7 DEF IInv, Compared
  <2>2. CASE op[t].plan = Plan("all")
    BY <1>2, <1>6, <2>2, PlanOfAll
  <2>3. CASE op[t].plan # Plan("all")
    <3>1. ~InPlan(t, "identity") /\ "identity" \in Kinds
      BY <1>3, <1>7, <2>1, <2>3 DEF IInv, Underway, Kinds, Plain
    <3>2. stored[d0]["identity"] = Absent
      BY <1>3, <1>7, <2>1, <3>1 DEF IInv, Underway
    <3> QED
      BY <1>6, <3>1, <3>2
  <2> QED
    BY <2>2, <2>3
<1>8. CASE Return(t)
  <2>1. pc'[t] = "idle" /\ \A u \in Tasks : u # t => pc'[u] = pc[u] /\ op'[u] = op[u]
    BY <1>8, ReturnType DEF IInv
  <2>2. ~Removing(t, d0)'
    BY <2>1 DEF Removing
  <2> QED
    BY <1>2, <1>3, <1>6, <1>7, <2>1, <2>2, RemovalStep
<1>9. CASE stored' = new /\ NextStep(t)
  <2>1. /\ pc'[t] = "remove" /\ op'[t].plan = Tail(op[t].plan)
        /\ op'[t].d = op[t].d /\ op'[t].call = op[t].call /\ op'[t].what = op[t].what
        /\ \A u \in Tasks : u # t => pc'[u] = pc[u] /\ op'[u] = op[u]
    BY <1>2, <1>9, NextStepType DEF IInv
  <2>2. ASSUME OneWriter(d0), Removing(t, d0)'
        PROVE  /\ ~InPlan(t, "identity")' /\ NotWritten(d0)'
               /\ \A k \in Kinds : ~InPlan(t, k)' => stored'[d0][k] = Absent
    <3>1. Removing(t, d0)
      BY <1>2, <1>3, <2>1, <2>2 DEF Removing
    <3>2. \A k \in Kinds : \/ stored'[d0][k] = Absent
                           \/ stored'[d0][k] = stored[d0][k] /\ k # Head(op[t].plan)
      BY <1>2, <1>4, <1>5, <1>9
    <3> QED
      BY <1>2, <1>3, <2>1, <2>2, <3>1, <3>2, PlanGoesOn
  <2> QED
    BY <1>2, <1>3, <1>6, <1>7, <2>1, <2>2, RemovalStep
<1> QED
  BY <1>5, <1>8, <1>9

LEMMA SafePostKind ==
  ASSUME IInv, NEW t \in Tasks, PostKind(t)
  PROVE  Safe'
<1>1. PICK k \in Kinds : Step(t, k) /\ Post(op[t].d, k, Absent)
  BY DEF PostKind
<1>2. /\ pc[t] = "remove" /\ op[t].plan # <<>> /\ op[t].call = "removeAsync"
      /\ stored' = stored /\ gone' = gone /\ before' = before /\ NextStep(t)
  BY <1>1 DEF PostKind, Step, histories
<1>3. PICK d0 \in Devices : op[t].d = d0
  BY <1>2 DEF IInv, TypeInv, LocalsOK, RemoveOps
<1>4. /\ pc'[t] = "remove" /\ op'[t].d = op[t].d /\ op'[t].call = op[t].call
      /\ op'[t].what = op[t].what
      /\ \A u \in Tasks : u # t => pc'[u] = pc[u] /\ op'[u] = op[u]
  BY <1>2, NextStepType DEF IInv
<1>5. ~Removing(t, d0)'
  BY <1>2, <1>4 DEF Removing
<1> DEFINE r == [d |-> d0, kind |-> k, val |-> Absent]
<1>6. r.d = d0 /\ r.val = Absent
  OBVIOUS
<1>7. queue' = queue \/ queue' = Append(queue, r)
  BY <1>1, <1>3, PostType DEF IInv
<1> HIDE DEF r
<1>8. queue' = queue \/ \E q : q.d = d0 /\ q.val = Absent /\ queue' = Append(queue, q)
  BY <1>6, <1>7
<1> QED
  BY <1>2, <1>3, <1>4, <1>5, <1>8, RemovalStep

(* The plan is empty: every kind is gone, and nothing is written any more. *)
LEMMA SafeRemoved ==
  ASSUME IInv, NEW t \in Tasks, Removed(t)
  PROVE  Safe'
<1>1. /\ pc[t] = "remove" /\ op[t].plan = <<>> /\ Return(t)
      /\ stored' = stored /\ queue' = queue /\ before' = before
  BY DEF Removed
<1>2. PICK d0 \in Devices : op[t].d = d0
  BY <1>1 DEF IInv, TypeInv, LocalsOK, RemoveOps
<1>3. pc'[t] = "idle" /\ \A u \in Tasks : u # t => pc'[u] = pc[u] /\ op'[u] = op[u]
  BY <1>1, ReturnType DEF IInv
<1>4. ~Removing(t, d0)'
  BY <1>3 DEF Removing
<1>5. /\ \A d \in Devices : d # d0 => gone'[d] = gone[d]
      /\ gone'[d0] /\ ~gone[d0] => Removing(t, d0)
  BY <1>1, <1>2 DEF Removed, Removing, IInv, TypeInv
<1>6. ASSUME OneWriter(d0), gone'[d0], ~gone[d0]
      PROVE  NotWritten(d0) /\ \A k \in Kinds : stored[d0][k] = Absent
  <2>1. Removing(t, d0)
    BY <1>5, <1>6
  <2>2. op[t].plan # Plan("all")
    BY <1>1, PlanOfAll
  <2>3. \A k \in Kinds : ~InPlan(t, k)
    BY <1>1 DEF InPlan
  <2> QED
    BY <1>2, <1>6, <2>1, <2>2, <2>3 DEF IInv, Underway
<1> QED
  BY <1>1, <1>2, <1>3, <1>4, <1>5, <1>6, RemovalStep

(* A factory reset ends every comparison, and then only takes records away. *)
LEMMA SafeReset ==
  ASSUME IInv, NEW t \in Tasks, FactoryReset(t) \/ ResetKind(t) \/ ResetEnds(t)
  PROVE  Safe'
<1>1. /\ pc[t] \in {"idle", "reset"} /\ pc'[t] \in {"idle", "reset"}
      /\ \A u \in Tasks : u # t => pc'[u] = pc[u] /\ op'[u] = op[u]
      /\ queue' = queue /\ gone' = gone
  BY DEF FactoryReset, ResetKind, ResetEnds, Starts, Return, Goto, histories, IInv, TypeInv
<1>2. \A d \in Devices, k \in Kinds : stored'[d][k] = stored[d][k] \/ stored'[d][k] = Absent
  <2>1. CASE ResetKind(t)
    BY <2>1, ResetStored DEF IInv
  <2>2. CASE FactoryReset(t) \/ ResetEnds(t)
    BY <2>2 DEF FactoryReset, ResetEnds
  <2> QED
    BY <2>1, <2>2
<1>3. ASSUME NEW d \in Devices, NotWritten(d) PROVE NotWritten(d)'
  <2>1. ASSUME NEW u \in Tasks, pc'[u] \in {"load", "fill", "put", "write"}, op'[u].d = d
        PROVE  op'[u].call = "get"
    BY <1>1, <1>3, <2>1 DEF NotWritten
  <2> QED
    BY <1>1, <1>3, <2>1 DEF NotWritten
<1>4. \A u \in Tasks, d \in Devices : Removing(u, d)' => Removing(u, d) /\ op'[u] = op[u]
  BY <1>1 DEF Removing
<1>5. Underway'
  <2>1. ASSUME NEW d \in Devices, NEW u \in Tasks, OneWriter(d), Removing(u, d)'
        PROVE  /\ op'[u].plan = Plan("all") \/ (~InPlan(u, "identity")' /\ NotWritten(d)')
               /\ \A k \in Kinds : ~InPlan(u, k)' => stored'[d][k] = Absent
    <3>1. Removing(u, d) /\ op'[u] = op[u]
      BY <1>4, <2>1
    <3>2. /\ op[u].plan = Plan("all") \/ (~InPlan(u, "identity") /\ NotWritten(d))
          /\ \A k \in Kinds : ~InPlan(u, k) => stored[d][k] = Absent
      BY <2>1, <3>1 DEF IInv, Underway
    <3>3. \A k : InPlan(u, k)' <=> InPlan(u, k)
      BY <3>1 DEF InPlan
    <3> QED
      BY <1>2, <1>3, <3>1, <3>2, <3>3
  <2> QED
    BY <2>1 DEF Underway, OneWriter
<1>6. GoneStays'
  <2>1. ASSUME NEW d \in Devices, OneWriter(d), gone[d]
        PROVE  NotWritten(d)' /\ \A k \in Kinds : stored'[d][k] = Absent
    BY <1>2, <1>3, <2>1 DEF IInv, GoneStays
  <2> QED
    BY <1>1, <2>1 DEF GoneStays, OneWriter
<1>7. Compared'
  <2>1. ASSUME NEW d \in Devices, OneWriter(d) PROVE before'[d] = Absent
    <3>1. CASE FactoryReset(t)
      BY <3>1 DEF FactoryReset
    <3>2. CASE ResetKind(t) \/ ResetEnds(t)
      <4>1. Resetting /\ before' = before
        BY <3>2 DEF ResetKind, ResetEnds, Resetting, histories
      <4> QED
        BY <2>1, <4>1 DEF IInv, Compared
    <3> QED
      BY <3>1, <3>2
  <2> QED
    BY <2>1 DEF Compared, OneWriter
<1> QED
  BY <1>5, <1>6, <1>7 DEF Safe

LEMMA SafeRestart ==
  ASSUME IInv, Restart
  PROVE  Safe'
<1>1. /\ stored' = stored /\ gone' = gone /\ before' = before
      /\ queue' = <<>> /\ DOMAIN queue' = {} /\ \A u \in Tasks : pc'[u] = "idle"
  BY DEF Restart, histories
<1>2. \A d \in Devices : NotWritten(d)'
  BY <1>1 DEF NotWritten
<1>3. Underway'
  BY <1>1 DEF Underway, Removing
<1>4. GoneStays'
  BY <1>1, <1>2 DEF IInv, GoneStays, OneWriter
<1>5. Compared'
  BY <1>1, <1>2 DEF IInv, Compared, OneWriter, Resetting
<1> QED
  BY <1>3, <1>4, <1>5 DEF Safe

LEMMA InvInit == Init => IInv
<1> SUFFICES ASSUME Init PROVE IInv
  OBVIOUS
<1>1. /\ \A u \in Tasks : pc[u] = "idle"
      /\ \A d \in Devices : gone[d] = FALSE /\ before[d] = Absent
  BY DEF Init
<1> QED
  BY <1>1, TypeInit DEF IInv, Underway, GoneStays, Compared, Removing

LEMMA InvStep == IInv /\ [Next]_vars => IInv'
<1> SUFFICES ASSUME IInv, [Next]_vars PROVE Safe'
  BY TypeStep DEF IInv, Safe
<1>0. TypeInv'
  BY TypeStep DEF IInv
<1>1. CASE UNCHANGED vars
  BY <1>1, SafeUnmoved DEF vars
<1>2. ASSUME NEW t \in Tasks, NEW d \in Devices,
             \/ GetDeviceElemsState(t, d)
             \/ \E e \in Elems, v \in Values :
                  AddElementInfo(t, d, e, v) \/ UpdateElementState(t, d, e, v)
             \/ \E k \in Plain : Set(t, d, k) \/ SetAsync(t, d, k)
      PROVE  Safe'
  BY <1>0, <1>2, SafeStart
<1>3. ASSUME NEW t \in Tasks, NEW d \in Devices, NEW call \in {"remove", "removeAsync"},
             NEW what \in Kinds \cup {"all"}, Remove(t, call, d, what)
      PROVE  Safe'
  BY <1>3, SafeRemove
<1>4. ASSUME NEW t \in Tasks, Load(t) \/ Fill(t) \/ Put(t) \/ Write(t)
      PROVE  Safe'
  BY <1>4, SafeStateStep, SafeWrite
<1>5. ASSUME NEW t \in Tasks, Invalidate(t) \/ RemoveKind(t) \/ PostKind(t) \/ Removed(t)
      PROVE  Safe'
  BY <1>5, SafeInvalidate, SafeRemoveKind, SafePostKind, SafeRemoved
<1>6. ASSUME NEW t \in Tasks, FactoryReset(t) \/ ResetKind(t) \/ ResetEnds(t)
      PROVE  Safe'
  BY <1>6, SafeReset
<1>7. ASSUME NEW t \in Tasks, InvalidateCache(t)
      PROVE  Safe'
  BY <1>7, SafeUnmoved DEF InvalidateCache, histories
<1>8. ASSUME NEW d \in Devices, Evict(d)
      PROVE  Safe'
  BY <1>8, SafeUnmoved DEF Evict, histories
<1>9. CASE Finished
  BY <1>1, <1>9 DEF Finished
<1> QED
  BY <1>1, <1>2, <1>3, <1>4, <1>5, <1>6, <1>7, <1>8, <1>9, SafeRunQueued, SafeRestart DEF Next

-----------------------------------------------------------------------------
(* A device with one writer has nothing left in the storage once its       *)
(* removal answered IOT_OK, and until that writer writes it again: no      *)
(* request of an earlier asynchronous call and no call of another task     *)
(* brings a record back.                                                   *)
THEOREM RemovalComplete == Spec => []RemovedLeavesNothing
<1>1. IInv => RemovedLeavesNothing
  BY DEF IInv, GoneStays, RemovedLeavesNothing
<1> QED
  BY <1>1, InvInit, InvStep, PTL DEF Spec

(* A removal of such a device that fails or is cut off has removed the     *)
(* identity before anything else: while the identity is there, so is all   *)
(* that was stored when the removal began.                                 *)
THEOREM IdentityGoesFirst == Spec => []RemovesIdentityFirst
<1>1. IInv => RemovesIdentityFirst
  BY DEF IInv, Compared, RemovesIdentityFirst
<1> QED
  BY <1>1, InvInit, InvStep, PTL DEF Spec

-----------------------------------------------------------------------------
(* Acknowledged updates: the state of the elements *)

(* A set of positions has a first one: of the intervals up to each, one     *)
(* holds no other.                                                           *)
LEMMA FirstPosition ==
  ASSUME NEW n \in Nat, NEW S \in SUBSET (1 .. n), S # {}
  PROVE  \E m \in S : \A l \in S : m <= l
<1> DEFINE T == {1 .. k : k \in S}
<1>1. \A k \in S : k \in Nat /\ 1 .. k \in FiniteSubsetsOf(Nat)
  <2> SUFFICES ASSUME NEW k \in S
               PROVE  k \in Nat /\ 1 .. k \in FiniteSubsetsOf(Nat)
    OBVIOUS
  <2>1. IsFiniteSet(1 .. k)
    BY FS_Interval
  <2> QED
    BY <2>1 DEF FiniteSubsetsOf
<1>2. T \subseteq FiniteSubsetsOf(Nat) /\ T # {}
  BY <1>1
<1>3. PICK x \in T : \A y \in T : <<y, x>> \notin StrictSubsetOrdering(Nat)
  <2>1. IsWellFoundedOn(StrictSubsetOrdering(Nat), FiniteSubsetsOf(Nat))
    BY FS_StrictSubsetOrderingWellFounded
  <2> HIDE DEF T
  <2> QED
    BY <1>2, <2>1, WFMin
<1>4. PICK m \in S : x = 1 .. m
  OBVIOUS
<1>5. ASSUME NEW l \in S, l < m
      PROVE  FALSE
  <2>1. 1 .. l \subseteq 1 .. m /\ 1 .. l # 1 .. m
    <3>1. m \in 1 .. m /\ m \notin 1 .. l
      BY <1>1, <1>5
    <3> QED
      BY <1>1, <1>5, <3>1
  <2>2. 1 .. l \in SUBSET Nat /\ 1 .. m \in SUBSET Nat
    OBVIOUS
  <2>3. <<1 .. l, 1 .. m>> \in StrictSubsetOrdering(Nat)
    BY <2>1, <2>2 DEF StrictSubsetOrdering
  <2> QED
    BY <1>3, <1>4, <2>3
<1> QED
  BY <1>1, <1>5

(* An element that is there is found at the first of its positions, which   *)
(* nothing but that tells apart.                                            *)
LEMMA FirstIs ==
  ASSUME NEW s \in Seq(Pairs), NEW e \in Elems, Has(s, e)
  PROVE  /\ First(s, e) \in DOMAIN s /\ s[First(s, e)].id = e
         /\ \A j \in DOMAIN s : s[j].id = e => First(s, e) <= j
         /\ \A i \in DOMAIN s :
              s[i].id = e /\ (\A j \in DOMAIN s : s[j].id = e => i <= j) => First(s, e) = i
<1> DEFINE P == At(s, e)
<1>1. Len(s) \in Nat /\ DOMAIN s = 1 .. Len(s)
  OBVIOUS
<1>2. P \in SUBSET (1 .. Len(s)) /\ P # {}
  BY <1>1 DEF At, Has
<1>3. First(s, e) = CHOOSE i \in P : \A j \in P : i <= j
  BY DEF First
<1>4. \A i \in DOMAIN s : i \in P <=> s[i].id = e
  BY DEF At
<1>0. \A i \in P : i \in Nat
  BY <1>1, <1>2
<1> HIDE DEF P
<1>5. \E i \in P : \A j \in P : i <= j
  BY <1>1, <1>2, FirstPosition
<1>6. First(s, e) \in P /\ \A j \in P : First(s, e) <= j
  BY <1>3, <1>5
<1>7. ASSUME NEW i \in DOMAIN s, s[i].id = e, \A j \in DOMAIN s : s[j].id = e => i <= j
      PROVE  First(s, e) = i
  <2>1. i \in P /\ First(s, e) <= i
    BY <1>4, <1>6, <1>7
  <2>2. i <= First(s, e)
    BY <1>1, <1>2, <1>4, <1>6, <1>7
  <2>3. i \in Nat /\ First(s, e) \in Nat
    BY <1>0, <1>6, <2>1
  <2> QED
    BY <2>1, <2>2, <2>3
<1> QED
  BY <1>1, <1>2, <1>4, <1>6, <1>7

(* A state whose elements have the same numbers finds the same positions.   *)
LEMMA SameFirst ==
  ASSUME NEW s \in Seq(Pairs), NEW r \in Seq(Pairs), NEW e \in Elems, Has(s, e),
         Len(s) <= Len(r), \A i \in 1 .. Len(s) : r[i].id = s[i].id
  PROVE  Has(r, e) /\ First(r, e) = First(s, e)
<1> DEFINE m == First(s, e)
<1>1. /\ Len(s) \in Nat /\ DOMAIN s = 1 .. Len(s)
      /\ Len(r) \in Nat /\ DOMAIN r = 1 .. Len(r)
  OBVIOUS
<1>2. m \in DOMAIN s /\ s[m].id = e /\ \A j \in DOMAIN s : s[j].id = e => m <= j
  BY FirstIs
<1> HIDE DEF m
<1>3. m \in DOMAIN r /\ r[m].id = e
  BY <1>1, <1>2
<1>4. \A j \in DOMAIN r : r[j].id = e => m <= j
  BY <1>1, <1>2
<1>5. Has(r, e)
  BY <1>3 DEF Has, At
<1>6. First(r, e) = m
  BY <1>3, <1>4, <1>5, FirstIs
<1> QED
  BY <1>5, <1>6 DEF m

(* An update gives the element its value and leaves the others alone.       *)
LEMMA UpdatedKeeps ==
  ASSUME NEW s \in Seq(Pairs), NEW e \in Elems, NEW v \in Values
  PROVE  /\ \A f \in Elems \ {e} : Has(s, f) =>
              Has(Updated(s, e, v), f) /\ ValueOf(Updated(s, e, v), f) = ValueOf(s, f)
         /\ Has(Updated(s, e, v), e) => ValueOf(Updated(s, e, v), e) = v
<1> DEFINE r == Updated(s, e, v)
<1>1. CASE ~Has(s, e)
  <2>1. r = s
    BY <1>1 DEF Updated
  <2> QED
    BY <1>1, <2>1
<1>2. CASE Has(s, e)
  <2> DEFINE m == First(s, e)
  <2>1. m \in DOMAIN s /\ s[m].id = e
    BY <1>2, FirstIs
  <2>2. r = [s EXCEPT ![m] = [s[m] EXCEPT !.val = v]]
    BY <1>2, <2>1 DEF Updated
  <2> HIDE DEF m
  <2>0. s[m] \in Pairs
    BY <2>1
  <2>3. [s[m] EXCEPT !.val = v].id = s[m].id /\ [s[m] EXCEPT !.val = v].val = v
    BY ONLY <2>0 DEF Pairs
  <2>4. r[m].id = s[m].id /\ r[m].val = v /\ \A i \in DOMAIN s : i # m => r[i] = s[i]
    BY <2>1, <2>2, <2>3
  <2>5. r \in Seq(Pairs) /\ Len(r) = Len(s)
    BY UpdatedType
  <2> HIDE DEF r
  <2>6. Len(s) \in Nat /\ DOMAIN s = 1 .. Len(s)
    OBVIOUS
  <2>7. \A i \in 1 .. Len(s) : r[i].id = s[i].id
    BY <2>4, <2>6
  <2>8. ASSUME NEW f \in Elems \ {e}, Has(s, f)
        PROVE  Has(r, f) /\ ValueOf(r, f) = ValueOf(s, f)
    <3>1. Has(r, f) /\ First(r, f) = First(s, f)
      BY <2>5, <2>6, <2>7, <2>8, SameFirst
    <3>2. First(s, f) \in DOMAIN s /\ s[First(s, f)].id = f
      BY <2>8, FirstIs
    <3>3. First(s, f) # m
      BY <2>1, <2>8, <3>2
    <3> QED
      BY <2>4, <3>1, <3>2, <3>3 DEF ValueOf
  <2>9. First(r, e) = m
    BY <1>2, <2>5, <2>6, <2>7, SameFirst DEF m
  <2>10. ValueOf(r, e) = v
    BY <2>4, <2>9 DEF ValueOf
  <2> QED
    BY <2>8, <2>10 DEF r
<1> QED
  BY <1>1, <1>2

(* An addition leaves what is there alone. *)
LEMMA AddedKeeps ==
  ASSUME NEW s \in Seq(Pairs), NEW e \in Elems, NEW v \in Values, NEW f \in Elems, Has(s, f)
  PROVE  Has(Added(s, e, v), f) /\ ValueOf(Added(s, e, v), f) = ValueOf(s, f)
<1> DEFINE p == [id |-> e, val |-> v]
           r == Append(s, p)
<1>1. p \in Pairs /\ Added(s, e, v) = r
  BY DEF Pairs, Added
<1> HIDE DEF p
<1>2. r \in Seq(Pairs) /\ Len(r) = Len(s) + 1 /\ \A i \in 1 .. Len(s) : r[i] = s[i]
  BY <1>1
<1>3. Len(s) \in Nat /\ DOMAIN s = 1 .. Len(s)
  OBVIOUS
<1> HIDE DEF r
<1>4. Len(s) <= Len(r)
  BY <1>2, <1>3
<1>5. Has(r, f) /\ First(r, f) = First(s, f)
  BY <1>2, <1>4, SameFirst
<1>6. First(s, f) \in DOMAIN s
  BY FirstIs
<1>7. r[First(r, f)] = s[First(s, f)]
  BY <1>2, <1>3, <1>5, <1>6
<1> QED
  BY <1>1, <1>5, <1>7 DEF ValueOf

-----------------------------------------------------------------------------
(* Acknowledged updates: the inductive invariant *)

(* A state or record s has what a says was acknowledged. *)
Holds(s, a) ==
  \A e \in Elems : a[e] # Unknown => s # Absent /\ Has(s, e) /\ ValueOf(s, e) = a[e]

Nothing(a) == \A e \in Elems : a[e] = Unknown

(* b says no more than a. *)
NoMore(a, b) == \A e \in Elems : b[e] = a[e] \/ b[e] = Unknown

UsesState(t, d) == pc[t] \in {"load", "fill", "put", "write"} /\ op[t].d = d

(* What the calls of a device that one task uses rely on: the cache is      *)
(* empty while the storage is read, the state that a call carries has all   *)
(* that was acknowledged and stands in the cache when it is written, and    *)
(* nothing is acknowledged while the state is being removed.                *)
TaskKeeps(t, d) ==
  /\ UsesState(t, d) => t \in Writers[d] \cup readers[d]
  /\ UsesState(t, d) /\ pc[t] \in {"load", "fill"} => cached[d] = <<>>
  /\ UsesState(t, d) /\ pc[t] # "load" => Holds(op[t].state, acked[d])
  /\ UsesState(t, d) /\ pc[t] = "write" =>
       /\ acked[d][op[t].e] = Unknown
       /\ op[t].call = "update" /\ Has(op[t].state, op[t].e)
            => ValueOf(op[t].state, op[t].e) = op[t].v
       /\ \A i \in DOMAIN cached[d] : cached[d][i] = op[t].state
  /\ pc[t] = "remove" /\ op[t].d = d /\ InPlan(t, "elems") => Nothing(acked[d])
  /\ pc[t] = "reset" => Nothing(acked[d])

(* Its record and its entry have all that was acknowledged, and a removal   *)
(* waits in the queue only when that is nothing.                            *)
DataKeeps(d) ==
  /\ Holds(stored[d]["elems"], acked[d])
  /\ Len(cached[d]) <= 1
  /\ \A i \in DOMAIN cached[d] : cached[d][i] # NoData => Holds(cached[d][i], acked[d])
  /\ \A i \in DOMAIN queue : queue[i].d = d /\ queue[i].kind = "elems" => Nothing(acked[d])

KeptAt(d) == DataKeeps(d) /\ \A t \in Tasks : TaskKeeps(t, d)

KeepInv ==
  /\ acked \in [Devices -> [Elems -> Values \cup {Unknown}]]
  /\ \A d \in Devices : Own(d) => KeptAt(d)

LEMMA HoldsLess ==
  ASSUME NEW s, NEW a, NEW b, Holds(s, a), NoMore(a, b)
  PROVE  Holds(s, b)
BY DEF Holds, NoMore

LEMMA HoldsNothing ==
  ASSUME NEW s, NEW a, Nothing(a)
  PROVE  Holds(s, a)
BY DEF Holds, Nothing

(* No record has only nothing. *)
LEMMA AbsentHolds ==
  ASSUME NEW a, Holds(Absent, a)
  PROVE  Nothing(a)
BY DEF Holds, Nothing

LEMMA NothingLess ==
  ASSUME NEW a, NEW b, Nothing(a), NoMore(a, b)
  PROVE  Nothing(b)
BY DEF Nothing, NoMore

(* The state that an update or an addition makes of one that has what was   *)
(* acknowledged has it too, but for the element that it changes.            *)
LEMMA ChangedHolds ==
  ASSUME NEW o \in StateOps, o.call \in {"add", "update"}, o.e \in Elems, o.v \in Values,
         o.call = "update" => o.state \in States, NEW a, NEW b,
         Holds(o.state, a), NoMore(a, b), b[o.e] = Unknown,
         Len(Changed(o)) <= MaxElems
  PROVE  /\ Holds(Changed(o), b)
         /\ o.call = "update" /\ Has(Changed(o), o.e) => ValueOf(Changed(o), o.e) = o.v
<1>1. o.state \in Seq(Pairs)
  <2>1. o.state \in States \cup {<<>>}
    BY DEF StateOps
  <2>2. <<>> \in Seq(Pairs)
    OBVIOUS
  <2> QED
    BY <2>1, <2>2, StatesAreSequences
<1>2. Changed(o) # Absent
  BY ChangedType, RecordAssumption
<1>3. ASSUME NEW f \in Elems, b[f] # Unknown
      PROVE  /\ f # o.e /\ Has(o.state, f) /\ ValueOf(o.state, f) = b[f]
  BY <1>3 DEF Holds, NoMore
<1>4. CASE o.call = "add"
  <2>1. Changed(o) = Added(o.state, o.e, o.v)
    BY <1>4 DEF Changed
  <2>2. ASSUME NEW f \in Elems, b[f] # Unknown
        PROVE  Has(Changed(o), f) /\ ValueOf(Changed(o), f) = b[f]
    BY <1>1, <1>3, <2>1, <2>2, AddedKeeps
  <2> QED
    BY <1>2, <1>4, <2>2 DEF Holds
<1>5. CASE o.call = "update"
  <2>1. Changed(o) = Updated(o.state, o.e, o.v)
    BY <1>5 DEF Changed
  <2>2. ASSUME NEW f \in Elems, b[f] # Unknown
        PROVE  Has(Changed(o), f) /\ ValueOf(Changed(o), f) = b[f]
    BY <1>1, <1>3, <2>1, <2>2, UpdatedKeeps
  <2>3. Has(Changed(o), o.e) => ValueOf(Changed(o), o.e) = o.v
    BY <1>1, <2>1, UpdatedKeeps
  <2> QED
    BY <1>2, <2>2, <2>3 DEF Holds
<1> QED
  BY <1>4, <1>5

-----------------------------------------------------------------------------
(* Acknowledged updates: the steps *)

(* What is acknowledged, cached and queued of d becomes no more, its record *)
(* stays or nothing is acknowledged, and the tasks stay or rely on it.      *)
LEMMA KeptOn ==
  ASSUME TypeInv, TypeInv', NEW d \in Devices, KeptAt(d), readers' = readers,
         NoMore(acked[d], acked'[d]),
         Len(cached'[d]) <= Len(cached[d]),
         \A i \in DOMAIN cached'[d] :
           \E j \in DOMAIN cached[d] : cached'[d][i] = cached[d][j],
         stored'[d]["elems"] = stored[d]["elems"] \/ Nothing(acked'[d]),
         \A i \in DOMAIN queue' :
           \/ ~(queue'[i].d = d /\ queue'[i].kind = "elems") \/ Nothing(acked'[d])
           \/ \E j \in DOMAIN queue : queue'[i] = queue[j],
         \A u \in Tasks : (pc'[u] = pc[u] /\ op'[u] = op[u]) \/ TaskKeeps(u, d)'
  PROVE  KeptAt(d)'
<1>1. /\ cached[d] \in Seq(States \cup {NoData})
      /\ cached'[d] \in Seq(States \cup {NoData})
  BY DEF TypeInv
<1>2. cached[d] = <<>> => cached'[d] = <<>>
  BY <1>1
<1>3. Nothing(acked[d]) => Nothing(acked'[d])
  BY NothingLess
<1>4. \A s : Holds(s, acked[d]) => Holds(s, acked'[d])
  BY HoldsLess
<1>5. DataKeeps(d)'
  <2>1. Holds(stored'[d]["elems"], acked'[d])
    BY <1>4, HoldsNothing DEF KeptAt, DataKeeps
  <2>2. Len(cached'[d]) <= 1
    BY <1>1 DEF KeptAt, DataKeeps
  <2>3. ASSUME NEW i \in DOMAIN cached'[d], cached'[d][i] # NoData
        PROVE  Holds(cached'[d][i], acked'[d])
    BY <1>4, <2>3 DEF KeptAt, DataKeeps
  <2>4. ASSUME NEW i \in DOMAIN queue', queue'[i].d = d, queue'[i].kind = "elems"
        PROVE  Nothing(acked'[d])
    <3>1. CASE Nothing(acked'[d])
      BY <3>1
    <3>2. ASSUME NEW j \in DOMAIN queue, queue'[i] = queue[j]
          PROVE  Nothing(acked'[d])
      <4>1. Nothing(acked[d])
        BY <2>4, <3>2 DEF KeptAt, DataKeeps
      <4> QED
        BY <1>3, <4>1
    <3> QED
      BY <2>4, <3>1, <3>2
  <2> QED
    BY <2>1, <2>2, <2>3, <2>4 DEF DataKeeps
<1>6. ASSUME NEW u \in Tasks PROVE TaskKeeps(u, d)'
  <2>1. CASE TaskKeeps(u, d)'
    BY <2>1
  <2>2. CASE pc'[u] = pc[u] /\ op'[u] = op[u]
    <3>1. TaskKeeps(u, d)
      BY DEF KeptAt
    <3>2. UsesState(u, d)' => UsesState(u, d)
      BY <2>2 DEF UsesState
    <3>3. ASSUME UsesState(u, d)', pc'[u] = "write"
          PROVE  acked'[d][op'[u].e] = Unknown
      <4>1. acked[d][op[u].e] = Unknown
        BY <2>2, <3>1, <3>2, <3>3 DEF TaskKeeps
      <4>2. op[u].e \in Elems
        BY <2>2, <3>3 DEF TypeInv, LocalsOK
      <4> QED
        BY <2>2, <4>1, <4>2 DEF NoMore
    <3>4. ASSUME UsesState(u, d)', pc'[u] = "write"
          PROVE  /\ op'[u].call = "update" /\ Has(op'[u].state, op'[u].e)
                      => ValueOf(op'[u].state, op'[u].e) = op'[u].v
                 /\ \A i \in DOMAIN cached'[d] : cached'[d][i] = op'[u].state
      BY <2>2, <3>1, <3>2, <3>4 DEF TaskKeeps
    <3>5. UsesState(u, d)' /\ pc'[u] # "load" => Holds(op'[u].state, acked'[d])
      BY <1>4, <2>2, <3>1, <3>2 DEF TaskKeeps
    <3>6. UsesState(u, d)' /\ pc'[u] \in {"load", "fill"} => cached'[d] = <<>>
      BY <1>2, <2>2, <3>1, <3>2 DEF TaskKeeps
    <3>7. pc'[u] = "remove" /\ op'[u].d = d /\ InPlan(u, "elems")' => Nothing(acked'[d])
      BY <1>3, <2>2, <3>1 DEF TaskKeeps, InPlan
    <3>8. pc'[u] = "reset" => Nothing(acked'[d])
      BY <1>3, <2>2, <3>1 DEF TaskKeeps
    <3>9. UsesState(u, d)' => u \in Writers[d] \cup readers'[d]
      BY <3>1, <3>2 DEF TaskKeeps
    <3> QED
      BY <3>3, <3>4, <3>5, <3>6, <3>7, <3>8, <3>9 DEF TaskKeeps
  <2> QED
    BY <2>1, <2>2
<1> QED
  BY <1>5, <1>6 DEF KeptAt

(* A task that neither uses nor removes the state of d relies on nothing.   *)
LEMMA KeepsAway ==
  ASSUME NEW t \in Tasks, NEW d,
         pc[t] \in {"load", "fill", "put", "write", "remove"} => op[t].d # d,
         pc[t] = "reset" => Nothing(acked[d])
  PROVE  TaskKeeps(t, d)
BY DEF TaskKeeps, UsesState

(* Nobody but the one task that uses d uses or removes its state. *)
LEMMA OthersAway ==
  ASSUME TypeInv, NEW d \in Devices, Own(d), KeptAt(d),
         NEW t \in Writers[d] \cup readers[d], NEW u \in Tasks, u # t
  PROVE  pc[u] \in {"load", "fill", "put", "write", "remove"} => op[u].d # d
<1>1. PICK o \in Tasks : Writers[d] \cup readers[d] = {o}
  BY DEF Own
<1>2. u \notin Writers[d] \cup readers[d]
  BY <1>1
<1>3. TaskKeeps(u, d)
  BY DEF KeptAt
<1>4. ~UsesState(u, d)
  BY <1>2, <1>3 DEF TaskKeeps
<1>5. pc[u] = "remove" => op[u].d # d
  BY <1>2 DEF TypeInv, LocalsOK
<1> QED
  BY <1>4, <1>5 DEF UsesState

(* A step of that task. *)
LEMMA OwnStep ==
  ASSUME TypeInv, NEW d \in Devices, Own(d), KeptAt(d), readers' = readers,
         NEW t \in Writers[d] \cup readers[d],
         \A u \in Tasks : u # t => pc'[u] = pc[u] /\ op'[u] = op[u],
         Resetting => Nothing(acked'[d]),
         DataKeeps(d)', TaskKeeps(t, d)'
  PROVE  KeptAt(d)'
<1>1. ASSUME NEW u \in Tasks, u # t PROVE TaskKeeps(u, d)'
  <2>1. pc[u] \in {"load", "fill", "put", "write", "remove"} => op[u].d # d
    BY <1>1, OthersAway
  <2>2. pc[u] = "reset" => Nothing(acked'[d])
    BY DEF Resetting
  <2>3. pc'[u] = pc[u] /\ op'[u] = op[u]
    BY <1>1
  <2> QED
    BY <2>1, <2>2, <2>3 DEF TaskKeeps, UsesState
<1> QED
  BY <1>1 DEF KeptAt

LEMMA ResettingKeeps ==
  ASSUME NEW d \in Devices, KeptAt(d), Resetting
  PROVE  Nothing(acked[d])
BY DEF KeptAt, TaskKeeps, Resetting

(* A task that goes back relies on nothing. *)
LEMMA BackKeeps ==
  ASSUME NEW t \in Tasks, NEW d, pc'[t] = "idle"
  PROVE  TaskKeeps(t, d)'
BY DEF TaskKeeps, UsesState

(* A step that touches the records, the entries, the requests and the       *)
(* acknowledged values of d not at all.                                     *)
LEMMA KeptStill ==
  ASSUME TypeInv, TypeInv', NEW d \in Devices, KeptAt(d), readers' = readers,
         acked'[d] = acked[d], cached'[d] = cached[d],
         stored'[d]["elems"] = stored[d]["elems"],
         queue' = queue,
         \A u \in Tasks : (pc'[u] = pc[u] /\ op'[u] = op[u]) \/ TaskKeeps(u, d)'
  PROVE  KeptAt(d)'
<1>1. NoMore(acked[d], acked'[d])
  BY DEF NoMore
<1>2. cached[d] \in Seq(States \cup {NoData})
  BY DEF TypeInv
<1>3. Len(cached'[d]) <= Len(cached[d])
  BY <1>2
<1>4. \A i \in DOMAIN cached'[d] : \E j \in DOMAIN cached[d] : cached'[d][i] = cached[d][j]
  OBVIOUS
<1>5. \A i \in DOMAIN queue' : \E j \in DOMAIN queue : queue'[i] = queue[j]
  OBVIOUS
<1> QED
  BY <1>1, <1>3, <1>4, <1>5, KeptOn

LEMMA KeepGet ==
  ASSUME TypeInv, TypeInv', KeepInv,
         NEW t \in Tasks, NEW call \in {"get", "add", "update"}, NEW d0 \in Devices,
         NEW e \in Elems \cup {Absent}, NEW v \in Values \cup {Absent},
         t \in Writers[d0] \cup readers[d0], CacheGet(t, call, d0, e, v)
  PROVE  KeepInv'
<1> DEFINE o == [call |-> call, d |-> d0, e |-> e, v |-> v, state |-> <<>>]
           hit == [o EXCEPT !.state = Head(cached[d0])]
<1>1. /\ readers' = readers /\ stored' = stored /\ queue' = queue /\ cached' = cached
      /\ acked' = acked
  BY DEF CacheGet
<1>2. \/ cached[d0] = <<>> /\ Goto(t, "load", o)
      \/ Return(t)
      \/ cached[d0] # <<>> /\ Head(cached[d0]) # NoData /\ Goto(t, "put", hit)
  BY DEF CacheGet, Have
<1>3. o.d = d0 /\ hit.d = d0 /\ hit.state = Head(cached[d0])
  OBVIOUS
<1>4. pc \in [Tasks -> Places] /\ DOMAIN op = Tasks
  BY DEF TypeInv
<1> HIDE DEF o, hit
<1>5. ASSUME NEW u \in Tasks, u # t PROVE pc'[u] = pc[u] /\ op'[u] = op[u]
  BY <1>2, <1>4, <1>5 DEF Goto, Return
<1>6. \/ cached[d0] = <<>> /\ pc'[t] = "load" /\ op'[t] = o
      \/ pc'[t] = "idle"
      \/ /\ cached[d0] # <<>> /\ Head(cached[d0]) # NoData
         /\ pc'[t] = "put" /\ op'[t] = hit
  BY <1>2, <1>4 DEF Goto, Return, TypeInv
<1>7. ASSUME NEW d \in Devices, Own(d) PROVE KeptAt(d)'
  <2>1. KeptAt(d)
    BY <1>7 DEF KeepInv
  <2>2. TaskKeeps(t, d)'
    <3>1. CASE pc'[t] = "idle"
      BY <3>1, BackKeeps
    <3>2. CASE cached[d0] = <<>> /\ pc'[t] = "load" /\ op'[t] = o
      BY <1>1, <1>3, <3>2 DEF TaskKeeps, UsesState
    <3>3. CASE /\ cached[d0] # <<>> /\ Head(cached[d0]) # NoData
               /\ pc'[t] = "put" /\ op'[t] = hit
      <4>1. CASE d = d0
        <5>1. cached[d] \in Seq(States \cup {NoData})
          BY DEF TypeInv
        <5>2. 1 \in DOMAIN cached[d] /\ cached[d][1] = Head(cached[d])
          BY <3>3, <4>1, <5>1
        <5>3. Holds(Head(cached[d]), acked[d])
          BY <2>1, <3>3, <4>1, <5>2 DEF KeptAt, DataKeeps
        <5> QED
          BY <1>1, <1>3, <3>3, <4>1, <5>3 DEF TaskKeeps, UsesState
      <4>2. CASE d # d0
        BY <1>3, <3>3, <4>2 DEF TaskKeeps, UsesState
      <4> QED
        BY <4>1, <4>2
    <3> QED
      BY <1>6, <3>1, <3>2, <3>3
  <2>3. \A u \in Tasks : (pc'[u] = pc[u] /\ op'[u] = op[u]) \/ TaskKeeps(u, d)'
    BY <1>5, <2>2
  <2> QED
    BY <1>1, <2>1, <2>3, KeptStill
<1> QED
  BY <1>1, <1>7 DEF KeepInv, Own

LEMMA KeepLoad ==
  ASSUME TypeInv, TypeInv', KeepInv, NEW t \in Tasks, Load(t)
  PROVE  KeepInv'
<1> DEFINE d0 == op[t].d
           s == stored[d0]["elems"]
           hit == [op[t] EXCEPT !.state = s]
<1>1. /\ readers' = readers /\ stored' = stored /\ queue' = queue /\ cached' = cached
      /\ acked' = acked
  BY DEF Load, histories
<1>2. pc[t] = "load" /\ op[t] \in StateOps /\ d0 \in Devices
  BY DEF Load, TypeInv, LocalsOK, StateOps
<1>3. \/ s # Absent /\ Goto(t, "fill", hit)
      \/ s = Absent /\ Goto(t, "put", op[t])
      \/ Return(t)
  BY DEF Load, Have
<1>4. hit.d = d0 /\ hit.state = s
  BY <1>2 DEF StateOps
<1>5. pc \in [Tasks -> Places] /\ DOMAIN op = Tasks
  BY DEF TypeInv
<1> HIDE DEF hit
<1>6. ASSUME NEW u \in Tasks, u # t PROVE pc'[u] = pc[u] /\ op'[u] = op[u]
  BY <1>3, <1>5, <1>6 DEF Goto, Return
<1>7. \/ pc'[t] = "fill" /\ op'[t] = hit
      \/ s = Absent /\ pc'[t] = "put" /\ op'[t] = op[t]
      \/ pc'[t] = "idle"
  BY <1>3, <1>5 DEF Goto, Return
<1>8. ASSUME NEW d \in Devices, Own(d) PROVE KeptAt(d)'
  <2>1. KeptAt(d)
    BY <1>8 DEF KeepInv
  <2>2. TaskKeeps(t, d)'
    <3>1. CASE d # d0
      BY <1>4, <1>7, <3>1 DEF TaskKeeps, UsesState
    <3>2. CASE d = d0
      <4>1. UsesState(t, d) /\ TaskKeeps(t, d) /\ Holds(s, acked[d])
        BY <1>2, <2>1, <3>2 DEF UsesState, KeptAt, DataKeeps
      <4>2. t \in Writers[d] \cup readers[d] /\ cached[d] = <<>>
        BY <1>2, <4>1 DEF TaskKeeps
      <4>3. CASE pc'[t] = "fill" /\ op'[t] = hit
        BY <1>1, <1>4, <4>1, <4>2, <4>3 DEF TaskKeeps, UsesState
      <4>4. CASE s = Absent /\ pc'[t] = "put" /\ op'[t] = op[t]
        <5>1. Nothing(acked[d])
          BY <4>1, <4>4, AbsentHolds
        <5>2. Holds(op[t].state, acked[d])
          BY <5>1, HoldsNothing
        <5> QED
          BY <1>1, <4>2, <4>4, <5>2 DEF TaskKeeps, UsesState
      <4>5. CASE pc'[t] = "idle"
        BY <4>5, BackKeeps
      <4> QED
        BY <1>7, <4>3, <4>4, <4>5
    <3> QED
      BY <3>1, <3>2
  <2>3. \A u \in Tasks : (pc'[u] = pc[u] /\ op'[u] = op[u]) \/ TaskKeeps(u, d)'
    BY <1>6, <2>2
  <2> QED
    BY <1>1, <2>1, <2>3, KeptStill
<1> QED
  BY <1>1, <1>8 DEF KeepInv, Own

(* A sequence of one element or none. *)
LEMMA AtMostOne ==
  ASSUME NEW S, NEW q \in Seq(S), Len(q) <= 1, q # <<>>
  PROVE  Tail(q) = <<>>
<1>1. Len(q) \in Nat /\ Len(q) # 0
  OBVIOUS
<1>2. Len(q) = 1
  BY <1>1
<1>3. Tail(q) \in Seq(S) /\ Len(Tail(q)) = 0
  BY <1>1, <1>2
<1> QED
  BY <1>3

LEMMA OneIsEnough ==
  ASSUME NEW S, NEW q \in Seq(S), NEW s, q = <<s>> \/ q = <<>>
  PROVE  Len(q) <= 1 /\ \A i \in DOMAIN q : q[i] = s
<1>1. CASE q = <<s>>
  BY <1>1
<1>2. CASE q = <<>>
  BY <1>2
<1> QED
  BY <1>1, <1>2

LEMMA KeepFill ==
  ASSUME TypeInv, TypeInv', KeepInv, NEW t \in Tasks, Fill(t)
  PROVE  KeepInv'
<1> DEFINE d0 == op[t].d
           s == op[t].state
<1>1. readers' = readers /\ stored' = stored /\ queue' = queue /\ acked' = acked
  BY DEF Fill, histories
<1>2. pc[t] = "fill" /\ op[t] \in StateOps /\ d0 \in Devices /\ s \in States
  BY DEF Fill, TypeInv, LocalsOK, StateOps
<1>3. cached' = [cached EXCEPT ![d0] = <<s>> \o @] \/ cached' = cached
  BY DEF Fill
<1>4. Goto(t, "put", op[t]) \/ Return(t)
  BY DEF Fill, Have
<1>5. pc \in [Tasks -> Places] /\ DOMAIN op = Tasks /\ DOMAIN cached = Devices
  BY DEF TypeInv
<1>6. \A u \in Tasks : u # t => pc'[u] = pc[u] /\ op'[u] = op[u]
  BY <1>4, <1>5 DEF Goto, Return
<1>7. (pc'[t] = "put" /\ op'[t] = op[t]) \/ pc'[t] = "idle"
  BY <1>4, <1>5 DEF Goto, Return
<1>8. ASSUME NEW d \in Devices, Own(d), d # d0 PROVE KeptAt(d)'
  <2>1. KeptAt(d)
    BY <1>8 DEF KeepInv
  <2>2. TaskKeeps(t, d)'
    BY <1>7, <1>8 DEF TaskKeeps, UsesState
  <2>3. cached'[d] = cached[d]
    BY <1>3, <1>5, <1>8
  <2>4. \A u \in Tasks : (pc'[u] = pc[u] /\ op'[u] = op[u]) \/ TaskKeeps(u, d)'
    BY <1>6, <2>2
  <2> QED
    BY <1>1, <2>1, <2>3, <2>4, KeptStill
<1>9. ASSUME NEW d \in Devices, Own(d), d = d0 PROVE KeptAt(d)'
  <2>1. KeptAt(d)
    BY <1>2, <1>9 DEF KeepInv
  <2>2. UsesState(t, d) /\ TaskKeeps(t, d)
    BY <1>9, <1>2, <2>1 DEF UsesState, KeptAt
  <2>3. /\ t \in Writers[d] \cup readers[d]
        /\ cached[d] = <<>> /\ Holds(s, acked[d])
    BY <1>9, <1>2, <2>2 DEF TaskKeeps
  <2>4. cached'[d] = <<s>> \/ cached'[d] = <<>>
    <3>1. <<s>> \o <<>> = <<s>>
      OBVIOUS
    <3> QED
      BY <1>9, <1>2, <1>3, <1>5, <2>3, <3>1
  <2>5. TaskKeeps(t, d)'
    BY <1>9, <1>1, <1>7, <2>3 DEF TaskKeeps, UsesState
  <2>6. DataKeeps(d)'
    <3>1. cached'[d] \in Seq(States \cup {NoData})
      BY DEF TypeInv
    <3>2. Len(cached'[d]) <= 1 /\ \A i \in DOMAIN cached'[d] : cached'[d][i] = s
      BY <2>4, <3>1, OneIsEnough
    <3> QED
      BY <1>9, <1>1, <2>1, <2>3, <3>1, <3>2 DEF DataKeeps, KeptAt
  <2>7. Resetting => Nothing(acked'[d])
    BY <1>9, <1>1, <1>2, <2>1, ResettingKeeps
  <2> QED
    BY <1>1, <1>2, <1>6, <1>9, <2>1, <2>3, <2>5, <2>6, <2>7, OwnStep
<1>10. \A d \in Devices : Own(d) => KeptAt(d)'
  BY <1>8, <1>9
<1> QED
  BY <1>1, <1>10 DEF KeepInv, Own

(* The entry of a device that has one at most. *)
LEMMA ReplacedEntry ==
  ASSUME TypeInv, NEW d0 \in Devices, NEW s, Len(cached[d0]) <= 1
  PROVE  Replaced(d0, s)[d0] = <<s>>
<1> DEFINE old == cached[d0]
           rest == IF old = <<>> THEN old ELSE Tail(old)
<1>1. old \in Seq(States \cup {NoData}) /\ DOMAIN cached = Devices
  BY DEF TypeInv
<1>2. rest = <<>>
  <2>1. CASE old = <<>>
    BY <2>1
  <2>2. CASE old # <<>>
    BY <1>1, <2>2, AtMostOne
  <2> QED
    BY <2>1, <2>2
<1>3. Replaced(d0, s)[d0] = <<s>> \o rest
  BY <1>1 DEF Replaced
<1>4. <<s>> \o <<>> = <<s>>
  OBVIOUS
<1> QED
  BY <1>2, <1>3, <1>4

LEMMA KeepPut ==
  ASSUME TypeInv, TypeInv', KeepInv, NEW t \in Tasks, Put(t)
  PROVE  KeepInv'
<1> DEFINE o == op[t]
           d0 == o.d
           new == Changed(o)
           next == [o EXCEPT !.state = new]
<1>1. readers' = readers /\ stored' = stored /\ queue' = queue
  BY DEF Put
<1>2. /\ pc[t] = "put" /\ o \in StateOps /\ d0 \in Devices /\ o.call \in {"add", "update"}
      /\ t \in Writers[d0] /\ o.e \in Elems /\ o.v \in Values
      /\ o.call = "update" => o.state \in States
  BY DEF Put, TypeInv, LocalsOK, StateOps
<1>3. acked' = [acked EXCEPT ![d0][o.e] = Unknown]
  BY DEF Put
<1>4. \/ Return(t) /\ cached' = cached
      \/ Return(t) /\ cached' = Replaced(d0, NoData)
      \/ Len(new) <= MaxElems /\ Goto(t, "write", next) /\ cached' = Replaced(d0, new)
  BY DEF Put
<1>5. /\ next.d = d0 /\ next.e = o.e /\ next.v = o.v /\ next.state = new
      /\ next.call = o.call
  BY <1>2 DEF StateOps
<1>6. /\ pc \in [Tasks -> Places] /\ DOMAIN op = Tasks /\ DOMAIN cached = Devices
      /\ acked \in [Devices -> [Elems -> Values \cup {Unknown}]]
  BY DEF TypeInv, KeepInv
<1> HIDE DEF new, next
<1>7. \A u \in Tasks : u # t => pc'[u] = pc[u] /\ op'[u] = op[u]
  BY <1>4, <1>6 DEF Goto, Return
<1>8. \/ pc'[t] = "idle" /\ cached' = cached
      \/ pc'[t] = "idle" /\ cached' = Replaced(d0, NoData)
      \/ /\ Len(new) <= MaxElems /\ pc'[t] = "write" /\ op'[t] = next
         /\ cached' = Replaced(d0, new)
  BY <1>4, <1>6 DEF Goto, Return
<1>9. /\ acked' \in [Devices -> [Elems -> Values \cup {Unknown}]]
      /\ acked'[d0][o.e] = Unknown
      /\ \A f \in Elems : f # o.e => acked'[d0][f] = acked[d0][f]
      /\ \A d \in Devices : d # d0 => acked'[d] = acked[d]
  BY <1>2, <1>3, <1>6
<1>10. NoMore(acked[d0], acked'[d0])
  BY <1>9 DEF NoMore
<1>11. ASSUME NEW d \in Devices, Own(d), d # d0 PROVE KeptAt(d)'
  <2>1. KeptAt(d)
    BY <1>11 DEF KeepInv
  <2>2. TaskKeeps(t, d)'
    BY <1>5, <1>8, <1>11 DEF TaskKeeps, UsesState
  <2>3. cached'[d] = cached[d]
    BY <1>6, <1>8, <1>11 DEF Replaced
  <2>4. \A u \in Tasks : (pc'[u] = pc[u] /\ op'[u] = op[u]) \/ TaskKeeps(u, d)'
    BY <1>7, <2>2
  <2> QED
    BY <1>1, <1>9, <1>11, <2>1, <2>3, <2>4, KeptStill
<1>12. ASSUME NEW d \in Devices, Own(d), d = d0 PROVE KeptAt(d)'
  <2>1. KeptAt(d)
    BY <1>2, <1>12 DEF KeepInv
  <2>2. UsesState(t, d) /\ TaskKeeps(t, d)
    BY <1>12, <1>2, <2>1 DEF UsesState, KeptAt
  <2>3. Holds(o.state, acked[d])
    BY <1>12, <1>2, <2>2 DEF TaskKeeps
  <2>4. Resetting => Nothing(acked'[d])
    BY <1>12, <1>2, <1>10, <2>1, ResettingKeeps, NothingLess
  <2>5. Holds(stored'[d]["elems"], acked'[d])
    BY <1>12, <1>1, <1>10, <2>1, HoldsLess DEF KeptAt, DataKeeps
  <2>6. \A i \in DOMAIN queue' : queue'[i].d = d /\ queue'[i].kind = "elems"
                                   => Nothing(acked'[d])
    BY <1>12, <1>1, <1>10, <2>1, NothingLess DEF KeptAt, DataKeeps
  <2>7. Len(cached[d]) <= 1
    BY <1>12, <2>1 DEF KeptAt, DataKeeps
  <2>8. CASE pc'[t] = "idle" /\ cached' = cached
    <3>1. TaskKeeps(t, d)'
      BY <1>12, <2>8, BackKeeps
    <3>2. DataKeeps(d)'
      BY <1>12, <1>10, <2>1, <2>5, <2>6, <2>7, <2>8, HoldsLess DEF KeptAt, DataKeeps
    <3> QED
      BY <1>1, <1>2, <1>7, <1>12, <2>1, <2>4, <3>1, <3>2, OwnStep
  <2>9. CASE pc'[t] = "idle" /\ cached' = Replaced(d0, NoData)
    <3>1. TaskKeeps(t, d)'
      BY <1>12, <2>9, BackKeeps
    <3>2. cached'[d] = <<NoData>>
      BY <1>12, <1>2, <2>7, <2>9, ReplacedEntry
    <3>3. Len(cached'[d]) <= 1 /\ \A i \in DOMAIN cached'[d] : cached'[d][i] = NoData
      BY <1>12, <3>2
    <3>4. DataKeeps(d)'
      BY <1>12, <2>5, <2>6, <3>3 DEF DataKeeps
    <3> QED
      BY <1>1, <1>2, <1>7, <1>12, <2>1, <2>4, <3>1, <3>4, OwnStep
  <2>10. CASE /\ Len(new) <= MaxElems /\ pc'[t] = "write" /\ op'[t] = next
              /\ cached' = Replaced(d0, new)
    <3>1. /\ Holds(new, acked'[d])
          /\ o.call = "update" /\ Has(new, o.e) => ValueOf(new, o.e) = o.v
      BY <1>12, <1>2, <1>9, <1>10, <2>3, <2>10, ChangedHolds DEF new
    <3>2. cached'[d] = <<new>>
      BY <1>12, <1>2, <2>7, <2>10, ReplacedEntry
    <3>3. Len(cached'[d]) <= 1 /\ \A i \in DOMAIN cached'[d] : cached'[d][i] = new
      BY <1>12, <3>2
    <3>4. DataKeeps(d)'
      BY <1>12, <2>5, <2>6, <3>1, <3>3 DEF DataKeeps
    <3>5. TaskKeeps(t, d)'
      BY <1>12, <1>1, <1>2, <1>5, <1>9, <2>10, <3>1, <3>3 DEF TaskKeeps, UsesState
    <3> QED
      BY <1>1, <1>2, <1>7, <1>12, <2>1, <2>4, <3>4, <3>5, OwnStep
  <2> QED
    BY <1>12, <1>8, <2>8, <2>9, <2>10
<1>13. \A d \in Devices : Own(d) => KeptAt(d)'
  BY <1>11, <1>12
<1> QED
  BY <1>1, <1>9, <1>13 DEF KeepInv, Own

LEMMA KeepWrite ==
  ASSUME TypeInv, TypeInv', KeepInv, NEW t \in Tasks, Write(t)
  PROVE  KeepInv'
<1> DEFINE o == op[t]
           d0 == o.d
<1>1. readers' = readers /\ queue = <<>> /\ queue' = queue /\ cached' = cached
  BY DEF Write, Reached
<1>2. /\ pc[t] = "write" /\ o \in StateOps /\ d0 \in Devices /\ o.state \in States
      /\ t \in Writers[d0] /\ o.e \in Elems /\ o.v \in Values
  BY DEF Write, TypeInv, LocalsOK, StateOps
<1>3. PICK end \in Ends(With(d0, "elems", o.state)) :
        /\ stored' = end.stored
        /\ acked' = [acked EXCEPT ![d0][o.e] =
                       IF end.ok /\ o.call = "update" /\ Has(o.state, o.e) /\ ~Resetting
                       THEN o.v ELSE @]
  BY DEF Write
<1>4. StoredOK /\ "elems" \in Kinds
  BY DEF TypeInv, Kinds
<1>5. /\ With(d0, "elems", o.state)[d0]["elems"] = o.state
      /\ \A d \in Devices : d # d0 => With(d0, "elems", o.state)[d] = stored[d]
  BY <1>2, <1>4, WithType
<1>6. /\ stored' = stored \/ stored' = With(d0, "elems", o.state)
      /\ end.ok => stored' = With(d0, "elems", o.state)
  BY <1>3, EndsAre
<1>7. /\ pc \in [Tasks -> Places] /\ DOMAIN op = Tasks
      /\ acked \in [Devices -> [Elems -> Values \cup {Unknown}]]
  BY DEF TypeInv, KeepInv
<1>8. pc'[t] = "idle" /\ \A u \in Tasks : u # t => pc'[u] = pc[u] /\ op'[u] = op[u]
  BY <1>7 DEF Write, Goto, Return
<1>9. /\ acked' \in [Devices -> [Elems -> Values \cup {Unknown}]]
      /\ \A f \in Elems : f # o.e => acked'[d0][f] = acked[d0][f]
      /\ \A d \in Devices : d # d0 => acked'[d] = acked[d]
      /\ \/ acked' = acked
         \/ /\ acked'[d0][o.e] = o.v /\ end.ok
            /\ o.call = "update" /\ Has(o.state, o.e) /\ ~Resetting
  BY <1>2, <1>3, <1>7
<1>10. ASSUME NEW d \in Devices, Own(d), d # d0 PROVE KeptAt(d)'
  <2>1. KeptAt(d)
    BY <1>10 DEF KeepInv
  <2>2. TaskKeeps(t, d)'
    BY <1>8, BackKeeps
  <2>3. stored'[d]["elems"] = stored[d]["elems"]
    BY <1>5, <1>6, <1>10
  <2>4. \A u \in Tasks : (pc'[u] = pc[u] /\ op'[u] = op[u]) \/ TaskKeeps(u, d)'
    BY <1>8, <2>2
  <2> QED
    BY <1>1, <1>9, <1>10, <2>1, <2>3, <2>4, KeptStill
<1>11. ASSUME NEW d \in Devices, Own(d), d = d0 PROVE KeptAt(d)'
  <2>1. KeptAt(d)
    BY <1>2, <1>11 DEF KeepInv
  <2>2. UsesState(t, d) /\ TaskKeeps(t, d)
    BY <1>11, <1>2, <2>1 DEF UsesState, KeptAt
  <2>3. /\ Holds(o.state, acked[d])
        /\ o.call = "update" /\ Has(o.state, o.e) => ValueOf(o.state, o.e) = o.v
        /\ \A i \in DOMAIN cached[d] : cached[d][i] = o.state
    BY <1>11, <1>2, <2>2 DEF TaskKeeps
  <2>4. Holds(o.state, acked'[d])
    <3>1. o.state # Absent
      BY <1>11, <1>2, RecordAssumption
    <3>2. ASSUME NEW f \in Elems, acked'[d][f] # Unknown
          PROVE  Has(o.state, f) /\ ValueOf(o.state, f) = acked'[d][f]
      <4>1. CASE acked'[d][f] = acked[d][f]
        BY <1>11, <2>3, <3>2, <4>1 DEF Holds
      <4>2. CASE acked'[d][f] # acked[d][f]
        <5>1. f = o.e /\ acked'[d][f] = o.v /\ o.call = "update" /\ Has(o.state, o.e)
          BY <1>11, <1>9, <4>2
        <5> QED
          BY <1>11, <2>3, <5>1
      <4> QED
        BY <1>11, <4>1, <4>2
    <3> QED
      BY <1>11, <3>1, <3>2 DEF Holds
  <2>5. Holds(stored'[d]["elems"], acked'[d])
    <3>1. CASE stored' = With(d0, "elems", o.state)
      BY <1>11, <1>5, <2>4, <3>1
    <3>2. CASE stored' # With(d0, "elems", o.state)
      <4>1. stored' = stored /\ acked' = acked
        BY <1>11, <1>6, <1>9, <3>2
      <4> QED
        BY <1>11, <2>1, <4>1 DEF KeptAt, DataKeeps
    <3> QED
      BY <1>11, <3>1, <3>2
  <2>6. DataKeeps(d)'
    BY <1>11, <1>1, <2>1, <2>3, <2>4, <2>5 DEF KeptAt, DataKeeps
  <2>7. Resetting => Nothing(acked'[d])
    BY <1>11, <1>2, <1>9, <2>1, ResettingKeeps
  <2>8. TaskKeeps(t, d)'
    BY <1>11, <1>8, BackKeeps
  <2> QED
    BY <1>1, <1>2, <1>8, <1>11, <2>1, <2>6, <2>7, <2>8, OwnStep
<1>12. \A d \in Devices : Own(d) => KeptAt(d)'
  BY <1>10, <1>11
<1> QED
  BY <1>1, <1>9, <1>12 DEF KeepInv, Own

(* Every entry of a sequence without one is an entry of it. *)
LEMMA CutEntries ==
  ASSUME NEW S, NEW s \in Seq(S), NEW i \in DOMAIN s
  PROVE  LET r == SubSeq(s, 1, i - 1) \o SubSeq(s, i + 1, Len(s))
         IN  Len(r) <= Len(s) /\ \A k \in DOMAIN r : \E j \in DOMAIN s : r[k] = s[j]
<1> DEFINE p == SubSeq(s, 1, i - 1)
           q == SubSeq(s, i + 1, Len(s))
<1>1. Len(s) \in Nat /\ DOMAIN s = 1 .. Len(s) /\ i \in 1 .. Len(s)
  OBVIOUS
<1>2. /\ p \in Seq(S) /\ Len(p) = i - 1
      /\ \A k \in 1 .. i - 1 : p[k] = s[k]
  BY <1>1
<1>3. /\ q \in Seq(S) /\ Len(q) = Len(s) - i
      /\ \A k \in 1 .. Len(s) - i : q[k] = s[i + k]
  BY <1>1
<1> HIDE DEF p, q
<1>4. /\ Len(p \o q) = Len(s) - 1 /\ DOMAIN (p \o q) = 1 .. Len(s) - 1
      /\ \A k \in 1 .. Len(s) - 1 : (p \o q)[k] = IF k <= i - 1 THEN p[k] ELSE q[k - (i - 1)]
  <2>1. /\ p \o q \in Seq(S) /\ Len(p \o q) = Len(p) + Len(q)
        /\ \A k \in 1 .. Len(p) + Len(q) :
             (p \o q)[k] = IF k <= Len(p) THEN p[k] ELSE q[k - Len(p)]
    BY <1>2, <1>3, ConcatProperties
  <2>2. Len(p) + Len(q) = Len(s) - 1 /\ Len(p) = i - 1
    BY <1>1, <1>2, <1>3
  <2>3. DOMAIN (p \o q) = 1 .. Len(p \o q)
    BY <2>1
  <2> QED
    BY <2>1, <2>2, <2>3
<1> DEFINE r == p \o q
<1>7. /\ Len(r) = Len(s) - 1 /\ DOMAIN r = 1 .. Len(s) - 1
      /\ \A k \in 1 .. Len(s) - 1 : r[k] = IF k <= i - 1 THEN p[k] ELSE q[k - (i - 1)]
  BY <1>4
<1> HIDE DEF r
<1>5. ASSUME NEW k \in 1 .. Len(s) - 1 PROVE \E j \in DOMAIN s : r[k] = s[j]
  <2>1. CASE k <= i - 1
    <3>1. k \in DOMAIN s /\ r[k] = s[k]
      BY <1>1, <1>2, <1>7, <2>1
    <3> QED
      BY <3>1
  <2>2. CASE ~(k <= i - 1)
    <3>1. k - (i - 1) \in 1 .. Len(s) - i
      BY <1>1, <2>2
    <3>2. k + 1 \in DOMAIN s /\ r[k] = s[k + 1]
      <4>1. i + (k - (i - 1)) = k + 1
        BY <1>1
      <4> QED
        BY <1>1, <1>3, <1>7, <2>2, <3>1, <4>1
    <3> QED
      BY <3>2
  <2> QED
    BY <2>1, <2>2
<1>6. Len(r) <= Len(s)
  BY <1>1, <1>7
<1> QED
  BY <1>7, <1>5, <1>6 DEF p, q, r

(* The premises of KeptOn about what is cached and queued. *)
EntriesLeft(d) ==
  /\ Len(cached'[d]) <= Len(cached[d])
  /\ \A i \in DOMAIN cached'[d] :
       \E j \in DOMAIN cached[d] : cached'[d][i] = cached[d][j]

RequestsLeft(d) ==
  \A i \in DOMAIN queue' :
    \/ ~(queue'[i].d = d /\ queue'[i].kind = "elems") \/ Nothing(acked'[d])
    \/ \E j \in DOMAIN queue : queue'[i] = queue[j]

LEMMA SameEntries ==
  ASSUME TypeInv, NEW d \in Devices, cached'[d] = cached[d]
  PROVE  EntriesLeft(d)
<1>1. cached[d] \in Seq(States \cup {NoData})
  BY DEF TypeInv
<1>2. Len(cached[d]) \in Nat
  BY <1>1
<1> QED
  BY <1>2 DEF EntriesLeft

LEMMA NoEntries ==
  ASSUME TypeInv, NEW d \in Devices, cached'[d] = <<>>
  PROVE  EntriesLeft(d)
<1>1. cached[d] \in Seq(States \cup {NoData})
  BY DEF TypeInv
<1>2. Len(cached[d]) \in Nat
  BY <1>1
<1>3. Len(cached'[d]) = 0
  OBVIOUS
<1> QED
  BY <1>2, <1>3 DEF EntriesLeft

LEMMA SameRequests ==
  ASSUME NEW d, queue' = queue
  PROVE  RequestsLeft(d)
BY DEF RequestsLeft

LEMMA KeptWhen ==
  ASSUME TypeInv, TypeInv', NEW d \in Devices, KeptAt(d), readers' = readers,
         NoMore(acked[d], acked'[d]), EntriesLeft(d), RequestsLeft(d),
         stored'[d]["elems"] = stored[d]["elems"] \/ Nothing(acked'[d]),
         \A u \in Tasks : (pc'[u] = pc[u] /\ op'[u] = op[u]) \/ TaskKeeps(u, d)'
  PROVE  KeptAt(d)'
BY KeptOn DEF EntriesLeft, RequestsLeft

LEMMA SameNoMore == \A a : NoMore(a, a)
BY DEF NoMore

(* Storing another record leaves that of the state alone. *)
LEMMA WithOther ==
  ASSUME StoredOK, NEW d0 \in Devices, NEW k \in Kinds, NEW v, NEW d \in Devices,
         ~(d0 = d /\ k = "elems")
  PROVE  With(d0, k, v)[d]["elems"] = stored[d]["elems"]
<1>1. stored \in [Devices -> [Kinds -> Contents]] /\ "elems" \in Kinds
  BY DEF StoredOK, Kinds
<1>2. CASE d0 # d
  BY <1>1, <1>2 DEF With
<1>3. CASE d0 = d
  <2>1. With(d0, k, v)[d] = [stored[d] EXCEPT ![k] = v]
    BY <1>1, <1>3 DEF With
  <2>2. stored[d] \in [Kinds -> Contents]
    BY <1>1
  <2> QED
    BY <1>1, <1>3, <2>1, <2>2
<1> QED
  BY <1>2, <1>3

LEMMA KeepSet ==
  ASSUME TypeInv, TypeInv', KeepInv, NEW t \in Tasks, NEW d0 \in Devices, NEW k \in Plain,
         Set(t, d0, k) \/ SetAsync(t, d0, k)
  PROVE  KeepInv'
<1>1. readers' = readers /\ cached' = cached /\ pc' = pc /\ op' = op /\ acked' = acked
  BY DEF Set, SetAsync
<1>2. k \in Kinds /\ k # "elems" /\ "elems" \in Kinds
  BY DEF Kinds, Plain
<1>3. ASSUME NEW d \in Devices PROVE stored'[d]["elems"] = stored[d]["elems"] /\ RequestsLeft(d)
  <2>1. CASE Set(t, d0, k)
    <3>1. queue' = queue /\ (stored' = stored \/ stored' = With(d0, k, Present))
      BY <2>1, EndsAre DEF Set
    <3>2. stored'[d]["elems"] = stored[d]["elems"]
      BY <1>2, <3>1, WithOther DEF TypeInv
    <3> QED
      BY <3>1, <3>2, SameRequests
  <2>2. CASE SetAsync(t, d0, k)
    <3> DEFINE r == [d |-> d0, kind |-> k, val |-> Present]
    <3>1. stored' = stored /\ (queue' = queue \/ queue' = Append(queue, r))
      BY <2>2 DEF SetAsync, Post
    <3>2. r.kind # "elems"
      BY <1>2
    <3> HIDE DEF r
    <3>3. queue \in Seq(Requests)
      BY DEF TypeInv
    <3>4. CASE queue' = Append(queue, r)
      <4>1. ASSUME NEW i \in DOMAIN queue'
            PROVE  queue'[i] = r \/ \E j \in DOMAIN queue : queue'[i] = queue[j]
        BY <3>3, <3>4
      <4> QED
        BY <3>1, <3>2, <4>1 DEF RequestsLeft
    <3> QED
      BY <3>1, <3>4, SameRequests
  <2> QED
    BY <2>1, <2>2
<1>4. ASSUME NEW d \in Devices, Own(d) PROVE KeptAt(d)'
  <2>1. KeptAt(d) /\ EntriesLeft(d) /\ NoMore(acked[d], acked'[d])
    BY <1>1, <1>4, SameEntries, SameNoMore DEF KeepInv
  <2> QED
    BY <1>1, <1>3, <2>1, KeptWhen
<1> QED
  BY <1>1, <1>4 DEF KeepInv, Own

LEMMA KeepRunQueued ==
  ASSUME TypeInv, TypeInv', KeepInv, RunQueued
  PROVE  KeepInv'
<1> DEFINE r == Head(queue)
<1>1. /\ readers' = readers /\ cached' = cached /\ pc' = pc /\ op' = op /\ acked' = acked
      /\ queue # <<>> /\ queue' = Tail(queue)
      /\ stored' = stored \/ stored' = With(r.d, r.kind, r.val)
  BY EndsAre DEF RunQueued, histories
<1>2. queue \in Seq(Requests)
  BY DEF TypeInv
<1>3. /\ r \in Requests
      /\ \A i \in DOMAIN queue' : \E j \in DOMAIN queue : queue[j] = queue'[i]
      /\ \E j \in DOMAIN queue : queue[j] = r
  <2>1. 1 \in DOMAIN queue /\ queue[1] = r
    BY <1>1, <1>2
  <2> QED
    BY <1>1, <1>2, <2>1, TailOf
<1> HIDE DEF r
<1>4. /\ r.d \in Devices /\ r.kind \in Kinds /\ "elems" \in Kinds
      /\ IF r.kind = "elems" THEN r.val \in States \cup {Absent} ELSE r.val \in {Present, Absent}
  BY <1>3 DEF Requests, Kinds, Plain
<1>5. ASSUME NEW d \in Devices, Own(d) PROVE KeptAt(d)'
  <2>1. KeptAt(d) /\ EntriesLeft(d) /\ NoMore(acked[d], acked'[d])
    BY <1>1, <1>5, SameEntries, SameNoMore DEF KeepInv
  <2>2. stored'[d]["elems"] = stored[d]["elems"] \/ Nothing(acked'[d])
    <3>1. CASE r.d = d /\ r.kind = "elems"
      <4>1. Nothing(acked[d])
        BY <1>3, <2>1, <3>1 DEF KeptAt, DataKeeps
      <4> QED
        BY <1>1, <4>1
    <3>2. CASE ~(r.d = d /\ r.kind = "elems")
      BY <1>1, <1>4, <3>2, WithOther DEF TypeInv
    <3> QED
      BY <3>1, <3>2
  <2>3. RequestsLeft(d)
    BY <1>3 DEF RequestsLeft
  <2> QED
    BY <1>1, <2>1, <2>2, <2>3, KeptWhen
<1> QED
  BY <1>1, <1>5 DEF KeepInv, Own

LEMMA KeepEmptied ==
  ASSUME TypeInv, TypeInv', KeepInv, UNCHANGED <<readers, stored, acked>>,
         \A d \in Devices : EntriesLeft(d),
         queue' = queue \/ queue' = <<>>,
         (pc' = pc /\ op' = op) \/ \A t \in Tasks : pc'[t] = "idle"
  PROVE  KeepInv'
<1>1. ASSUME NEW d \in Devices, Own(d) PROVE KeptAt(d)'
  <2>1. KeptAt(d) /\ NoMore(acked[d], acked'[d])
    BY <1>1, SameNoMore DEF KeepInv
  <2>2. RequestsLeft(d)
    BY SameRequests DEF RequestsLeft
  <2>3. \A u \in Tasks : (pc'[u] = pc[u] /\ op'[u] = op[u]) \/ TaskKeeps(u, d)'
    BY BackKeeps
  <2> QED
    BY <2>1, <2>2, <2>3, KeptWhen
<1> QED
  BY <1>1 DEF KeepInv, Own

LEMMA KeepClear ==
  ASSUME TypeInv, TypeInv', KeepInv,
         \/ \E t \in Tasks : InvalidateCache(t)
         \/ \E d \in Devices : Evict(d)
         \/ Restart
         \/ UNCHANGED vars
  PROVE  KeepInv'
<1>1. ASSUME cached' = [d \in Devices |-> <<>>] PROVE \A d \in Devices : EntriesLeft(d)
  BY <1>1, NoEntries
<1>2. ASSUME NEW t \in Tasks, InvalidateCache(t) PROVE KeepInv'
  BY <1>1, <1>2, KeepEmptied DEF InvalidateCache, histories
<1>3. CASE Restart
  BY <1>1, <1>3, KeepEmptied DEF Restart, histories
<1>4. CASE UNCHANGED vars
  BY <1>4, SameEntries, KeepEmptied DEF vars
<1>5. ASSUME NEW d0 \in Devices, Evict(d0) PROVE KeepInv'
  <2> DEFINE old == cached[d0]
  <2>1. PICK i \in DOMAIN old :
          cached' = [cached EXCEPT ![d0] = SubSeq(@, 1, i - 1) \o SubSeq(@, i + 1, Len(@))]
    BY <1>5 DEF Evict
  <2>2. old \in Seq(States \cup {NoData}) /\ DOMAIN cached = Devices
    BY DEF TypeInv
  <2> DEFINE new == SubSeq(old, 1, i - 1) \o SubSeq(old, i + 1, Len(old))
  <2>3. Len(new) <= Len(old) /\ \A k \in DOMAIN new : \E j \in DOMAIN old : new[k] = old[j]
    BY <2>1, <2>2, CutEntries
  <2>4. cached'[d0] = new /\ \A d \in Devices : d # d0 => cached'[d] = cached[d]
    BY <2>1, <2>2
  <2> HIDE DEF new
  <2>5. EntriesLeft(d0)
    BY <2>3, <2>4 DEF EntriesLeft
  <2>6. \A d \in Devices : EntriesLeft(d)
    BY <2>4, <2>5, SameEntries
  <2> QED
    BY <1>5, <2>6, KeepEmptied DEF Evict, histories
<1> QED
  BY <1>2, <1>3, <1>4, <1>5

LEMMA KeepRemove ==
  ASSUME TypeInv, TypeInv', KeepInv, NEW t \in Tasks, NEW d0 \in Devices,
         NEW call \in {"remove", "removeAsync"}, NEW what \in Kinds \cup {"all"},
         Remove(t, call, d0, what)
  PROVE  KeepInv'
<1> DEFINE o == [call |-> call, d |-> d0, what |-> what, plan |-> Plan(what)]
<1>1. /\ readers' = readers /\ stored' = stored /\ queue' = queue /\ cached' = cached
      /\ acked' = IF what \in {"all", "elems"} THEN [acked EXCEPT ![d0] = NoAck] ELSE acked
  BY DEF Remove
<1>2. /\ pc'[t] = "remove" /\ op'[t] = o
      /\ \A u \in Tasks : u # t => pc'[u] = pc[u] /\ op'[u] = op[u]
  BY TypeRemove
<1>3. o.d = d0 /\ o.plan = Plan(what)
  OBVIOUS
<1> HIDE DEF o
<1>4. acked \in [Devices -> [Elems -> Values \cup {Unknown}]]
  BY DEF KeepInv
<1>5. NoAck \in [Elems -> Values \cup {Unknown}] /\ Nothing(NoAck)
  BY DEF NoAck, Nothing
<1>6. /\ acked' \in [Devices -> [Elems -> Values \cup {Unknown}]]
      /\ \A d \in Devices : acked'[d] = acked[d] \/ (d = d0 /\ acked'[d] = NoAck)
      /\ what \in {"all", "elems"} => acked'[d0] = NoAck
  BY <1>1, <1>4, <1>5
<1>7. ASSUME NEW d \in Devices PROVE NoMore(acked[d], acked'[d])
  BY <1>5, <1>6 DEF NoMore, Nothing
<1>8. ASSUME NEW d \in Devices PROVE TaskKeeps(t, d)'
  <2>1. CASE d # d0
    BY <1>2, <1>3, <2>1 DEF TaskKeeps, UsesState
  <2>2. CASE d = d0 /\ what \in {"all", "elems"}
    <3>1. Nothing(acked'[d])
      BY <1>5, <1>6, <2>2
    <3> QED
      BY <1>2, <3>1 DEF TaskKeeps, UsesState
  <2>3. CASE what \notin {"all", "elems"}
    <3>1. Plan(what) = <<what>>
      BY <2>3 DEF Plan
    <3>2. \A i \in DOMAIN Plan(what) : Plan(what)[i] = what
      BY <3>1
    <3>3. ~InPlan(t, "elems")'
      BY <1>2, <1>3, <2>3, <3>2 DEF InPlan
    <3> QED
      BY <1>2, <3>3 DEF TaskKeeps, UsesState
  <2> QED
    BY <2>1, <2>2, <2>3
<1>9. ASSUME NEW d \in Devices, Own(d) PROVE KeptAt(d)'
  <2>1. KeptAt(d) /\ EntriesLeft(d) /\ RequestsLeft(d)
    BY <1>1, <1>9, SameEntries, SameRequests DEF KeepInv
  <2>2. \A u \in Tasks : (pc'[u] = pc[u] /\ op'[u] = op[u]) \/ TaskKeeps(u, d)'
    BY <1>2, <1>8
  <2> QED
    BY <1>1, <1>7, <2>1, <2>2, KeptWhen
<1> QED
  BY <1>1, <1>6, <1>9 DEF KeepInv, Own

(* A removal that goes on relies on what it relied on before. *)
LEMMA PlanKeeps ==
  ASSUME TypeInv, NEW t \in Tasks, NEW d \in Devices, TaskKeeps(t, d),
         pc[t] = "remove", op[t].plan # <<>>, NextStep(t), acked'[d] = acked[d]
  PROVE  TaskKeeps(t, d)'
<1>1. /\ pc'[t] = "remove" /\ op'[t].plan = Tail(op[t].plan) /\ op'[t].d = op[t].d
  BY NextStepType
<1>2. op[t].plan \in Seq(Kinds \cup {"invalidate"})
  BY DEF TypeInv, LocalsOK, RemoveOps
<1>3. InPlan(t, "elems")' => InPlan(t, "elems")
  <2>1. \A i \in DOMAIN Tail(op[t].plan) :
          \E j \in DOMAIN op[t].plan : op[t].plan[j] = Tail(op[t].plan)[i]
    BY <1>2, TailOf
  <2>2. ASSUME NEW i \in DOMAIN op'[t].plan, op'[t].plan[i] = "elems" PROVE InPlan(t, "elems")
    <3>1. PICK j \in DOMAIN op[t].plan : op[t].plan[j] = Tail(op[t].plan)[i]
      BY <1>1, <2>1, <2>2
    <3> QED
      BY <1>1, <2>2, <3>1 DEF InPlan
  <2> QED
    BY <2>2 DEF InPlan
<1> QED
  BY <1>1, <1>3 DEF TaskKeeps, UsesState

(* A step of a removal: what it removes or asks to be removed is in its     *)
(* plan.                                                                    *)
LEMMA KeepPlanned ==
  ASSUME TypeInv, TypeInv', KeepInv, NEW t \in Tasks, pc[t] = "remove", op[t].plan # <<>>,
         NextStep(t) \/ Return(t), readers' = readers, acked' = acked,
         \A d \in Devices : EntriesLeft(d),
         \A d \in Devices : d # op[t].d \/ ~InPlan(t, "elems") =>
           stored'[d]["elems"] = stored[d]["elems"] /\ RequestsLeft(d),
         \A i \in DOMAIN queue' :
           \/ queue'[i].d = op[t].d
           \/ \E j \in DOMAIN queue : queue'[i] = queue[j]
  PROVE  KeepInv'
<1>1. \A u \in Tasks : u # t => pc'[u] = pc[u] /\ op'[u] = op[u]
  BY NextStepType, ReturnType
<1>2. ASSUME NEW d \in Devices, Own(d) PROVE KeptAt(d)'
  <2>1. KeptAt(d) /\ NoMore(acked[d], acked'[d])
    BY <1>2, SameNoMore DEF KeepInv
  <2>2. TaskKeeps(t, d)
    BY <2>1 DEF KeptAt
  <2>3. TaskKeeps(t, d)'
    <3>1. CASE NextStep(t)
      BY <2>2, <3>1, PlanKeeps
    <3>2. CASE Return(t)
      BY <3>2, ReturnType, BackKeeps
    <3> QED
      BY <3>1, <3>2
  <2>4. \A u \in Tasks : (pc'[u] = pc[u] /\ op'[u] = op[u]) \/ TaskKeeps(u, d)'
    BY <1>1, <2>3
  <2>5. /\ stored'[d]["elems"] = stored[d]["elems"] \/ Nothing(acked'[d])
        /\ RequestsLeft(d)
    <3>1. CASE d = op[t].d /\ InPlan(t, "elems")
      <4>1. Nothing(acked'[d])
        BY <2>2, <3>1 DEF TaskKeeps
      <4> QED
        BY <4>1 DEF RequestsLeft
    <3>2. CASE d # op[t].d \/ ~InPlan(t, "elems")
      BY <3>2
    <3> QED
      BY <3>1, <3>2
  <2> QED
    BY <2>1, <2>4, <2>5, KeptWhen
<1> QED
  BY <1>2 DEF KeepInv, Own

LEMMA KeepInvalidate ==
  ASSUME TypeInv, TypeInv', KeepInv, NEW t \in Tasks, Invalidate(t)
  PROVE  KeepInv'
<1>1. /\ pc[t] = "remove" /\ op[t].plan # <<>> /\ NextStep(t)
      /\ readers' = readers /\ stored' = stored /\ queue' = queue /\ acked' = acked
      /\ cached' = [cached EXCEPT ![op[t].d] = IF @ = <<>> THEN @ ELSE Tail(@)]
  BY DEF Invalidate, Step, histories
<1>2. ASSUME NEW d \in Devices PROVE EntriesLeft(d)
  <2>1. cached[d] \in Seq(States \cup {NoData}) /\ DOMAIN cached = Devices
    BY DEF TypeInv
  <2>2. cached'[d] = cached[d] \/ (cached[d] # <<>> /\ cached'[d] = Tail(cached[d]))
    BY <1>1, <2>1
  <2>3. CASE cached[d] # <<>> /\ cached'[d] = Tail(cached[d])
    <3> DEFINE q == cached[d]
               r == Tail(q)
    <3>1. Len(r) <= Len(q)
      BY <2>1, <2>3
    <3>2. \A i \in DOMAIN r : \E j \in DOMAIN q : q[j] = r[i]
      BY <2>1, <2>3, TailOf
    <3> QED
      BY <2>3, <3>1, <3>2 DEF EntriesLeft
  <2> QED
    BY <2>2, <2>3, SameEntries
<1>3. \A i \in DOMAIN queue' : \E j \in DOMAIN queue : queue'[i] = queue[j]
  BY <1>1
<1>4. \A d \in Devices : RequestsLeft(d) /\ stored'[d]["elems"] = stored[d]["elems"]
  BY <1>1, SameRequests
<1> QED
  BY <1>1, <1>2, <1>3, <1>4, KeepPlanned

LEMMA KeepRemoveKind ==
  ASSUME TypeInv, TypeInv', KeepInv, NEW t \in Tasks, RemoveKind(t) \/ PostKind(t)
  PROVE  KeepInv'
<1>1. PICK k \in Kinds :
        /\ Step(t, k) /\ readers' = readers /\ cached' = cached /\ acked' = acked
        /\ NextStep(t) \/ Return(t)
        /\ \/ /\ stored' = stored \/ stored' = With(op[t].d, k, Absent)
              /\ queue' = queue
           \/ stored' = stored /\ Post(op[t].d, k, Absent)
  BY EndsAre DEF RemoveKind, PostKind, histories
<1>2. pc[t] = "remove" /\ op[t].plan # <<>> /\ Head(op[t].plan) = k
  BY <1>1 DEF Step
<1>3. /\ op[t].d \in Devices /\ op[t].plan \in Seq(Kinds \cup {"invalidate"})
      /\ queue \in Seq(Requests)
  BY <1>2 DEF TypeInv, LocalsOK, RemoveOps
<1>4. InPlan(t, k)
  <2>1. 1 \in DOMAIN op[t].plan /\ op[t].plan[1] = k
    BY <1>2, <1>3
  <2> QED
    BY <2>1 DEF InPlan
<1>5. \A d \in Devices : EntriesLeft(d)
  BY <1>1, SameEntries
<1> DEFINE r == [d |-> op[t].d, kind |-> k, val |-> Absent]
<1>6. queue' = queue \/ queue' = Append(queue, r)
  BY <1>1 DEF Post
<1>7. r.d = op[t].d /\ r.kind = k
  OBVIOUS
<1> HIDE DEF r
<1>8. ASSUME NEW i \in DOMAIN queue'
      PROVE  queue'[i] = r \/ \E j \in DOMAIN queue : queue'[i] = queue[j]
  <2>1. CASE queue' = Append(queue, r)
    BY <1>3, <2>1
  <2> QED
    BY <1>6, <2>1
<1>9. \A i \in DOMAIN queue' :
        queue'[i].d = op[t].d \/ \E j \in DOMAIN queue : queue'[i] = queue[j]
  BY <1>7, <1>8
<1>10. ASSUME NEW d \in Devices, d # op[t].d \/ ~InPlan(t, "elems")
       PROVE  stored'[d]["elems"] = stored[d]["elems"] /\ RequestsLeft(d)
  <2>1. ~(op[t].d = d /\ k = "elems")
    BY <1>4, <1>10
  <2>2. stored'[d]["elems"] = stored[d]["elems"]
    BY <1>1, <1>3, <2>1, WithOther DEF TypeInv
  <2>3. RequestsLeft(d)
    BY <1>7, <1>8, <2>1 DEF RequestsLeft
  <2> QED
    BY <2>2, <2>3
<1> QED
  BY <1>1, <1>2, <1>5, <1>9, <1>10, KeepPlanned

LEMMA KeepReset ==
  ASSUME TypeInv, TypeInv', KeepInv, NEW t \in Tasks,
         FactoryReset(t) \/ ResetKind(t) \/ ResetEnds(t) \/ Removed(t)
  PROVE  KeepInv'
<1>1. readers' = readers /\ cached' = cached /\ queue' = queue
  BY DEF FactoryReset, ResetKind, ResetEnds, Removed, histories
<1>2. pc \in [Tasks -> Places] /\ DOMAIN op = Tasks
  BY DEF TypeInv
<1>3. /\ \A u \in Tasks : u # t => pc'[u] = pc[u] /\ op'[u] = op[u]
      /\ pc'[t] \in {"reset", "idle"}
  BY <1>2 DEF FactoryReset, ResetKind, ResetEnds, Removed, Goto, Return
<1>4. NoAck \in [Elems -> Values \cup {Unknown}] /\ Nothing(NoAck)
  BY DEF NoAck, Nothing
<1>5. /\ acked' \in [Devices -> [Elems -> Values \cup {Unknown}]]
      /\ acked' = acked \/ \A d \in Devices : acked'[d] = NoAck
  BY <1>4 DEF KeepInv, FactoryReset, ResetKind, ResetEnds, Removed, histories
<1>6. ASSUME NEW d \in Devices, Own(d) PROVE KeptAt(d)'
  <2>1. KeptAt(d) /\ EntriesLeft(d) /\ RequestsLeft(d)
    BY <1>1, <1>6, SameEntries, SameRequests DEF KeepInv
  <2>2. NoMore(acked[d], acked'[d])
    BY <1>4, <1>5 DEF NoMore, Nothing
  <2>3. TaskKeeps(t, d)
    BY <2>1 DEF KeptAt
  <2>4. pc'[t] = "reset" => Nothing(acked'[d])
    <3>1. CASE FactoryReset(t)
      <4>1. acked'[d] = NoAck
        BY <3>1 DEF FactoryReset
      <4> QED
        BY <1>4, <4>1
    <3>2. CASE ResetKind(t)
      BY <2>3, <3>2 DEF ResetKind, TaskKeeps, histories
    <3>3. CASE ResetEnds(t) \/ Removed(t)
      BY <1>2, <3>3 DEF ResetEnds, Removed, Goto, Return
    <3> QED
      BY <3>1, <3>2, <3>3
  <2>5. TaskKeeps(t, d)'
    BY <1>3, <2>4 DEF TaskKeeps, UsesState
  <2>6. stored'[d]["elems"] = stored[d]["elems"] \/ Nothing(acked'[d])
    <3>1. CASE ResetKind(t)
      BY <2>3, <3>1 DEF ResetKind, TaskKeeps, histories
    <3>2. CASE FactoryReset(t) \/ ResetEnds(t) \/ Removed(t)
      BY <3>2 DEF FactoryReset, ResetEnds, Removed
    <3> QED
      BY <3>1, <3>2
  <2>7. \A u \in Tasks : (pc'[u] = pc[u] /\ op'[u] = op[u]) \/ TaskKeeps(u, d)'
    BY <1>3, <2>5
  <2> QED
    BY <1>1, <2>1, <2>2, <2>6, <2>7, KeptWhen
<1> QED
  BY <1>1, <1>5, <1>6 DEF KeepInv, Own

LEMMA KeepInit == Init => KeepInv
<1> SUFFICES ASSUME Init PROVE KeepInv
  OBVIOUS
<1>1. NoAck \in [Elems -> Values \cup {Unknown}] /\ Nothing(NoAck)
  BY DEF NoAck, Nothing
<1>2. /\ \A u \in Tasks : pc[u] = "idle"
      /\ \A d \in Devices : acked[d] = NoAck /\ cached[d] = <<>>
      /\ queue = <<>> /\ acked \in [Devices -> [Elems -> Values \cup {Unknown}]]
  BY <1>1 DEF Init
<1>3. Len(<<>>) = 0 /\ DOMAIN <<>> = {}
  OBVIOUS
<1>4. ASSUME NEW d \in Devices PROVE DataKeeps(d)
  <2>1. Nothing(acked[d])
    BY <1>1, <1>2
  <2>2. Holds(stored[d]["elems"], acked[d])
    BY <2>1, HoldsNothing
  <2> QED
    BY <1>2, <1>3, <2>1, <2>2 DEF DataKeeps
<1>5. ASSUME NEW d \in Devices, NEW u \in Tasks PROVE TaskKeeps(u, d)
  BY <1>2 DEF TaskKeeps, UsesState
<1> QED
  BY <1>2, <1>4, <1>5 DEF KeepInv, KeptAt

LEMMA KeepStep == TypeInv /\ TypeInv' /\ KeepInv /\ [Next]_vars => KeepInv'
<1> SUFFICES ASSUME TypeInv, TypeInv', KeepInv, [Next]_vars PROVE KeepInv'
  OBVIOUS
<1>1. CASE UNCHANGED vars
  BY <1>1, KeepClear
<1>2. ASSUME NEW t \in Tasks, NEW d \in Devices, GetDeviceElemsState(t, d) PROVE KeepInv'
  <2>1. CacheGet(t, "get", d, Absent, Absent) /\ t \in readers[d]
    BY <1>2 DEF GetDeviceElemsState
  <2> QED
    BY <1>2, <2>1, KeepGet
<1>3. ASSUME NEW t \in Tasks, NEW d \in Devices, NEW e \in Elems, NEW v \in Values,
             AddElementInfo(t, d, e, v) \/ UpdateElementState(t, d, e, v)
      PROVE  KeepInv'
  <2>1. PICK call \in {"add", "update"} : CacheGet(t, call, d, e, v)
    BY <1>3 DEF AddElementInfo, UpdateElementState
  <2>2. t \in Writers[d]
    BY <1>3 DEF AddElementInfo, UpdateElementState
  <2> QED
    BY <1>3, <2>1, <2>2, KeepGet
<1>4. ASSUME NEW t \in Tasks, NEW d \in Devices, NEW k \in Plain,
             Set(t, d, k) \/ SetAsync(t, d, k)
      PROVE  KeepInv'
  BY <1>4, KeepSet
<1>5. ASSUME NEW t \in Tasks, NEW d \in Devices, NEW call \in {"remove", "removeAsync"},
             NEW what \in Kinds \cup {"all"}, Remove(t, call, d, what)
      PROVE  KeepInv'
  BY <1>5, KeepRemove
<1>6. ASSUME NEW t \in Tasks, Load(t) \/ Fill(t) \/ Put(t) \/ Write(t)
      PROVE  KeepInv'
  BY <1>6, KeepLoad, KeepFill, KeepPut, KeepWrite
<1>7. ASSUME NEW t \in Tasks, Invalidate(t) \/ RemoveKind(t) \/ PostKind(t)
      PROVE  KeepInv'
  BY <1>7, KeepInvalidate, KeepRemoveKind
<1>8. ASSUME NEW t \in Tasks, FactoryReset(t) \/ ResetKind(t) \/ ResetEnds(t) \/ Removed(t)
      PROVE  KeepInv'
  BY <1>8, KeepReset
<1>9. ASSUME NEW t \in Tasks, InvalidateCache(t) PROVE KeepInv'
  BY <1>9, KeepClear
<1>10. ASSUME NEW d \in Devices, Evict(d) PROVE KeepInv'
  BY <1>10, KeepClear
<1>11. CASE Restart
  BY <1>11, KeepClear
<1>12. CASE Finished
  BY <1>1, <1>12 DEF Finished
<1>13. CASE RunQueued
  BY <1>13, KeepRunQueued
<1> QED
  BY <1>1, <1>2, <1>3, <1>4, <1>5, <1>6, <1>7, <1>8, <1>9, <1>10, <1>11, <1>12, <1>13 DEF Next

-----------------------------------------------------------------------------
(* A value that UpdateElementState acknowledged stays in the storage, and   *)
(* in what of it the cache holds, across the other updates and additions of *)
(* that device, their failures and restarts, as long as one task uses the   *)
(* device and until it removes the state or somebody resets.                *)
THEOREM UpdatesStay == Spec => []UpdatesKept
<1>1. KeepInv => UpdatesKept
  BY DEF KeepInv, KeptAt, DataKeeps, Holds, UpdatesKept
<1> QED
  BY <1>1, TypeInit, TypeStep, KeepInit, KeepStep, PTL DEF Spec
=============================================================================
