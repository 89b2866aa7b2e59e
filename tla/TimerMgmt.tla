----------------------------- MODULE TimerMgmt -----------------------------
(***************************************************************************)
(* The timers of the platform                                              *)
(* (components/iotPlatform/implplatform/esp32/IOT_TimerMgmt.c): a binary   *)
(* min-heap in an array that grows, and a thread that every 10 ms fires    *)
(* what is due.  A callback runs outside the mutex and may itself set,     *)
(* cancel and clear timers.                                                *)
(*                                                                         *)
(* A region under s_heapMutex is one action.  Times are uint32_t           *)
(* milliseconds (TimeMod = 2^32).                                          *)
(***************************************************************************)
EXTENDS Naturals, Sequences, FiniteSets

CONSTANTS
  Tasks,      \* the tasks that set and cancel timers
  Delays,     \* how far ahead a timer is set
  MaxTimers,  \* bound: how many timers are set
  MaxTime,    \* bound: how long the clock runs, and when timers are due
  TimeMod,    \* the modulus of uint32_t milliseconds
  Capacity,   \* HEAP_TIMER_CAPACITY
  MemFaults,  \* TRUE: growing the array may fail
  None        \* no timer

ASSUME TimerAssumption ==
  /\ IsFiniteSet(Tasks)
  /\ None \notin Nat
  /\ Delays \subseteq Nat
  /\ MaxTimers \in Nat /\ MaxTime \in Nat
  /\ TimeMod \in Nat \ {0} /\ Capacity \in Nat \ {0}
  /\ MemFaults \in BOOLEAN

Thread == "timer"
Callers == Tasks \cup {Thread}
Ids == 1 .. MaxTimers

VARIABLES
  clock,     \* the time since start, not wrapped
  heap,      \* heap->events[0 .. size-1], the root first: [id, time]
  capacity,  \* heap->capacity
  nextId,    \* s_nextTimerId
  phase,     \* timerThread: "sleep", "fire" (in its loop) or "call"
  current,   \* the currentTime it read
  event,     \* evt, the timer whose callback it calls
  setting,   \* setting[c]: the due time of the timer that c is inserting
  due,       \* history: due[id]: when the timer of that handle is to fire
  state      \* history: state[id]: "unused", "set" or "ended"

vars == <<clock, heap, capacity, nextId, phase, current, event, setting, due, state>>

Init ==
  /\ clock = 0
  /\ heap = <<>> /\ capacity = Capacity
  /\ nextId = 0
  /\ phase = "sleep" /\ current = 0 /\ event = None
  /\ setting = [c \in Callers |-> None]
  /\ due = [id \in Ids |-> 0]
  /\ state = [id \in Ids |-> "unused"]

-----------------------------------------------------------------------------
(* The heap.  Positions start at 1: the parent of i is i \div 2.           *)

Exchange(h, i, j) == [h EXCEPT ![i] = h[j], ![j] = h[i]]

(* An event of the heap, and a heap of which a loop has reached position i. *)
Events == [id : Ids, time : 0 .. TimeMod - 1]
Places == {x \in [h : Seq(Events), i : Ids] : x.i <= Len(x.h) /\ Len(x.h) <= MaxTimers}

HeapifyUp[x \in Places] ==
  IF x.i > 1 /\ x.h[x.i].time < x.h[x.i \div 2].time
  THEN HeapifyUp[[h |-> Exchange(x.h, x.i, x.i \div 2), i |-> x.i \div 2]]
  ELSE x.h

Smallest(h, i) ==
  LET left == IF 2 * i <= Len(h) /\ h[2 * i].time < h[i].time THEN 2 * i ELSE i
  IN IF 2 * i + 1 <= Len(h) /\ h[2 * i + 1].time < h[left].time THEN 2 * i + 1 ELSE left

HeapifyDown[x \in Places] ==
  LET s == Smallest(x.h, x.i)
  IN IF s = x.i THEN x.h ELSE HeapifyDown[[h |-> Exchange(x.h, x.i, s), i |-> s]]

Raised(h, i) == HeapifyUp[[h |-> h, i |-> i]]
Lowered(h, i) == HeapifyDown[[h |-> h, i |-> i]]

Push(h, e) == Raised(Append(h, e), Len(h) + 1)

Shrunk(h) == SubSeq(h, 1, Len(h) - 1)

(* Mutant: the last element only moves down from where it is put. *)
RemoveSinking(h, i) ==
  IF i = Len(h) THEN Shrunk(h)
  ELSE Lowered(Shrunk([h EXCEPT ![i] = h[Len(h)]]), i)

(* The last element takes the place of the one at i and moves down or up.  *)
Remove(h, i) ==
  IF i = Len(h) THEN Shrunk(h)
  ELSE Raised(Lowered(Shrunk([h EXCEPT ![i] = h[Len(h)]]), i), i)

-----------------------------------------------------------------------------
(* The calls of a task, or of the callback that the timer thread runs.     *)

(* The timers of these handles have fired or been cancelled or cleared. *)
End(ids) ==
  /\ state' = [id \in Ids |-> IF id \in ids THEN "ended" ELSE state[id]]
  /\ due' = [id \in Ids |-> IF id \in ids THEN 0 ELSE due[id]]

Active(c) == c \in Tasks \/ phase = "call"

(* IOT_TimerInsertCb reads the time before it locks the heap. *)
StartInsert(c, delay) ==
  /\ Active(c) /\ setting[c] = None
  /\ clock + delay <= MaxTime
  /\ Cardinality({d \in Callers : setting[d] # None}) + nextId < MaxTimers
  /\ setting' = [setting EXCEPT ![c] = clock + delay]
  /\ UNCHANGED <<clock, heap, capacity, nextId, phase, current, event, due, state>>

(* Mutant: a full heap does not grow. *)
InsertUngrown(c) ==
  /\ setting[c] # None
  /\ nextId' = nextId + 1
  /\ heap' = Push(heap, [id |-> nextId', time |-> setting[c] % TimeMod])
  /\ due' = [due EXCEPT ![nextId'] = setting[c]]
  /\ state' = [state EXCEPT ![nextId'] = "set"]
  /\ setting' = [setting EXCEPT ![c] = None]
  /\ UNCHANGED <<clock, capacity, phase, current, event>>

(* The array doubles when it is full, the timer gets the next handle. *)
Insert(c) ==
  /\ setting[c] # None
  /\ capacity' = IF Len(heap) >= capacity THEN 2 * capacity ELSE capacity
  /\ nextId' = nextId + 1
  /\ heap' = Push(heap, [id |-> nextId', time |-> setting[c] % TimeMod])
  /\ due' = [due EXCEPT ![nextId'] = setting[c]]
  /\ state' = [state EXCEPT ![nextId'] = "set"]
  /\ setting' = [setting EXCEPT ![c] = None]
  /\ UNCHANGED <<clock, phase, current, event>>

(* The array could not grow: IOT_TIMER_HANDLE_INVALID. *)
InsertFails(c) ==
  /\ setting[c] # None
  /\ MemFaults /\ Len(heap) >= capacity
  /\ setting' = [setting EXCEPT ![c] = None]
  /\ UNCHANGED <<clock, heap, capacity, nextId, phase, current, event, due, state>>

(* IOT_TimerCancel of a handle that is in the heap; of any other handle it *)
(* answers IOT_ERR_NOT_FOUND and does nothing.                             *)
Cancel(c, id) ==
  /\ Active(c) /\ setting[c] = None
  /\ \E i \in DOMAIN heap :
       /\ heap[i].id = id
       /\ heap' = Remove(heap, i)
  /\ End({id})
  /\ UNCHANGED <<clock, capacity, nextId, phase, current, event, setting>>

(* IOT_TimerDeinit, or IOT_TimerCallbackSupportInit when called again. *)
Deinit(c) ==
  /\ Active(c) /\ setting[c] = None
  /\ heap # <<>>
  /\ heap' = <<>>
  /\ End({id \in Ids : state[id] = "set"})
  /\ UNCHANGED <<clock, capacity, nextId, phase, current, event, setting>>

-----------------------------------------------------------------------------
(* timerThread *)

ReadTime ==
  /\ phase = "sleep"
  /\ phase' = "fire"
  /\ current' = clock % TimeMod
  /\ UNCHANGED <<clock, heap, capacity, nextId, event, setting, due, state>>

(* Mutant: the last element is left where the root was. *)
FireUnsifted ==
  /\ phase = "fire"
  /\ heap # <<>>
  /\ heap[1].time <= current
  /\ event' = heap[1].id
  /\ heap' = IF Len(heap) = 1 THEN <<>>
             ELSE Shrunk([heap EXCEPT ![1] = heap[Len(heap)]])
  /\ End({heap[1].id})
  /\ phase' = "call"
  /\ UNCHANGED <<clock, capacity, nextId, current, setting>>

(* fireTimer takes the root off the heap, and calls it outside the mutex.  *)
FireTimer ==
  /\ phase = "fire"
  /\ heap # <<>>
  /\ heap[1].time <= current
  /\ event' = heap[1].id
  /\ heap' = IF Len(heap) = 1 THEN <<>>
             ELSE Lowered(Shrunk([heap EXCEPT ![1] = heap[Len(heap)]]), 1)
  /\ End({heap[1].id})
  /\ phase' = "call"
  /\ UNCHANGED <<clock, capacity, nextId, current, setting>>

CallbackEnds ==
  /\ phase = "call"
  /\ setting[Thread] = None
  /\ event' = None
  /\ phase' = "fire"
  /\ UNCHANGED <<clock, heap, capacity, nextId, current, setting, due, state>>

(* Mutant: the thread goes to sleep only when the heap is empty, and waits *)
(* in its loop for the timer that is not due.                              *)
NothingLeft ==
  /\ phase = "fire"
  /\ heap = <<>>
  /\ phase' = "sleep"
  /\ UNCHANGED <<clock, heap, capacity, nextId, current, event, setting, due, state>>

NothingDue ==
  /\ phase = "fire"
  /\ heap # <<>> => heap[1].time > current
  /\ phase' = "sleep"
  /\ UNCHANGED <<clock, heap, capacity, nextId, current, event, setting, due, state>>

Tick ==
  /\ clock < MaxTime
  /\ clock' = clock + 1
  /\ UNCHANGED <<heap, capacity, nextId, phase, current, event, setting, due, state>>

-----------------------------------------------------------------------------
Next ==
  \/ Tick
  \/ ReadTime \/ FireTimer \/ CallbackEnds \/ NothingDue
  \/ \E c \in Callers :
       \/ \E delay \in Delays : StartInsert(c, delay)
       \/ Insert(c) \/ InsertFails(c)
       \/ \E id \in Ids : Cancel(c, id)
       \/ Deinit(c)

Spec == Init /\ [][Next]_vars

(* Time passes, the timer thread runs, insertions end, and a callback does *)
(* not insert timers forever, even when every insertion fails.             *)
FairSpec ==
  /\ Spec
  /\ WF_vars(Tick)
  /\ WF_vars(ReadTime \/ FireTimer \/ NothingDue)
  /\ SF_vars(CallbackEnds)
  /\ \A c \in Callers : WF_vars(Insert(c))

-----------------------------------------------------------------------------
(* Properties *)

(* Every variable holds a value of its type; the array holds the heap. *)
TypeOK ==
  /\ clock \in 0 .. MaxTime
  /\ \A i \in DOMAIN heap : heap[i].id \in Ids /\ heap[i].time \in 0 .. TimeMod - 1
  /\ Len(heap) <= capacity
  /\ nextId \in 0 .. MaxTimers
  /\ phase \in {"sleep", "fire", "call"}
  /\ current \in 0 .. TimeMod - 1
  /\ event \in Ids \cup {None} /\ (event # None <=> phase = "call")
  /\ \A c \in Callers : setting[c] # None => setting[c] \in Nat
  /\ state \in [Ids -> {"unused", "set", "ended"}]

(* No timer is due before its parent, so the root is due first, whichever  *)
(* element a cancel took out of the middle.                                *)
HeapOrdered == \A i \in 2 .. Len(heap) : heap[i].time >= heap[i \div 2].time

(* The heap and its thread are a TimerService, which has just the timers  *)
(* set and not fired, cancelled or cleared: a callback runs once, not      *)
(* early, in the order of the due times, and never after a cancel that     *)
(* answered IOT_OK, whatever callbacks and other tasks do meanwhile.       *)
Promised == INSTANCE TimerService WITH
  now <- clock,
  Times <- {time + delay : time \in 0 .. MaxTime, delay \in Delays},
  pending <- {[id |-> heap[i].id, due |-> due[heap[i].id]] : i \in DOMAIN heap},
  running <- event,
  used <- {id \in Ids : state[id] # "unused"}
KeepsPromise == Promised!Spec

(* A timer that was set fires, or is cancelled or cleared. *)
TimersEnd == \A id \in Ids : state[id] = "set" ~> state[id] # "set"
=============================================================================
