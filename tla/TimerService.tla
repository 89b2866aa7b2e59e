---------------------------- MODULE TimerService ----------------------------
(***************************************************************************)
(* What the timer service of the platform promises its callers             *)
(* (components/iotPlatform/include/IOT_TimerMgmt.h): a timer fires once,   *)
(* not before its time, before every timer that is due later, and not at   *)
(* all once it has been cancelled or cleared; handles are never reused.    *)
(***************************************************************************)
EXTENDS Naturals

CONSTANTS
  Ids,    \* the handles
  Times,  \* the times
  None    \* no timer

VARIABLES
  now,      \* elapsed time
  pending,  \* the timers that are set: [id, due]
  running,  \* the timer whose callback is running, or None
  used      \* the handles given out so far

Init ==
  /\ now = 0
  /\ pending = {}
  /\ running = None
  /\ used = {}

Pass ==
  /\ now' = now + 1
  /\ UNCHANGED <<pending, running, used>>

(* A timer is set for a time that may already have passed when it is in.   *)
Set ==
  /\ UNCHANGED <<now, running>>
  /\ \E id \in Ids \ used :
       /\ used' = used \cup {id}
       /\ \E due \in Times : pending' = pending \cup {[id |-> id, due |-> due]}

Cancel ==
  /\ UNCHANGED <<now, running, used>>
  /\ \E e \in pending : pending' = pending \ {e}

Clear ==
  /\ UNCHANGED <<now, running, used>>
  /\ pending' = {}

Fire ==
  /\ running = None
  /\ \E e \in pending :
       /\ e.due <= now
       /\ \A f \in pending : e.due <= f.due
       /\ pending' = pending \ {e}
       /\ running' = e.id
  /\ UNCHANGED <<now, used>>

Done ==
  /\ running # None
  /\ running' = None
  /\ UNCHANGED <<now, pending, used>>

Next == Pass \/ Set \/ Cancel \/ Clear \/ Fire \/ Done

Spec == Init /\ [][Next]_<<now, pending, running, used>>
=============================================================================
