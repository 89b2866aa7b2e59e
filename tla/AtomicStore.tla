---------------------------- MODULE AtomicStore ----------------------------
(***************************************************************************)
(* What the persistent storage promises to the tasks that use it           *)
(* (include/dao/IOT_DaoStorage.h, dao_common.h), stated without the queue, *)
(* the storage task or the semaphores: every call takes effect at most     *)
(* once and atomically, with the operation and keys it was issued with,    *)
(* the calls of one task take effect in the order in which the task issued *)
(* them, a blocking call that returns an answer returns the answer of its  *)
(* own effect, and a call that timed out says nothing (it may still take   *)
(* effect later, once).                                                    *)
(*                                                                         *)
(* What a call that failed leaves is DaoOps!Outcomes: of a batch, any      *)
(* prefix.  This is less than IOT_DaoStorage.h promises ("nothing is       *)
(* committed if any entry fails"): see DaoStorage!FailedLeavesNothing.     *)
(***************************************************************************)
EXTENDS DaoOps

VARIABLES
  store,   \* the contents of the namespace
  issued,  \* issued[c]: how many calls task c has issued
  pending, \* the calls that were issued and may still take effect
  log,     \* log[id]: the answer the call's effect gave, or NotRun
  ret      \* ret[c]: what the last call of task c returned, or NotRun

vars == <<store, issued, pending, log, ret>>

Init ==
  /\ store = Empty
  /\ issued = [c \in Callers |-> 0]
  /\ pending = {}
  /\ log = [id \in Ids |-> NotRun]
  /\ ret = [c \in Callers |-> NotRun]

Issue(c, cmd) ==
  /\ issued[c] < MaxCalls
  /\ issued' = [issued EXCEPT ![c] = @ + 1]
  /\ pending' = pending \cup {[id |-> <<c, issued[c] + 1>>, cmd |-> cmd]}
  /\ UNCHANGED <<store, log, ret>>

(* A call takes effect: once, and after every earlier call of the same     *)
(* task that ever takes effect.                                            *)
Effect(r) ==
  /\ r \in pending
  /\ pending' = pending \ {r}
  /\ \A n \in r.id[2] .. MaxCalls : log[<<r.id[1], n>>] = NotRun
  /\ \E o \in Outcomes(r.cmd, r.id, store) :
       /\ store' = o.new
       /\ log' = [log EXCEPT ![r.id] = o.ans]
  /\ UNCHANGED <<issued, ret>>

Reply(c, sync, ans) ==
  /\ issued[c] > 0
  /\ ret' = [ret EXCEPT ![c] = [id |-> <<c, issued[c]>>, sync |-> sync,
                                code |-> ans.code, seen |-> ans.seen]]
  /\ UNCHANGED <<store, issued, log>>

(* A blocking call returns the answer of its own effect. *)
ReturnAnswer(c) ==
  /\ issued[c] > 0
  /\ log[<<c, issued[c]>>] # NotRun
  /\ Reply(c, TRUE, log[<<c, issued[c]>>])
  /\ UNCHANGED pending

(* No call but the last one of task c is given up. *)
OthersStay(c) ==
  /\ pending' \subseteq pending
  /\ \A r \in pending : r.id # <<c, issued[c]>> => r \in pending'

(* Any call may give up, refused or timed out, and then never take effect  *)
(* or do so later.                                                         *)
ReturnRefusal(c) ==
  /\ \E sync \in BOOLEAN, code \in Refusals :
       Reply(c, sync, [code |-> code, seen |-> NoView])
  /\ OthersStay(c)

(* An asynchronous call returns ok once accepted, or sent to a storage     *)
(* that was just shut down.                                                *)
ReturnAccepted(c) ==
  /\ Reply(c, FALSE, [code |-> "ok", seen |-> NoView])
  /\ OthersStay(c)

(* Power is lost, or the storage is shut down, in the middle of an         *)
(* operation: it never answers, and leaves part of its work.  Calls that   *)
(* wait may be lost.                                                       *)
CutShort(r) ==
  /\ r \in pending
  /\ store' \in Leftovers(r.cmd, r.id, store)
  /\ pending' \subseteq pending \ {r}
  /\ UNCHANGED <<issued, log, ret>>

(* A shutdown or a power loss between two operations, or a call that is    *)
(* sent after it.                                                          *)
Lose ==
  /\ pending' \subseteq pending
  /\ UNCHANGED <<store, issued, log, ret>>

(* Shutting the storage down erases its partition. *)
Erase ==
  /\ store' = Empty
  /\ pending' \subseteq pending
  /\ UNCHANGED <<issued, log, ret>>

Next ==
  \/ \E c \in Callers :
       \/ \E cmd \in Commands : Issue(c, cmd)
       \/ ReturnAnswer(c) \/ ReturnRefusal(c) \/ ReturnAccepted(c)
  \/ \E r \in pending : Effect(r) \/ CutShort(r)
  \/ Lose \/ Erase

Spec == Init /\ [][Next]_vars
=============================================================================
