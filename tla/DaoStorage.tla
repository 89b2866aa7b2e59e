----------------------------- MODULE DaoStorage -----------------------------
(***************************************************************************)
(* The NVS storage service of the firmware                                 *)
(* (components/iotPlatform/implplatform/esp32/dao/dao_common.c).           *)
(*                                                                         *)
(* Tasks do not touch NVS.  They put requests in a bounded FreeRTOS queue  *)
(* that one task, dao_task, serves in order.  A blocking call keeps its    *)
(* completion semaphore, its result variable and (for a batch) the entries *)
(* in its own stack frame, sends pointers to them with the request, waits  *)
(* at most DAO_QUEUE_SEND_TIMEOUT_MS for room in the queue and then at     *)
(* most DAO_OPERATION_TIMEOUT_MS for the answer, and returns; a request    *)
(* that was accepted stays in the queue when its caller gives up.  An      *)
(* asynchronous call returns once the request is queued.                   *)
(***************************************************************************)
EXTENDS DaoOps

CONSTANTS
  QueueSize,   \* DAO_QUEUE_SIZE
  Modes,       \* which of "sync", "async", "callback" the tasks use
  Uses,        \* which operations the tasks use
  Shutdowns,   \* bound: how often the storage is deinitialised or power lost
  OpTimeouts,  \* TRUE: an accepted request may take longer than
               \* DAO_OPERATION_TIMEOUT_MS
  FrameReuse   \* TRUE: the stack slot and the heap block of a finished call
               \* may be those of the task's next call

ASSUME DaoStorageAssumption ==
  /\ QueueSize \in Nat \ {0}
  /\ Modes \subseteq {"sync", "async", "callback"}
  /\ Uses \subseteq Ops
  /\ Shutdowns \in Nat
  /\ OpTimeouts \in BOOLEAN
  /\ FrameReuse \in BOOLEAN

VARIABLES
  nvs,      \* the contents of the namespace, in flash
  up,       \* dao_queue # NULL: the queue and dao_task exist
  queue,    \* dao_queue: the accepted requests, oldest first
  phase,    \* where dao_task is with the request it took
  req,      \* dao_task's local "req", or NotRun
  answer,   \* dao_task's local "result", or NotRun
  pc,       \* pc[c]: where task c is in its call
  callNo,   \* callNo[c]: the number of task c's last call
  call,     \* call[c]: the request task c built, or NotRun
  result,   \* result[c]: the frame's "result" and output buffers
  sem,      \* sem[c]: the frame's binary semaphore has been given
  copies,   \* the payload copies on the heap, by the call that made them
  downs,    \* counts shutdowns and power losses, up to the bound
  log,      \* history: log[id] is the answer of call id, once it ran
  told,     \* history: told[id] is the code call id's callback received
  ret,      \* history: what the last call of each task returned
  abandoned \* history: the batches whose call gave up waiting for them

flash  == <<nvs, log>>
server == <<phase, req, answer>>
client == <<pc, callNo, call, result, sem>>
vars   == <<nvs, up, queue, phase, req, answer, pc, callNo, call, result, sem,
            copies, downs, log, told, ret, abandoned>>

Requests == [id : Ids, cmd : Commands, mode : {"sync", "async", "callback"}]

ASSUME RequestAssumption == NotRun \notin Requests

(* A frame starts with result = ESP_ERR_TIMEOUT and nothing read. *)
Unanswered == [code |-> "timeout", seen |-> NoView]

Init ==
  /\ nvs = Empty
  /\ up = TRUE
  /\ queue = <<>>
  /\ phase = "idle" /\ req = NotRun /\ answer = NotRun
  /\ pc = [c \in Callers |-> "idle"]
  /\ callNo = [c \in Callers |-> 0]
  /\ call = [c \in Callers |-> NotRun]
  /\ result = [c \in Callers |-> Unanswered]
  /\ sem = [c \in Callers |-> FALSE]
  /\ copies = {}
  /\ downs = 0
  /\ log = [id \in Ids |-> NotRun]
  /\ told = [id \in Ids |-> NotRun]
  /\ ret = [c \in Callers |-> NotRun]
  /\ abandoned = {}

-----------------------------------------------------------------------------
(* The calling tasks *)

CurrentId(c) == <<c, callNo[c]>>

(* Mutant: the semaphore and the result outlive the call that made them. *)
ReturnKeepingFrame(c, ans) ==
  /\ pc' = [pc EXCEPT ![c] = "idle"]
  /\ call' = [call EXCEPT ![c] = NotRun]
  /\ ret' = [ret EXCEPT ![c] = [id |-> CurrentId(c), sync |-> call[c].mode = "sync",
                                code |-> ans.code, seen |-> ans.seen]]
  /\ UNCHANGED <<result, sem>>

(* The call in progress returns, and its frame is gone. *)
Return(c, ans) ==
  /\ pc' = [pc EXCEPT ![c] = "idle"]
  /\ call' = [call EXCEPT ![c] = NotRun]
  /\ result' = [result EXCEPT ![c] = Unanswered]
  /\ sem' = [sem EXCEPT ![c] = FALSE]
  /\ ret' = [ret EXCEPT ![c] = [id |-> CurrentId(c), sync |-> call[c].mode = "sync",
                                code |-> ans.code, seen |-> ans.seen]]

(* It returns without an answer of dao_task. *)
ReturnCode(c, code) == Return(c, [code |-> code, seen |-> NoView])

Command(op, keys) == [op |-> op, keys |-> keys]

(* Entry of a DAO_* function: check that the storage is initialised, copy  *)
(* the payload of a set, build the request and its semaphore.              *)
Enter(c, cmd, mode) ==
  /\ pc[c] = "idle"
  /\ callNo[c] < MaxCalls
  /\ mode \in Modes
  /\ cmd.op \in Uses
  /\ callNo' = [callNo EXCEPT ![c] = @ + 1]
  /\ call' = [call EXCEPT ![c] = [id |-> <<c, callNo[c] + 1>>, cmd |-> cmd,
                                  mode |-> mode]]
  /\ pc' = [pc EXCEPT ![c] = IF up THEN "sending" ELSE "down"]
  /\ copies' = IF up /\ cmd.op = "set" THEN copies \cup {<<c, callNo[c] + 1>>}
                                       ELSE copies
  /\ UNCHANGED <<flash, server, up, queue, result, sem, downs, told, ret, abandoned>>

(* The blocking calls *)
GetNamespaceData(c) == Enter(c, Command("list", <<>>), "sync")
GetData(c) == \E k \in Keys : Enter(c, Command("get", <<k>>), "sync")
SetData(c) == \E k \in Keys : Enter(c, Command("set", <<k>>), "sync")
SetDataBatch(c) == \E entries \in Batches : Enter(c, Command("batch", entries), "sync")
GetKeyList(c) == Enter(c, Command("keys", <<>>), "sync")
RemoveDataByKey(c) == \E k \in Keys : Enter(c, Command("remove", <<k>>), "sync")
RemoveNamespace(c) == Enter(c, Command("removeAll", <<>>), "sync")
CheckDataExistByKey(c) == \E k \in Keys : Enter(c, Command("exists", <<k>>), "sync")

(* The asynchronous calls, with a callback or (the *Async functions) none. *)
SetDataWithCallback(c) ==
  \E k \in Keys, mode \in {"async", "callback"} : Enter(c, Command("set", <<k>>), mode)
RemoveWithCallback(c) ==
  \E what \in {<<"removeAll", <<>>>>} \cup {<<"remove", <<k>>>> : k \in Keys},
     mode \in {"async", "callback"} : Enter(c, Command(what[1], what[2]), mode)

(* The storage was not initialised: ESP_ERR_INVALID_STATE. *)
ReturnDown(c) ==
  /\ pc[c] = "down"
  /\ ReturnCode(c, "invalidState")
  /\ UNCHANGED <<flash, server, up, queue, callNo, copies, downs, told, abandoned>>

FreeCopy(c) == copies' = copies \ {CurrentId(c)}

(* The payload copy or the semaphore could not be allocated: what was      *)
(* allocated is freed and the call fails with ESP_ERR_NO_MEM.              *)
ReturnNoMemory(c) ==
  /\ pc[c] = "sending"
  /\ call[c].mode = "sync" \/ call[c].cmd.op = "set"
  /\ ReturnCode(c, "noMem")
  /\ FreeCopy(c)
  /\ UNCHANGED <<flash, server, up, queue, callNo, downs, told, abandoned>>

Wait(c) ==
  /\ pc' = [pc EXCEPT ![c] = "waiting"]
  /\ UNCHANGED <<call, result, sem, ret>>

(* Mutant: the queue has no bound. *)
SendUnbounded(c) ==
  /\ pc[c] = "sending"
  /\ up
  /\ queue' = Append(queue, call[c])
  /\ IF call[c].mode = "sync" THEN Wait(c) ELSE ReturnCode(c, "ok")
  /\ UNCHANGED <<flash, server, up, callNo, copies, downs, told, abandoned>>

(* Mutant: a batch is queued like an asynchronous call. *)
SendBatchAsync(c) ==
  /\ pc[c] = "sending"
  /\ up
  /\ Len(queue) < QueueSize
  /\ queue' = Append(queue, call[c])
  /\ IF call[c].cmd.op # "batch" THEN Wait(c) ELSE ReturnCode(c, "ok")
  /\ UNCHANGED <<flash, server, up, callNo, copies, downs, told, abandoned>>

(* Mutant: xQueueSendToFront. *)
SendToFront(c) ==
  /\ pc[c] = "sending"
  /\ up
  /\ Len(queue) < QueueSize
  /\ queue' = <<call[c]>> \o queue
  /\ IF call[c].mode = "sync" THEN Wait(c) ELSE ReturnCode(c, "ok")
  /\ UNCHANGED <<flash, server, up, callNo, copies, downs, told, abandoned>>

(* xQueueSend finds room.  A blocking call goes on to wait for the answer, *)
(* an asynchronous one returns ESP_OK.                                     *)
Send(c) ==
  /\ pc[c] = "sending"
  /\ up
  /\ Len(queue) < QueueSize
  /\ queue' = Append(queue, call[c])
  /\ IF call[c].mode = "sync"
     THEN Wait(c)
     ELSE ReturnCode(c, "ok")
  /\ UNCHANGED <<flash, server, up, callNo, copies, downs, told, abandoned>>

(* The queue stays full for DAO_QUEUE_SEND_TIMEOUT_MS: the copy is freed   *)
(* and the call returns ESP_ERR_TIMEOUT.                                   *)
SendTimeout(c) ==
  /\ pc[c] = "sending"
  /\ up
  /\ Len(queue) = QueueSize
  /\ ReturnCode(c, "timeout")
  /\ FreeCopy(c)
  /\ UNCHANGED <<flash, server, up, queue, callNo, downs, told, abandoned>>

(* The queue was deleted after the check at entry.  The send writes to a   *)
(* freed queue (the request is lost) or fails FreeRTOS's assertion, which  *)
(* restarts the chip (Restart).                                            *)
SendToDeleted(c) ==
  /\ pc[c] = "sending"
  /\ ~up
  /\ IF call[c].mode = "sync"
     THEN Wait(c)
     ELSE ReturnCode(c, "ok")
  /\ UNCHANGED <<flash, server, up, queue, callNo, copies, downs, told, abandoned>>

(* xSemaphoreTake succeeds; the call deletes the semaphore and returns     *)
(* "result".                                                               *)
TakeAnswer(c) ==
  /\ pc[c] = "waiting"
  /\ sem[c]
  /\ Return(c, result[c])
  /\ UNCHANGED <<flash, server, up, queue, callNo, copies, downs, told, abandoned>>

(* The request of task c is still to be answered. *)
Pending(id) ==
  \/ \E i \in DOMAIN queue : queue[i].id = id
  \/ phase # "idle" /\ req.id = id

(* Mutant: xSemaphoreTake with portMAX_DELAY. *)
WaitForever(c) == pc[c] = "waiting" /\ FALSE /\ UNCHANGED vars

(* A batch that is still to be run has lost its caller. *)
Abandon(c) ==
  abandoned' = IF call[c].cmd.op = "batch" /\ Pending(CurrentId(c))
               THEN abandoned \cup {CurrentId(c)} ELSE abandoned

(* Mutant: a call that gives up frees the payload copy as well. *)
AnswerTimeoutFreeing(c) ==
  /\ pc[c] = "waiting"
  /\ ~sem[c]
  /\ OpTimeouts \/ ~Pending(CurrentId(c))
  /\ ReturnCode(c, "timeout")
  /\ FreeCopy(c)
  /\ UNCHANGED <<flash, server, up, queue, callNo, downs, told, abandoned>>

(* xSemaphoreTake gives up after DAO_OPERATION_TIMEOUT_MS: the call        *)
(* deletes the semaphore and returns ESP_ERR_TIMEOUT.                      *)
AnswerTimeout(c) ==
  /\ pc[c] = "waiting"
  /\ ~sem[c]
  /\ OpTimeouts \/ ~Pending(CurrentId(c))
  /\ ReturnCode(c, "timeout")
  /\ Abandon(c)
  /\ UNCHANGED <<flash, server, up, queue, callNo, copies, downs, told>>

-----------------------------------------------------------------------------
(* dao_task *)

(* The frame that request r points to still exists. *)
FrameLive(r) ==
  /\ r.mode = "sync"
  /\ pc[r.id[1]] = "waiting"
  /\ callNo[r.id[1]] = r.id[2]

(* A pointer of request r reaches the frame of a blocking call: its own    *)
(* frame while that lives, afterwards possibly the frame that took its     *)
(* place on the same stack.                                                *)
Reaches(r) ==
  IF FrameLive(r) THEN {TRUE}
  ELSE IF FrameReuse /\ pc[r.id[1]] # "idle" THEN BOOLEAN
  ELSE {FALSE}

(* Mutant: xQueuePeek, the request stays in the queue. *)
ReceivePeek ==
  /\ up
  /\ phase = "idle"
  /\ queue # <<>>
  /\ req' = Head(queue)
  /\ phase' = "run"
  /\ UNCHANGED <<flash, client, up, queue, answer, copies, downs, told, ret, abandoned>>

(* Mutant: a request whose caller no longer waits is dropped. *)
ReceiveIfAwaited ==
  /\ up
  /\ phase = "idle"
  /\ queue # <<>>
  /\ queue' = Tail(queue)
  /\ IF FrameLive(Head(queue))
     THEN req' = Head(queue) /\ phase' = "run"
     ELSE UNCHANGED <<req, phase>>
  /\ UNCHANGED <<flash, client, up, answer, copies, downs, told, ret, abandoned>>

(* xQueueReceive *)
Receive ==
  /\ up
  /\ phase = "idle"
  /\ queue # <<>>
  /\ req' = Head(queue)
  /\ queue' = Tail(queue)
  /\ phase' = "run"
  /\ UNCHANGED <<flash, client, up, answer, copies, downs, told, ret, abandoned>>

(* The switch of dao_task: the operation on NVS, the values it reads       *)
(* stored through the caller's output pointers, the payload copy freed.    *)
Execute ==
  /\ phase = "run"
  /\ \E o \in Outcomes(req.cmd, req.id, nvs) :
       /\ nvs' = o.new
       /\ answer' = o.ans
       /\ log' = [log EXCEPT ![req.id] = o.ans]
       /\ \E reached \in Reaches(req) :
            result' = IF req.mode = "sync" /\ reached
                      THEN [result EXCEPT ![req.id[1]].seen = o.ans.seen]
                      ELSE result
  /\ copies' = copies \ {req.id}
  /\ phase' = "store"
  /\ UNCHANGED <<pc, callNo, call, sem, up, queue, req, downs, told, ret, abandoned>>

(* "*req.result_ptr = result" of a blocking request. *)
StoreResult ==
  /\ phase = "store"
  /\ req.mode = "sync"
  /\ \E reached \in Reaches(req) :
       result' = IF reached
                 THEN [result EXCEPT ![req.id[1]].code = answer.code]
                 ELSE result
  /\ phase' = "give"
  /\ UNCHANGED <<flash, pc, callNo, call, sem, up, queue, req, answer, copies,
                 downs, told, ret, abandoned>>

Finish == phase' = "idle" /\ req' = NotRun /\ answer' = NotRun

(* xSemaphoreGive: the end of a blocking request. *)
GiveSemaphore ==
  /\ phase = "give"
  /\ \E reached \in Reaches(req) :
       sem' = IF reached THEN [sem EXCEPT ![req.id[1]] = TRUE] ELSE sem
  /\ Finish
  /\ UNCHANGED <<flash, pc, callNo, call, result, up, queue, copies, downs,
                 told, ret, abandoned>>

(* Mutant: the callback is always told ESP_OK. *)
NotifyOk ==
  /\ phase = "store"
  /\ req.mode # "sync"
  /\ told' = IF req.mode = "callback" THEN [told EXCEPT ![req.id] = "ok"] ELSE told
  /\ Finish
  /\ UNCHANGED <<flash, client, up, queue, copies, downs, ret, abandoned>>

(* The end of an asynchronous request: its callback, if it has one. *)
Notify ==
  /\ phase = "store"
  /\ req.mode # "sync"
  /\ told' = IF req.mode = "callback"
             THEN [told EXCEPT ![req.id] = answer.code] ELSE told
  /\ Finish
  /\ UNCHANGED <<flash, client, up, queue, copies, downs, ret, abandoned>>

-----------------------------------------------------------------------------
(* DAO_InitStorage creates the queue and dao_task. *)
InitStorage ==
  /\ ~up
  /\ up' = TRUE
  /\ queue' = <<>>
  /\ UNCHANGED <<flash, server, client, copies, downs, told, ret, abandoned>>

(* What flash holds when dao_task is stopped wherever it is. *)
Interrupted == IF phase = "run" THEN Leftovers(req.cmd, req.id, nvs) ELSE {nvs}

(* DAO_DeinitStorage kills dao_task wherever it is, deletes the queue with *)
(* the requests in it and erases the partition (which may fail).           *)
DeinitStorage ==
  /\ up
  /\ downs < Shutdowns
  /\ downs' = downs + 1
  /\ up' = FALSE
  /\ queue' = <<>>
  /\ Finish
  /\ nvs' \in {Empty} \cup (IF NvsFaults THEN Interrupted ELSE {})
  /\ UNCHANGED <<client, copies, log, told, ret, abandoned>>

NoFrames ==
  /\ pc' = [c \in Callers |-> "idle"]
  /\ call' = [c \in Callers |-> NotRun]
  /\ result' = [c \in Callers |-> Unanswered]
  /\ sem' = [c \in Callers |-> FALSE]

(* Power loss or a reset: RAM is lost, flash keeps what had reached it. *)
Restart ==
  /\ downs < Shutdowns
  /\ downs' = downs + 1
  /\ nvs' \in Interrupted
  /\ up' = FALSE
  /\ queue' = <<>>
  /\ Finish
  /\ NoFrames
  /\ copies' = {}
  /\ UNCHANGED <<callNo, log, told, ret, abandoned>>

-----------------------------------------------------------------------------
Call(c) ==
  \/ GetNamespaceData(c) \/ GetData(c) \/ SetData(c) \/ SetDataBatch(c) \/ GetKeyList(c)
  \/ RemoveDataByKey(c) \/ RemoveNamespace(c) \/ CheckDataExistByKey(c)
  \/ SetDataWithCallback(c) \/ RemoveWithCallback(c)

Caller(c) ==
  \/ Call(c)
  \/ ReturnDown(c) \/ ReturnNoMemory(c)
  \/ Send(c) \/ SendTimeout(c) \/ SendToDeleted(c)
  \/ TakeAnswer(c) \/ AnswerTimeout(c)

DaoTask == Receive \/ Execute \/ StoreResult \/ GiveSemaphore \/ Notify

(* Every task has made the calls the bound allows and nothing is left. *)
Finished ==
  /\ \A c \in Callers : pc[c] = "idle" /\ callNo[c] = MaxCalls
  /\ up /\ queue = <<>> /\ phase = "idle"
  /\ UNCHANGED vars

Next ==
  \/ \E c \in Callers : Caller(c)
  \/ DaoTask
  \/ InitStorage \/ DeinitStorage \/ Restart
  \/ Finished

Spec == Init /\ [][Next]_vars

(* dao_task always runs again (it has a priority of its own), a send and a *)
(* wait end one way or the other because both have a timeout.              *)
Fairness ==
  /\ WF_vars(DaoTask)
  /\ \A c \in Callers :
       /\ WF_vars(ReturnDown(c))
       /\ WF_vars(Send(c) \/ SendTimeout(c) \/ SendToDeleted(c))
       /\ WF_vars(TakeAnswer(c) \/ AnswerTimeout(c))

FairSpec == Spec /\ Fairness

-----------------------------------------------------------------------------
(* Properties *)

Returns == [id : Ids, sync : BOOLEAN, code : Codes \cup Refusals, seen : Views]

(* Every variable holds a value of its type, and dao_queue never holds     *)
(* more than DAO_QUEUE_SIZE requests.                                      *)
TypeOK ==
  /\ nvs \in [Keys -> Stored]
  /\ up \in BOOLEAN
  /\ queue \in Seq(Requests) /\ Len(queue) <= QueueSize
  /\ phase \in {"idle", "run", "store", "give"}
  /\ req \in Requests \cup {NotRun} /\ (phase # "idle" => req \in Requests)
  /\ answer \in Answers \cup {NotRun}
  /\ phase \in {"store", "give"} => answer \in Answers
  /\ pc \in [Callers -> {"idle", "down", "sending", "waiting"}]
  /\ callNo \in [Callers -> 0 .. MaxCalls]
  /\ call \in [Callers -> Requests \cup {NotRun}]
  /\ \A c \in Callers : pc[c] # "idle" => call[c] \in Requests /\ callNo[c] > 0
  /\ result \in [Callers -> [code : Codes \cup {"timeout"}, seen : Views]]
  /\ sem \in [Callers -> BOOLEAN]
  /\ copies \subseteq Ids
  /\ downs \in 0 .. Shutdowns
  /\ log \in [Ids -> Answers \cup {NotRun}]
  /\ told \in [Ids -> Codes \cup {NotRun}]
  /\ ret \in [Callers -> Returns \cup {NotRun}]
  /\ abandoned \subseteq Ids

(* A blocking call that returns an answer returns the answer of its own    *)
(* operation, never that of an earlier call whose answer came late: in     *)
(* particular ESP_OK means that this call's write is in flash.             *)
AnswerIsOwn ==
  \A c \in Callers :
    ret[c] # NotRun =>
      (ret[c].sync /\ ret[c].code \in Codes =>
         log[ret[c].id] = [code |-> ret[c].code, seen |-> ret[c].seen])

(* dao_task reads the entries of a batch only while the call that lent     *)
(* them is still blocked ("caller-owned for the blocking duration"),       *)
(* unless that call gave up waiting for this very batch.                   *)
BatchBorrowed ==
  phase = "run" /\ req.cmd.op = "batch" => FrameLive(req) \/ req.id \in abandoned

(* IOT_DaoStorage.h: "nothing is committed if any entry fails".  A write   *)
(* that answered an error leaves none of its values in the storage.        *)
FailedLeavesNothing ==
  \A id \in Ids : log[id] # NotRun /\ log[id].code = "fail" => \A k \in Keys : nvs[k] # id

SetsToRun ==
  {queue[i].id : i \in {j \in DOMAIN queue : queue[j].cmd.op = "set"}}
    \cup {call[c].id : c \in {d \in Callers : pc[d] = "sending"
                                               /\ call[d].cmd.op = "set"}}
    \cup {r.id : r \in {q \in {req} : phase = "run" /\ q.cmd.op = "set"}}

(* The payload copy of a set lives until the set has run (no use after     *)
(* free), and unless the storage was shut down it is freed on every path   *)
(* that does not run the set (no leak).                                    *)
PayloadOwned ==
  /\ up => SetsToRun \subseteq copies
  /\ downs = 0 => copies = SetsToRun

(* A callback is told the code its own operation answered, after it ran.   *)
CallbackTellsAnswer ==
  \A id \in Ids : told[id] # NotRun => log[id] # NotRun /\ told[id] = log[id].code

(* The calls that were made and may still run. *)
ToRun ==
  {queue[i] : i \in DOMAIN queue}
    \cup {call[c] : c \in {d \in Callers : pc[d] \in {"down", "sending"}}}
    \cup {r \in {req} : phase = "run"}

(* The storage keeps the promise of AtomicStore: atomic effects, at most   *)
(* one per call, in issue order, and answers that are those of the effect. *)
Promised == INSTANCE AtomicStore WITH
  store <- nvs, issued <- callNo, pending <- {[id |-> r.id, cmd |-> r.cmd] : r \in ToRun}
KeepsPromise == Promised!Spec

(* A call that a task made returns, with an answer or a timeout. *)
CallsReturn ==
  \A c \in Callers : pc[c] # "idle" ~> pc[c] = "idle"

(* A request that was accepted runs, and its callback is called, unless    *)
(* the storage is shut down first.                                         *)
AcceptedRuns ==
  \A id \in Ids :
    Pending(id) ~> (downs > 0 \/ (log[id] # NotRun /\ ~Pending(id)))
=============================================================================
