-------------------------- MODULE DaoStorageProofs --------------------------
(***************************************************************************)
(* What the storage service guarantees for every number of tasks, keys,    *)
(* calls and queue places: type correctness, and that a blocking call      *)
(* returns the answer of its own operation, provided that no answer comes  *)
(* after DAO_OPERATION_TIMEOUT_MS or that no frame takes the place of a    *)
(* finished one.                                                           *)
(***************************************************************************)
EXTENDS DaoStorage, TLAPS

-----------------------------------------------------------------------------
(* The inductive invariant *)

(* Calls are numbered, a request in the queue or in dao_task carries the   *)
(* number of its call, and no request is there twice.                      *)
RequestsDistinct ==
  /\ \A i, j \in DOMAIN queue : queue[i].id = queue[j].id => i = j
  /\ phase # "idle" => \A i \in DOMAIN queue : queue[i].id # req.id
  /\ \A i \in DOMAIN queue : queue[i].id[2] <= callNo[queue[i].id[1]]
  /\ phase # "idle" => req.id[2] <= callNo[req.id[1]]

(* A call has not run before dao_task executes its request. *)
NotYetRun ==
  /\ \A i \in DOMAIN queue : log[queue[i].id] = NotRun
  /\ phase = "run" => log[req.id] = NotRun
  /\ \A c \in Callers : pc[c] = "sending" => log[CurrentId(c)] = NotRun
  /\ \A id \in Ids : id[2] > callNo[id[1]] => log[id] = NotRun

(* A task that has not sent its request yet has a fresh frame and no       *)
(* request of that number under way.                                       *)
SendingIsFresh ==
  \A c \in Callers :
    /\ pc[c] # "idle" => call[c].id = CurrentId(c)
    /\ pc[c] \in {"down", "sending"} => ~Pending(CurrentId(c))
    /\ sem[c] => pc[c] = "waiting"

(* No pointer of an accepted request dangles. *)
PointersLive ==
  FrameReuse =>
    /\ \A i \in DOMAIN queue : queue[i].mode = "sync" => FrameLive(queue[i])
    /\ phase # "idle" /\ req.mode = "sync" => FrameLive(req)

(* What dao_task and the frame it answers to hold. *)
AnswerOnItsWay ==
  /\ phase \in {"store", "give"} => log[req.id] = answer
  /\ phase = "give" => req.mode = "sync"
  /\ phase \in {"store", "give"} /\ FrameLive(req) =>
       result[req.id[1]].seen = answer.seen
  /\ phase = "give" /\ FrameLive(req) => result[req.id[1]].code = answer.code

(* A semaphore is given when the answer is in the frame. *)
AnswerDelivered ==
  \A c \in Callers :
    sem[c] => /\ ~Pending(CurrentId(c))
              /\ result[c] = log[CurrentId(c)]

IInv ==
  /\ TypeOK
  /\ RequestsDistinct
  /\ NotYetRun
  /\ SendingIsFresh
  /\ PointersLive
  /\ AnswerOnItsWay
  /\ AnswerDelivered
  /\ AnswerIsOwn

-----------------------------------------------------------------------------
(* What the storage operations yield *)

LEMMA CommandKeys ==
  ASSUME NEW cmd \in Commands
  PROVE  cmd.keys \in Seq(Keys)
<1>1. CASE cmd \in [op : {"get", "exists", "set", "remove"}, keys : {<<k>> : k \in Keys}]
  <2>1. PICK k \in Keys : cmd.keys = <<k>>
    BY <1>1
  <2> QED
    BY <2>1
<1>2. CASE cmd \in [op : {"list", "keys", "removeAll"}, keys : {<<>>}]
  <2>1. cmd.keys = <<>>
    BY <1>2
  <2> QED
    BY <2>1
<1>3. CASE cmd \in [op : {"batch"}, keys : Batches]
  BY <1>3, DaoOpsAssumption
<1> QED
  BY <1>1, <1>2, <1>3 DEF Commands

LEMMA WrittenType ==
  ASSUME NEW old \in [Keys -> Stored], NEW keys, NEW j, NEW id \in Ids
  PROVE  Written(old, keys, j, id) \in [Keys -> Stored]
BY DEF Written, Stored

LEMMA ErasedType ==
  ASSUME NEW old \in [Keys -> Stored], NEW keys
  PROVE  Erased(old, keys) \in [Keys -> Stored]
BY DEF Erased, Stored

LEMMA EmptyType == Empty \in [Keys -> Stored]
BY DEF Empty, Stored

LEMMA NoViewType == NoView \in Views
<1>1. NoView \in [{} -> Stored]
  BY DEF NoView
<1>2. {} \in SUBSET Keys
  OBVIOUS
<1> QED
  BY <1>1, <1>2 DEF Views

LEMMA PresentType ==
  ASSUME NEW old, NEW K \in SUBSET Keys
  PROVE  Present(old, K) \in Views
<1> DEFINE P == {j \in K : old[j] # Absent}
<1>1. Present(old, K) = [k \in P |-> Absent]
  BY DEF Present
<1>2. [k \in P |-> Absent] \in [P -> Stored]
  BY DEF Stored
<1>3. P \in SUBSET Keys
  OBVIOUS
<1> HIDE DEF P
<1> QED
  BY <1>1, <1>2, <1>3 DEF Views

LEMMA NormalType ==
  ASSUME NEW cmd \in Commands, NEW id \in Ids, NEW old \in [Keys -> Stored]
  PROVE  /\ Normal(cmd, id, old).new \in [Keys -> Stored]
         /\ Normal(cmd, id, old).ans \in Answers
<1> DEFINE K == KeysOf(cmd.keys)
<1>1. K \subseteq Keys
  BY CommandKeys DEF KeysOf
<1>2. [k \in K |-> old[k]] \in Views
  <2>1. [k \in K |-> old[k]] \in [K -> Stored]
    BY <1>1
  <2>2. K \in SUBSET Keys
    BY <1>1
  <2> HIDE DEF K
  <2> QED
    BY <2>1, <2>2 DEF Views
<1>3. old \in Views
  BY DEF Views
<1>4. \A found \in BOOLEAN : FoundIf(found) \in Codes
  BY DEF FoundIf, Codes
<1>5. CASE cmd.op = "get"
  <2> DEFINE found == \A k \in K : old[k] # Absent
  <2>1. Normal(cmd, id, old) = [new |-> old, ans |-> [code |-> FoundIf(found), seen |-> [k \in K |-> old[k]]]]
    BY <1>5 DEF Normal, GetResult, Result
  <2>2. FoundIf(found) \in Codes
    BY <1>4
  <2> HIDE DEF found, K
  <2> QED
    BY <2>1, <2>2, <1>2 DEF Answers
<1>6. CASE cmd.op = "exists"
  <2>1. Normal(cmd, id, old) = [new |-> old, ans |-> [code |-> "ok", seen |-> Present(old, K)]]
    BY <1>6 DEF Normal, ExistsResult, Result
  <2>2. Present(old, K) \in Views
    BY <1>1, PresentType
  <2> HIDE DEF K
  <2> QED
    BY <2>1, <2>2 DEF Answers, Codes
<1>7. CASE cmd.op = "list"
  <2>1. Normal(cmd, id, old) = [new |-> old, ans |-> [code |-> FoundIf(old # Empty), seen |-> old]]
    BY <1>7 DEF Normal, ListResult, Result
  <2>2. FoundIf(old # Empty) \in Codes
    BY <1>4
  <2> QED
    BY <2>1, <2>2, <1>3 DEF Answers
<1>8. CASE cmd.op \in {"set", "batch"}
  <2>1. Normal(cmd, id, old) = [new |-> Written(old, cmd.keys, Len(cmd.keys), id),
                                ans |-> [code |-> "ok", seen |-> NoView]]
    BY <1>8 DEF Normal, SetResult, Result
  <2> QED
    BY <2>1, WrittenType, NoViewType DEF Answers, Codes
<1>9. CASE cmd.op = "remove"
  <2> DEFINE found == \A k \in K : old[k] # Absent
  <2>1. Normal(cmd, id, old) = [new |-> Erased(old, cmd.keys), ans |-> [code |-> FoundIf(found), seen |-> NoView]]
    BY <1>9 DEF Normal, RemoveResult, Result
  <2>2. FoundIf(found) \in Codes
    BY <1>4
  <2> HIDE DEF found, K
  <2> QED
    BY <2>1, <2>2, ErasedType, NoViewType DEF Answers
<1>10. CASE cmd.op = "removeAll"
  <2>1. Normal(cmd, id, old) = [new |-> Empty, ans |-> [code |-> "ok", seen |-> NoView]]
    BY <1>10 DEF Normal, RemoveAllResult, Result
  <2> QED
    BY <2>1, EmptyType, NoViewType DEF Answers, Codes
<1>11. CASE cmd.op = "keys"
  <2>1. Normal(cmd, id, old) = [new |-> old, ans |-> [code |-> FoundIf(old # Empty),
                                                      seen |-> Present(old, Keys)]]
    BY <1>11 DEF Normal, KeysResult, Result
  <2>2. FoundIf(old # Empty) \in Codes
    BY <1>4
  <2> QED
    BY <2>1, <2>2, PresentType DEF Answers
<1>12. cmd.op \in {"get", "exists", "list", "keys", "set", "batch", "remove", "removeAll"}
  BY DEF Commands
<1> QED
  BY <1>5, <1>6, <1>7, <1>8, <1>9, <1>10, <1>11, <1>12

LEMMA LeftoversType ==
  ASSUME NEW cmd \in Commands, NEW id \in Ids, NEW old \in [Keys -> Stored]
  PROVE  Leftovers(cmd, id, old) \subseteq [Keys -> Stored]
BY WrittenType, NormalType DEF Leftovers

(* Whatever an operation yields is contents of a namespace and an answer.  *)
LEMMA OutcomesType ==
  ASSUME NEW cmd \in Commands, NEW id \in Ids, NEW old \in [Keys -> Stored],
         NEW o \in Outcomes(cmd, id, old)
  PROVE  o.new \in [Keys -> Stored] /\ o.ans \in Answers
<1>1. CASE o = Normal(cmd, id, old)
  BY <1>1, NormalType
<1>2. CASE \E left \in Leftovers(cmd, id, old) : o = Result(left, "fail", NoView)
  BY <1>2, LeftoversType, NoViewType DEF Result, Answers, Codes
<1> QED
  BY <1>1, <1>2 DEF Outcomes

(* Each function of the interface enters with a command of its own, and    *)
(* only those that need no answer are asynchronous.                        *)
MayBe(op, mode) == mode # "sync" => op \in AsyncOps

LEMMA CallEnters ==
  ASSUME NEW c \in Callers, Call(c)
  PROVE  \E cmd \in Commands, mode \in Modes : MayBe(cmd.op, mode) /\ Enter(c, cmd, mode)
<1> DEFINE Some ==
      \E cmd \in Commands, mode \in Modes : MayBe(cmd.op, mode) /\ Enter(c, cmd, mode)
<1>1. \A cmd \in Commands : \A mode : MayBe(cmd.op, mode) /\ Enter(c, cmd, mode) => Some
  <2>1. ASSUME NEW cmd \in Commands, NEW mode, Enter(c, cmd, mode) PROVE mode \in Modes
    BY <2>1 DEF Enter
  <2> QED
    BY <2>1
<1>2. \A k \in Keys, op \in {"get", "exists", "set", "remove"} : Command(op, <<k>>) \in Commands
  BY DEF Command, Commands
<1>3. \A op \in {"list", "keys", "removeAll"} : Command(op, <<>>) \in Commands
  BY DEF Command, Commands
<1>4. \A entries \in Batches : Command("batch", entries) \in Commands
  BY DEF Command, Commands
<1>16. \A op : MayBe(op, "sync")
  BY DEF MayBe
<1>17. \A mode : MayBe("set", mode) /\ MayBe("remove", mode) /\ MayBe("removeAll", mode)
  BY DEF MayBe, AsyncOps
<1>18. \A op, keys : Command(op, keys).op = op
  BY DEF Command
<1> HIDE DEF Some
<1>5. ASSUME GetNamespaceData(c) PROVE Some
  BY <1>1, <1>3, <1>16, <1>18, <1>5, Zenon DEF GetNamespaceData
<1>6. ASSUME GetData(c) PROVE Some
  BY <1>1, <1>2, <1>16, <1>18, <1>6, Zenon DEF GetData
<1>7. ASSUME SetData(c) PROVE Some
  BY <1>1, <1>2, <1>16, <1>18, <1>7, Zenon DEF SetData
<1>8. ASSUME SetDataBatch(c) PROVE Some
  BY <1>1, <1>4, <1>16, <1>18, <1>8, Zenon DEF SetDataBatch
<1>9. ASSUME GetKeyList(c) PROVE Some
  BY <1>1, <1>3, <1>16, <1>18, <1>9, Zenon DEF GetKeyList
<1>10. ASSUME RemoveDataByKey(c) PROVE Some
  BY <1>1, <1>2, <1>16, <1>18, <1>10, Zenon DEF RemoveDataByKey
<1>11. ASSUME RemoveNamespace(c) PROVE Some
  BY <1>1, <1>3, <1>16, <1>18, <1>11, Zenon DEF RemoveNamespace
<1>12. ASSUME CheckDataExistByKey(c) PROVE Some
  BY <1>1, <1>2, <1>16, <1>18, <1>12, Zenon DEF CheckDataExistByKey
<1>13. ASSUME SetDataWithCallback(c) PROVE Some
  BY <1>1, <1>2, <1>17, <1>18, <1>13, Zenon DEF SetDataWithCallback
<1>14. ASSUME RemoveWithCallback(c) PROVE Some
  <2>1. PICK what \in {<<"removeAll", <<>>>>} \cup {<<"remove", <<k>>>> : k \in Keys},
             mode \in {"async", "callback"} : Enter(c, Command(what[1], what[2]), mode)
    BY <1>14 DEF RemoveWithCallback
  <2>2. Command(what[1], what[2]) \in Commands
    BY DEF Command, Commands
  <2>3. MayBe(what[1], mode)
    BY <1>17
  <2> QED
    BY <1>1, <1>18, <2>1, <2>2, <2>3, Zenon
<1>15. Some
  BY <1>5, <1>6, <1>7, <1>8, <1>9, <1>10, <1>11, <1>12, <1>13, <1>14 DEF Call
<1> QED
  BY <1>15 DEF Some

-----------------------------------------------------------------------------
(* Type correctness *)

LEMMA TypeInit == Init => TypeOK
<1> SUFFICES ASSUME Init PROVE TypeOK
  OBVIOUS
<1>1. nvs \in [Keys -> Stored]
  BY EmptyType DEF Init
<1>2. result \in [Callers -> [code : Codes \cup {"timeout"}, seen : Views]]
  BY NoViewType DEF Init, Unanswered
<1>3. queue \in Seq(Requests) /\ Len(queue) <= QueueSize
  BY DaoStorageAssumption DEF Init
<1>4. callNo \in [Callers -> 0 .. MaxCalls] /\ downs \in 0 .. Shutdowns
  BY DaoOpsAssumption, DaoStorageAssumption DEF Init
<1> QED
  BY <1>1, <1>2, <1>3, <1>4 DEF Init, TypeOK

(* A call that ends leaves well-typed variables behind. *)
LEMMA ReturnType ==
  ASSUME TypeOK, NEW c \in Callers, pc[c] # "idle",
         NEW ans \in [code : Codes \cup Refusals, seen : Views], Return(c, ans)
  PROVE  /\ pc' \in [Callers -> {"idle", "down", "sending", "waiting"}]
         /\ call' \in [Callers -> Requests \cup {NotRun}]
         /\ \A d \in Callers : pc'[d] # "idle" => pc[d] # "idle" /\ call'[d] = call[d]
         /\ result' \in [Callers -> [code : Codes \cup {"timeout"}, seen : Views]]
         /\ sem' \in [Callers -> BOOLEAN]
         /\ ret' \in [Callers -> Returns \cup {NotRun}]
<1>1. CurrentId(c) \in Ids
  BY DaoOpsAssumption DEF TypeOK, CurrentId, Ids
<1>2. [id |-> CurrentId(c), sync |-> call[c].mode = "sync",
       code |-> ans.code, seen |-> ans.seen] \in Returns
  BY <1>1 DEF Returns
<1>3. Unanswered \in [code : Codes \cup {"timeout"}, seen : Views]
  BY NoViewType DEF Unanswered
<1> QED
  BY <1>2, <1>3 DEF Return, TypeOK

LEMMA RefusalType ==
  ASSUME NEW code \in {"ok"} \cup Refusals
  PROVE  [code |-> code, seen |-> NoView] \in [code : Codes \cup Refusals, seen : Views]
BY NoViewType DEF Codes

LEMMA TypeStep == TypeOK /\ [Next]_vars => TypeOK'
<1> SUFFICES ASSUME TypeOK, [Next]_vars PROVE TypeOK'
  OBVIOUS
<1> USE DaoOpsAssumption, DaoStorageAssumption
<1>1. ASSUME NEW c \in Callers, NEW cmd \in Commands, NEW mode \in Modes, Enter(c, cmd, mode)
      PROVE TypeOK'
  <2>1. callNo[c] + 1 \in 1 .. MaxCalls
    BY <1>1 DEF Enter, TypeOK
  <2>2. [id |-> <<c, callNo[c] + 1>>, cmd |-> cmd, mode |-> mode] \in Requests
    BY <2>1 DEF Requests, Ids
  <2>3. copies' \subseteq Ids
    BY <1>1, <2>1 DEF Enter, TypeOK, Ids
  <2>4. /\ callNo' \in [Callers -> 0 .. MaxCalls]
        /\ call' \in [Callers -> Requests \cup {NotRun}]
        /\ pc' \in [Callers -> {"idle", "down", "sending", "waiting"}]
    BY <1>1, <2>1, <2>2 DEF Enter, TypeOK
  <2>5. \A d \in Callers : pc'[d] # "idle" => call'[d] \in Requests /\ callNo'[d] > 0
    <3>1. call'[c] \in Requests /\ callNo'[c] > 0
      BY <1>1, <2>1, <2>2 DEF Enter, TypeOK
    <3>2. ASSUME NEW d \in Callers, d # c, pc'[d] # "idle"
          PROVE  call'[d] \in Requests /\ callNo'[d] > 0
      BY <1>1, <3>2 DEF Enter, TypeOK
    <3> QED
      BY <3>1, <3>2
  <2> QED
    BY <1>1, <2>3, <2>4, <2>5 DEF Enter, TypeOK, flash, server
<1>2. ASSUME NEW c \in Callers, ReturnDown(c) PROVE TypeOK'
  <2>1. Return(c, [code |-> "invalidState", seen |-> NoView]) /\ pc[c] # "idle"
    BY <1>2 DEF ReturnDown, ReturnCode
  <2>2. [code |-> "invalidState", seen |-> NoView] \in [code : Codes \cup Refusals, seen : Views]
    BY RefusalType DEF Refusals
  <2> QED
    BY <1>2, <2>1, <2>2, ReturnType DEF ReturnDown, TypeOK, flash, server
<1>3. ASSUME NEW c \in Callers, ReturnNoMemory(c) PROVE TypeOK'
  <2>1. Return(c, [code |-> "noMem", seen |-> NoView]) /\ pc[c] # "idle"
    BY <1>3 DEF ReturnNoMemory, ReturnCode
  <2>2. [code |-> "noMem", seen |-> NoView] \in [code : Codes \cup Refusals, seen : Views]
    BY RefusalType DEF Refusals
  <2> QED
    BY <1>3, <2>1, <2>2, ReturnType DEF ReturnNoMemory, FreeCopy, TypeOK, flash, server
<1>4. ASSUME NEW c \in Callers, Send(c) PROVE TypeOK'
  <2>1. call[c] \in Requests
    BY <1>4 DEF Send, TypeOK
  <2>2. queue' \in Seq(Requests) /\ Len(queue') <= QueueSize
    BY <1>4, <2>1 DEF Send, TypeOK
  <2>3. CASE call[c].mode = "sync"
    BY <1>4, <2>2, <2>3 DEF Send, Wait, TypeOK, flash, server
  <2>4. CASE call[c].mode # "sync"
    <3>1. Return(c, [code |-> "ok", seen |-> NoView]) /\ pc[c] # "idle"
      BY <1>4, <2>4 DEF Send, ReturnCode
    <3>2. [code |-> "ok", seen |-> NoView] \in [code : Codes \cup Refusals, seen : Views]
      BY RefusalType
    <3> QED
      BY <1>4, <2>2, <3>1, <3>2, ReturnType DEF Send, TypeOK, flash, server
  <2> QED
    BY <2>3, <2>4
<1>5. ASSUME NEW c \in Callers, SendTimeout(c) PROVE TypeOK'
  <2>1. Return(c, [code |-> "timeout", seen |-> NoView]) /\ pc[c] # "idle"
    BY <1>5 DEF SendTimeout, ReturnCode
  <2>2. [code |-> "timeout", seen |-> NoView] \in [code : Codes \cup Refusals, seen : Views]
    BY RefusalType DEF Refusals
  <2> QED
    BY <1>5, <2>1, <2>2, ReturnType DEF SendTimeout, FreeCopy, TypeOK, flash, server
<1>6. ASSUME NEW c \in Callers, SendToDeleted(c) PROVE TypeOK'
  <2>1. CASE call[c].mode = "sync"
    BY <1>6, <2>1 DEF SendToDeleted, Wait, TypeOK, flash, server
  <2>2. CASE call[c].mode # "sync"
    <3>1. Return(c, [code |-> "ok", seen |-> NoView]) /\ pc[c] # "idle"
      BY <1>6, <2>2 DEF SendToDeleted, ReturnCode
    <3>2. [code |-> "ok", seen |-> NoView] \in [code : Codes \cup Refusals, seen : Views]
      BY RefusalType
    <3> QED
      BY <1>6, <3>1, <3>2, ReturnType DEF SendToDeleted, TypeOK, flash, server
  <2> QED
    BY <2>1, <2>2
<1>7. ASSUME NEW c \in Callers, TakeAnswer(c) PROVE TypeOK'
  <2>1. Return(c, result[c]) /\ pc[c] # "idle"
    BY <1>7 DEF TakeAnswer
  <2>2. result[c] \in [code : Codes \cup Refusals, seen : Views]
    BY DEF TypeOK, Refusals
  <2> QED
    BY <1>7, <2>1, <2>2, ReturnType DEF TakeAnswer, TypeOK, flash, server
<1>8. ASSUME NEW c \in Callers, AnswerTimeout(c) PROVE TypeOK'
  <2>1. Return(c, [code |-> "timeout", seen |-> NoView]) /\ pc[c] # "idle"
    BY <1>8 DEF AnswerTimeout, ReturnCode
  <2>2. [code |-> "timeout", seen |-> NoView] \in [code : Codes \cup Refusals, seen : Views]
    BY RefusalType DEF Refusals
  <2>3. abandoned' \subseteq Ids
    <3>1. CurrentId(c) \in Ids
      <4>1. pc[c] = "waiting" /\ callNo[c] \in 0 .. MaxCalls /\ callNo[c] > 0
        BY <1>8 DEF AnswerTimeout, TypeOK
      <4>2. callNo[c] \in 1 .. MaxCalls
        BY <4>1
      <4> QED
        BY <4>2 DEF CurrentId, Ids
    <3>2. abandoned' = abandoned \/ abandoned' = abandoned \cup {CurrentId(c)}
      BY <1>8 DEF AnswerTimeout, Abandon
    <3> QED
      BY <3>1, <3>2 DEF TypeOK
  <2> QED
    BY <1>8, <2>1, <2>2, <2>3, ReturnType DEF AnswerTimeout, TypeOK, flash, server
<1>9. CASE Receive
  <2>1. Head(queue) \in Requests /\ Tail(queue) \in Seq(Requests)
          /\ Len(Tail(queue)) <= QueueSize
    BY <1>9 DEF Receive, TypeOK
  <2> QED
    BY <1>9, <2>1 DEF Receive, TypeOK, flash, client
<1>10. CASE Execute
  <2>1. req \in Requests /\ req.id \in Ids /\ req.cmd \in Commands /\ req.id[1] \in Callers
    BY <1>10 DEF Execute, TypeOK, Requests, Ids
  <2>2. PICK o \in Outcomes(req.cmd, req.id, nvs) :
          /\ nvs' = o.new
          /\ answer' = o.ans
          /\ log' = [log EXCEPT ![req.id] = o.ans]
          /\ \E reached \in Reaches(req) :
               result' = IF req.mode = "sync" /\ reached
                         THEN [result EXCEPT ![req.id[1]].seen = o.ans.seen]
                         ELSE result
    BY <1>10 DEF Execute
  <2>3. o.new \in [Keys -> Stored] /\ o.ans \in Answers
    BY <2>1, OutcomesType DEF TypeOK
  <2>4. o.ans.seen \in Views
    BY <2>3 DEF Answers
  <2>5. result' \in [Callers -> [code : Codes \cup {"timeout"}, seen : Views]]
    <3> DEFINE r == result[req.id[1]]
    <3>1. r \in [code : Codes \cup {"timeout"}, seen : Views]
      BY <2>1 DEF TypeOK
    <3>2. [r EXCEPT !.seen = o.ans.seen] \in [code : Codes \cup {"timeout"}, seen : Views]
      BY <2>4, <3>1
    <3> QED
      BY <2>1, <2>2, <3>2 DEF TypeOK
  <2>6. log' \in [Ids -> Answers \cup {NotRun}]
    BY <2>1, <2>2, <2>3 DEF TypeOK
  <2> QED
    BY <1>10, <2>1, <2>2, <2>3, <2>5, <2>6 DEF Execute, TypeOK
<1>11. CASE StoreResult
  <2>1. req.id[1] \in Callers /\ answer.code \in Codes
    BY <1>11 DEF StoreResult, TypeOK, Requests, Ids, Answers
  <2>2. result' \in [Callers -> [code : Codes \cup {"timeout"}, seen : Views]]
    <3> DEFINE r == result[req.id[1]]
    <3>1. r \in [code : Codes \cup {"timeout"}, seen : Views]
      BY <2>1 DEF TypeOK
    <3>2. [r EXCEPT !.code = answer.code] \in [code : Codes \cup {"timeout"}, seen : Views]
      BY <2>1, <3>1
    <3> QED
      BY <1>11, <2>1, <3>2 DEF StoreResult, TypeOK
  <2> QED
    BY <1>11, <2>2 DEF StoreResult, TypeOK, flash
<1>12. CASE GiveSemaphore
  <2>1. sem' \in [Callers -> BOOLEAN]
    BY <1>12 DEF GiveSemaphore, TypeOK, Requests, Ids
  <2> QED
    BY <1>12, <2>1 DEF GiveSemaphore, Finish, TypeOK, flash
<1>13. CASE Notify
  <2>1. told' \in [Ids -> Codes \cup {NotRun}]
    BY <1>13 DEF Notify, TypeOK, Requests, Answers
  <2> QED
    BY <1>13, <2>1 DEF Notify, Finish, TypeOK, flash, client
<1>14. CASE InitStorage
  BY <1>14 DEF InitStorage, TypeOK, flash, server, client
<1>15. Interrupted \subseteq [Keys -> Stored]
  <2>1. CASE phase = "run"
    BY <2>1, LeftoversType DEF Interrupted, TypeOK, Requests
  <2>2. CASE phase # "run"
    BY <2>2 DEF Interrupted, TypeOK
  <2> QED
    BY <2>1, <2>2
<1>16. CASE DeinitStorage
  <2>1. nvs' \in [Keys -> Stored]
    BY <1>15, <1>16, EmptyType DEF DeinitStorage
  <2>2. queue' \in Seq(Requests) /\ Len(queue') <= QueueSize /\ downs' \in 0 .. Shutdowns
    BY <1>16 DEF DeinitStorage, TypeOK
  <2> QED
    BY <1>16, <2>1, <2>2 DEF DeinitStorage, Finish, TypeOK, client
<1>17. CASE Restart
  <2>1. nvs' \in [Keys -> Stored]
    BY <1>15, <1>17 DEF Restart
  <2>2. result' \in [Callers -> [code : Codes \cup {"timeout"}, seen : Views]]
    BY <1>17, NoViewType DEF Restart, NoFrames, Unanswered
  <2>3. queue' \in Seq(Requests) /\ Len(queue') <= QueueSize /\ downs' \in 0 .. Shutdowns
    BY <1>17 DEF Restart, TypeOK
  <2> QED
    BY <1>17, <2>1, <2>2, <2>3 DEF Restart, NoFrames, Finish, TypeOK
<1>18. CASE UNCHANGED vars
  BY <1>18 DEF vars, TypeOK
<1> QED
  BY <1>1, <1>2, <1>3, <1>4, <1>5, <1>6, <1>7, <1>8, <1>9, <1>10, <1>11, <1>12, <1>13,
     <1>14, <1>16, <1>17, <1>18, CallEnters DEF Next, Caller, DaoTask, Finished

(* Every variable keeps its type, and the request queue never exceeds      *)
(* DAO_QUEUE_SIZE, whatever the tasks and dao_task do.                      *)
THEOREM TypeCorrect == Spec => []TypeOK
<1> QED
  BY TypeInit, TypeStep, PTL DEF Spec

-----------------------------------------------------------------------------
(* A blocking call returns the answer of its own operation                 *)

(* No answer is late, or no frame takes the place of a finished one.       *)
NoLateAnswers == ~(OpTimeouts /\ FrameReuse)

LEMMA RequestFields ==
  ASSUME NEW r \in Requests
  PROVE  /\ r.id \in Ids /\ r.id[1] \in Callers /\ r.id[2] \in 1 .. MaxCalls
         /\ r.id = <<r.id[1], r.id[2]>>
BY DEF Requests, Ids

LEMMA QueuedRequests ==
  ASSUME TypeOK
  PROVE  /\ \A i \in DOMAIN queue : queue[i] \in Requests
         /\ DOMAIN queue = 1 .. Len(queue) /\ Len(queue) \in Nat
         /\ phase # "idle" => req \in Requests
         /\ \A c \in Callers : callNo[c] \in 0 .. MaxCalls
BY DEF TypeOK

(* A pointer of the request in dao_task reaches a frame only if that frame *)
(* is the one of the call that sent the request.                           *)
LEMMA PointerReachesOwnFrame ==
  ASSUME IInv, phase # "idle", req.mode = "sync", NEW reached \in Reaches(req), reached
  PROVE  FrameLive(req)
BY DEF IInv, PointersLive, Reaches

LEMMA OwnInit == Init => IInv
<1> SUFFICES ASSUME Init PROVE IInv
  OBVIOUS
<1>1. TypeOK
  BY TypeInit
<1>2. RequestsDistinct /\ PointersLive /\ AnswerOnItsWay
  BY DEF Init, RequestsDistinct, PointersLive, AnswerOnItsWay
<1>3. NotYetRun /\ SendingIsFresh /\ AnswerDelivered /\ AnswerIsOwn
  BY DEF Init, NotYetRun, SendingIsFresh, AnswerDelivered, AnswerIsOwn
<1> QED
  BY <1>1, <1>2, <1>3 DEF IInv

LEMMA OwnEnter ==
  ASSUME IInv, TypeOK', NEW c \in Callers, NEW cmd \in Commands, NEW mode \in Modes,
         Enter(c, cmd, mode)
  PROVE  IInv'
<1>1. /\ queue' = queue /\ phase' = phase /\ req' = req /\ answer' = answer
      /\ log' = log /\ result' = result /\ sem' = sem /\ ret' = ret
      /\ pc[c] = "idle" /\ callNo[c] \in 0 .. MaxCalls /\ callNo'[c] = callNo[c] + 1
      /\ callNo[c] + 1 \in 1 .. MaxCalls
      /\ pc'[c] # "idle" /\ pc'[c] # "waiting" /\ call'[c].id = <<c, callNo[c] + 1>>
      /\ \A d \in Callers \ {c} :
           pc'[d] = pc[d] /\ callNo'[d] = callNo[d] /\ call'[d] = call[d]
      /\ \A d \in Callers : callNo'[d] \in Nat /\ callNo[d] \in Nat /\ callNo[d] <= callNo'[d]
  BY DaoOpsAssumption DEF IInv, TypeOK, Enter, flash, server
<1>2. \A r \in Requests : r.id[2] <= callNo[r.id[1]] => r.id # <<c, callNo[c] + 1>>
  BY <1>1, RequestFields
<1>3. ~Pending(<<c, callNo[c] + 1>>)
  BY <1>1, <1>2, QueuedRequests DEF IInv, RequestsDistinct, Pending
<1>4. \A r \in Requests : FrameLive(r)' <=> FrameLive(r)
  BY <1>1, RequestFields DEF FrameLive
<1>5. RequestsDistinct'
  BY <1>1, QueuedRequests, RequestFields DEF IInv, RequestsDistinct
<1>6. NotYetRun'
  <2>1. <<c, callNo[c] + 1>> \in Ids /\ log[<<c, callNo[c] + 1>>] = NotRun
    BY <1>1 DEF IInv, NotYetRun, Ids
  <2>2. \A id \in Ids : id[2] > callNo'[id[1]] => log[id] = NotRun
    BY <1>1 DEF IInv, NotYetRun, Ids
  <2>3. \A d \in Callers : pc'[d] = "sending" => log[CurrentId(d)'] = NotRun
    BY <1>1, <2>1 DEF IInv, NotYetRun, CurrentId
  <2> QED
    BY <1>1, <2>2, <2>3 DEF IInv, NotYetRun
<1>7. SendingIsFresh'
  <2>1. \A id : Pending(id)' <=> Pending(id)
    BY <1>1 DEF Pending
  <2> QED
    BY <1>1, <1>3, <2>1 DEF IInv, SendingIsFresh, CurrentId
<1>8. PointersLive'
  BY <1>1, <1>4, QueuedRequests DEF IInv, PointersLive
<1>9. AnswerOnItsWay'
  BY <1>1, <1>4, QueuedRequests DEF IInv, AnswerOnItsWay
<1>10. AnswerDelivered'
  <2>1. \A id : Pending(id)' <=> Pending(id)
    BY <1>1 DEF Pending
  <2>2. \A d \in Callers : sem[d] => d # c
    BY <1>1 DEF IInv, SendingIsFresh
  <2> QED
    BY <1>1, <2>1, <2>2 DEF IInv, AnswerDelivered, CurrentId
<1>11. AnswerIsOwn'
  BY <1>1 DEF IInv, AnswerIsOwn
<1> QED
  BY <1>5, <1>6, <1>7, <1>8, <1>9, <1>10, <1>11 DEF IInv

(* A call may return if it was never accepted, if it has its answer, or if *)
(* no late answer can reach the frame that follows.                        *)
LEMMA OwnReturn ==
  ASSUME IInv, TypeOK', NEW c \in Callers, pc[c] # "idle",
         NEW ans \in [code : Codes \cup Refusals, seen : Views], Return(c, ans),
         UNCHANGED <<log, phase, req, answer, queue, callNo>>,
         ans.code \in Codes /\ call[c].mode = "sync" => ans = log[CurrentId(c)],
         FrameReuse => ~Pending(CurrentId(c))
  PROVE  IInv'
<1>1. /\ pc'[c] = "idle" /\ sem'[c] = FALSE
      /\ \A d \in Callers \ {c} :
           /\ pc'[d] = pc[d] /\ call'[d] = call[d] /\ result'[d] = result[d]
           /\ sem'[d] = sem[d] /\ ret'[d] = ret[d]
      /\ ret'[c] = [id |-> CurrentId(c), sync |-> call[c].mode = "sync",
                    code |-> ans.code, seen |-> ans.seen]
  BY DEF IInv, TypeOK, Return
<1>2. \A id : Pending(id)' <=> Pending(id)
  BY DEF Pending
<1>3. \A r \in Requests : FrameLive(r)' => FrameLive(r) /\ r.id[1] # c
  BY <1>1, RequestFields DEF FrameLive
<1>4. RequestsDistinct'
  BY DEF IInv, RequestsDistinct
<1>5. NotYetRun'
  BY <1>1 DEF IInv, NotYetRun, CurrentId
<1>6. SendingIsFresh'
  BY <1>1, <1>2 DEF IInv, SendingIsFresh, CurrentId
<1>7. PointersLive'
  <2>1. ASSUME FrameReuse, NEW r \in Requests, Pending(r.id), FrameLive(r)
        PROVE  FrameLive(r)'
    <3>1. r.id[1] \in Callers /\ callNo[r.id[1]] = r.id[2] /\ r.id = <<r.id[1], r.id[2]>>
      BY <2>1, RequestFields DEF FrameLive
    <3>2. r.id[1] # c
      BY <2>1, <3>1 DEF CurrentId
    <3> QED
      BY <1>1, <2>1, <3>1, <3>2 DEF FrameLive
  <2> QED
    BY <2>1, QueuedRequests DEF IInv, PointersLive, Pending
<1>8. AnswerOnItsWay'
  BY <1>1, <1>3, QueuedRequests, RequestFields DEF IInv, AnswerOnItsWay, TypeOK
<1>9. AnswerDelivered'
  BY <1>1, <1>2 DEF IInv, AnswerDelivered, CurrentId
<1>10. AnswerIsOwn'
  <2>1. ans = [code |-> ans.code, seen |-> ans.seen]
    OBVIOUS
  <2>2. ASSUME ret'[c].sync, ret'[c].code \in Codes
        PROVE  log'[ret'[c].id] = [code |-> ret'[c].code, seen |-> ret'[c].seen]
    <3> DEFINE s == call[c].mode = "sync"
    <3>1. ret'[c] = [id |-> CurrentId(c), sync |-> s, code |-> ans.code, seen |-> ans.seen]
      BY <1>1
    <3> HIDE DEF s
    <3>2. /\ ret'[c].sync = s /\ ret'[c].id = CurrentId(c)
          /\ ret'[c].code = ans.code /\ ret'[c].seen = ans.seen
      BY <3>1
    <3>3. s
      BY <2>2, <3>2
    <3>4. call[c].mode = "sync"
      BY <3>3 DEF s
    <3>5. ans = log[CurrentId(c)]
      BY <2>2, <3>2, <3>4
    <3> QED
      BY <2>1, <3>2, <3>5
  <2>3. ASSUME NEW d \in Callers \ {c}, ret'[d] # NotRun, ret'[d].sync, ret'[d].code \in Codes
        PROVE  log'[ret'[d].id] = [code |-> ret'[d].code, seen |-> ret'[d].seen]
    BY <1>1, <2>3 DEF IInv, AnswerIsOwn
  <2> QED
    BY <2>2, <2>3 DEF AnswerIsOwn
<1> QED
  BY <1>4, <1>5, <1>6, <1>7, <1>8, <1>9, <1>10 DEF IInv

LEMMA OwnSend ==
  ASSUME IInv, TypeOK', NEW c \in Callers, Send(c)
  PROVE  IInv'
<1>1. /\ pc[c] = "sending" /\ queue' = Append(queue, call[c])
      /\ phase' = phase /\ req' = req /\ answer' = answer /\ log' = log /\ callNo' = callNo
      /\ pc'[c] = IF call[c].mode = "sync" THEN "waiting" ELSE "idle"
      /\ sem[c] = FALSE /\ sem'[c] = FALSE
      /\ call[c] \in Requests /\ call[c].id = CurrentId(c)
      /\ \A d \in Callers \ {c} :
           /\ pc'[d] = pc[d] /\ call'[d] = call[d] /\ result'[d] = result[d]
           /\ sem'[d] = sem[d] /\ ret'[d] = ret[d]
  <2>1. sem[c] = FALSE /\ call[c] \in Requests /\ call[c].id = CurrentId(c)
    BY DEF IInv, TypeOK, SendingIsFresh, Send
  <2> QED
    BY <2>1 DEF IInv, TypeOK, Send, Wait, ReturnCode, Return, server, flash
<1>2. /\ Len(queue') = Len(queue) + 1 /\ DOMAIN queue' = 1 .. Len(queue) + 1
      /\ \A i \in DOMAIN queue : queue'[i] = queue[i] /\ i \in DOMAIN queue'
      /\ queue'[Len(queue) + 1] = call[c]
      /\ \A i \in DOMAIN queue' : i \in DOMAIN queue \/ i = Len(queue) + 1
  BY <1>1, QueuedRequests DEF IInv, TypeOK
<1>3. ~Pending(CurrentId(c)) /\ log[CurrentId(c)] = NotRun
  BY <1>1 DEF IInv, SendingIsFresh, NotYetRun
<1>4. \A id : Pending(id)' <=> Pending(id) \/ id = CurrentId(c)
  BY <1>1, <1>2 DEF Pending
<1>5. \A r \in Requests : r.id # CurrentId(c) => (FrameLive(r)' <=> FrameLive(r))
  <2> SUFFICES ASSUME NEW r \in Requests, r.id # CurrentId(c)
               PROVE  FrameLive(r)' <=> FrameLive(r)
    OBVIOUS
  <2>1. r.id[1] = c => callNo[c] # r.id[2]
    BY RequestFields DEF CurrentId
  <2> QED
    BY <1>1, <2>1, RequestFields DEF FrameLive
<1>6. \A r : r = call[c] /\ r.mode = "sync" => FrameLive(r)'
  BY <1>1 DEF FrameLive, CurrentId
<1>7. RequestsDistinct'
  <2>1. \A i \in DOMAIN queue : queue[i].id # call[c].id
    BY <1>1, <1>3 DEF Pending
  <2>2. phase # "idle" => req.id # call[c].id
    BY <1>1, <1>3 DEF Pending
  <2>3. call[c].id[2] <= callNo[call[c].id[1]]
    BY <1>1, QueuedRequests DEF CurrentId, IInv
  <2> QED
    BY <1>1, <1>2, <2>1, <2>2, <2>3 DEF IInv, RequestsDistinct
<1>8. NotYetRun'
  BY <1>1, <1>2, <1>3 DEF IInv, NotYetRun, CurrentId
<1>9. SendingIsFresh'
  <2>1. \A d \in Callers \ {c} : CurrentId(d) # CurrentId(c)
    BY DEF CurrentId
  <2>2. \A d \in Callers : CurrentId(d)' = CurrentId(d)
    BY <1>1 DEF CurrentId
  <2>3. pc'[c] # "idle" => call'[c] = call[c]
    BY <1>1 DEF Send, Wait, ReturnCode, Return
  <2> QED
    BY <1>1, <1>4, <2>1, <2>2, <2>3 DEF IInv, SendingIsFresh
<1>10. PointersLive'
  <2>1. \A i \in DOMAIN queue : queue[i].id # CurrentId(c)
    BY <1>3 DEF Pending
  <2>2. phase # "idle" => req.id # CurrentId(c)
    BY <1>3 DEF Pending
  <2> QED
    <3>1. ASSUME FrameReuse, phase # "idle", req.mode = "sync"
          PROVE  FrameLive(req)'
      BY <1>1, <1>5, <2>2, <3>1, QueuedRequests DEF IInv, PointersLive, FrameLive
    <3>2. ASSUME FrameReuse, NEW i \in DOMAIN queue', queue'[i].mode = "sync"
          PROVE  FrameLive(queue[i])'
      <4>1. CASE i \in DOMAIN queue
        BY <1>1, <1>2, <1>5, <2>1, <3>2, <4>1, QueuedRequests
        DEF IInv, PointersLive, FrameLive
      <4>2. CASE i = Len(queue) + 1
        BY <1>1, <1>2, <1>6, <3>2, <4>2 DEF FrameLive
      <4> QED
        BY <1>2, <4>1, <4>2
    <3> QED
      BY <1>1, <3>1, <3>2 DEF PointersLive, FrameLive
<1>11. AnswerOnItsWay'
  <2>1. phase # "idle" => req.id # CurrentId(c)
    BY <1>3 DEF Pending
  <2>2. phase # "idle" /\ FrameLive(req)' => FrameLive(req) /\ result'[req.id[1]] = result[req.id[1]]
    <3>1. CASE phase # "idle" /\ FrameLive(req)'
      <4>1. FrameLive(req)
        BY <1>1, <1>5, <2>1, <3>1, QueuedRequests DEF IInv, FrameLive
      <4>2. req.id[1] # c
        BY <1>1, <4>1 DEF FrameLive
      <4> QED
        BY <1>1, <3>1, <4>1, <4>2, QueuedRequests, RequestFields DEF IInv
    <3> QED
      BY <3>1
  <2> QED
    BY <1>1, <2>2 DEF IInv, AnswerOnItsWay
<1>12. AnswerDelivered'
  <2>1. \A d \in Callers \ {c} : CurrentId(d) # CurrentId(c)
    BY DEF CurrentId
  <2>2. \A d \in Callers : CurrentId(d)' = CurrentId(d)
    BY <1>1 DEF CurrentId
  <2> QED
    BY <1>1, <1>4, <2>1, <2>2 DEF IInv, AnswerDelivered
<1>13. AnswerIsOwn'
  <2>1. CASE call[c].mode = "sync"
    BY <1>1, <2>1 DEF Send, Wait, IInv, AnswerIsOwn
  <2>2. CASE call[c].mode # "sync"
    <3>1. ret'[c] = [id |-> CurrentId(c), sync |-> FALSE, code |-> "ok", seen |-> NoView]
      BY <1>1, <2>2 DEF Send, ReturnCode, Return, IInv, TypeOK
    <3> QED
      BY <1>1, <3>1 DEF IInv, AnswerIsOwn
  <2> QED
    BY <2>1, <2>2
<1> QED
  BY <1>7, <1>8, <1>9, <1>10, <1>11, <1>12, <1>13 DEF IInv

LEMMA OwnSendToDeleted ==
  ASSUME IInv, TypeOK', NEW c \in Callers, SendToDeleted(c)
  PROVE  IInv'
<1>1. ~Pending(CurrentId(c))
  BY DEF IInv, SendingIsFresh, SendToDeleted
<1>2. CASE call[c].mode = "sync"
  <2>1. /\ queue' = queue /\ phase' = phase /\ req' = req /\ answer' = answer
        /\ log' = log /\ callNo' = callNo /\ call' = call /\ result' = result
        /\ sem' = sem /\ ret' = ret /\ pc[c] = "sending" /\ pc'[c] = "waiting"
        /\ \A d \in Callers \ {c} : pc'[d] = pc[d]
    BY <1>2 DEF SendToDeleted, Wait, IInv, TypeOK, server, flash
  <2>2. \A id : Pending(id)' <=> Pending(id)
    BY <2>1 DEF Pending
  <2>3. \A r \in Requests : Pending(r.id) => (FrameLive(r)' <=> FrameLive(r))
    <3> SUFFICES ASSUME NEW r \in Requests, Pending(r.id)
                 PROVE  FrameLive(r)' <=> FrameLive(r)
      OBVIOUS
    <3>1. r.id[1] = c => callNo[c] # r.id[2]
      BY <1>1, RequestFields DEF CurrentId
    <3> QED
      BY <2>1, <3>1, RequestFields DEF FrameLive
  <2>4. PointersLive'
    BY <2>1, <2>3, QueuedRequests DEF IInv, PointersLive, Pending
  <2>5. AnswerOnItsWay'
    BY <2>1, <2>3, QueuedRequests DEF IInv, AnswerOnItsWay, Pending
  <2>6. SendingIsFresh' /\ AnswerDelivered'
    BY <2>1, <2>2 DEF IInv, SendingIsFresh, AnswerDelivered, CurrentId
  <2>7. RequestsDistinct' /\ NotYetRun'
    BY <2>1 DEF IInv, RequestsDistinct, NotYetRun, CurrentId
  <2>8. AnswerIsOwn'
    BY <2>1 DEF IInv, AnswerIsOwn
  <2> QED
    BY <2>4, <2>5, <2>6, <2>7, <2>8 DEF IInv
<1>3. CASE call[c].mode # "sync"
  <2>1. Return(c, [code |-> "ok", seen |-> NoView]) /\ pc[c] # "idle"
    BY <1>3 DEF SendToDeleted, ReturnCode
  <2>2. UNCHANGED <<log, phase, req, answer, queue, callNo>>
    BY DEF SendToDeleted, server, flash
  <2> QED
    BY <1>1, <1>3, <2>1, <2>2, RefusalType, OwnReturn
<1> QED
  BY <1>2, <1>3

LEMMA OwnReceive ==
  ASSUME IInv, TypeOK', Receive
  PROVE  IInv'
<1>1. /\ phase = "idle" /\ phase' = "run" /\ req' = queue[1] /\ queue' = Tail(queue)
      /\ queue \in Seq(Requests) /\ Len(queue) > 0
      /\ log' = log /\ callNo' = callNo /\ pc' = pc /\ call' = call
      /\ result' = result /\ sem' = sem /\ ret' = ret
  BY DEF Receive, IInv, TypeOK, flash, client
<1>2. /\ Len(queue') = Len(queue) - 1 /\ DOMAIN queue' = 1 .. Len(queue) - 1
      /\ \A i \in DOMAIN queue' : queue'[i] = queue[i + 1] /\ i + 1 \in DOMAIN queue
      /\ 1 \in DOMAIN queue
  BY <1>1
<1>3. \A id : Pending(id)' => Pending(id)
  BY <1>1, <1>2 DEF Pending
<1>4. \A r : FrameLive(r)' <=> FrameLive(r)
  BY <1>1 DEF FrameLive
<1>5. RequestsDistinct'
  BY <1>1, <1>2, QueuedRequests DEF IInv, RequestsDistinct
<1>6. NotYetRun'
  BY <1>1, <1>2 DEF IInv, NotYetRun, CurrentId
<1>7. SendingIsFresh' /\ AnswerDelivered'
  BY <1>1, <1>3 DEF IInv, SendingIsFresh, AnswerDelivered, CurrentId
<1>8. PointersLive'
  BY <1>1, <1>2 DEF IInv, PointersLive, FrameLive
<1>9. AnswerOnItsWay' /\ AnswerIsOwn'
  BY <1>1 DEF IInv, AnswerOnItsWay, AnswerIsOwn
<1> QED
  BY <1>5, <1>6, <1>7, <1>8, <1>9 DEF IInv

(* An operation runs once, and what it reads goes to the frame of its own  *)
(* call or nowhere.                                                        *)
LEMMA OwnExecute ==
  ASSUME IInv, TypeOK', Execute
  PROVE  IInv'
<1>1. /\ phase = "run" /\ phase' = "store" /\ req' = req /\ queue' = queue
      /\ callNo' = callNo /\ pc' = pc /\ call' = call /\ sem' = sem /\ ret' = ret
      /\ req \in Requests /\ req.id \in Ids
  BY RequestFields DEF Execute, IInv, TypeOK
<1>2. PICK o \in Outcomes(req.cmd, req.id, nvs), reached \in Reaches(req) :
        /\ answer' = o.ans
        /\ log' = [log EXCEPT ![req.id] = o.ans]
        /\ result' = IF req.mode = "sync" /\ reached
                     THEN [result EXCEPT ![req.id[1]].seen = o.ans.seen]
                     ELSE result
  BY DEF Execute
<1>3. log[req.id] = NotRun /\ log'[req.id] = o.ans
        /\ \A id \in Ids : id # req.id => log'[id] = log[id]
  BY <1>1, <1>2 DEF IInv, NotYetRun, TypeOK
<1>4. Pending(req.id)
  BY <1>1 DEF Pending
<1>5. \A c \in Callers : CurrentId(c) # req.id => result'[c] = result[c]
  <2>1. ASSUME NEW c \in Callers, result'[c] # result[c] PROVE CurrentId(c) = req.id
    <3>1. req.mode = "sync" /\ reached /\ req.id[1] = c
      BY <1>1, <1>2, <2>1, RequestFields DEF IInv, TypeOK
    <3>2. FrameLive(req)
      BY <1>1, <3>1, PointerReachesOwnFrame
    <3> QED
      BY <1>1, <3>1, <3>2, RequestFields DEF FrameLive, CurrentId
  <2> QED
    BY <2>1
<1>6. FrameLive(req) => reached
  BY <1>1 DEF Reaches
<1>7. \A r : FrameLive(r)' <=> FrameLive(r)
  BY <1>1 DEF FrameLive
<1>8. \A id : Pending(id)' <=> Pending(id)
  BY <1>1 DEF Pending
<1>9. RequestsDistinct' /\ PointersLive'
  BY <1>1, <1>7 DEF IInv, RequestsDistinct, PointersLive, FrameLive
<1>10. NotYetRun'
  <2>1. \A i \in DOMAIN queue : queue[i].id # req.id /\ queue[i].id \in Ids
    BY <1>1, QueuedRequests, RequestFields DEF IInv, RequestsDistinct
  <2>2. ASSUME NEW c \in Callers, pc[c] = "sending"
        PROVE  CurrentId(c) # req.id /\ CurrentId(c) \in Ids
    BY <1>1, <1>4, <2>2 DEF IInv, SendingIsFresh, TypeOK, CurrentId, Ids
  <2>3. req.id[2] <= callNo[req.id[1]]
    BY <1>1 DEF IInv, RequestsDistinct
  <2>4. \A id \in Ids : id[2] > callNo[id[1]] => id # req.id
    BY <1>1, <2>3, QueuedRequests, RequestFields DEF IInv
  <2> QED
    BY <1>1, <1>3, <2>1, <2>2, <2>4 DEF IInv, NotYetRun, CurrentId
<1>11. SendingIsFresh'
  BY <1>1, <1>8 DEF IInv, SendingIsFresh, CurrentId
<1>12. AnswerOnItsWay'
  <2>1. FrameLive(req) => result'[req.id[1]].seen = o.ans.seen
    <3>1. CASE FrameLive(req)
      <4>1. req.mode = "sync" /\ reached /\ req.id[1] \in Callers
        BY <1>1, <1>6, <3>1, RequestFields DEF FrameLive
      <4>2. result' = [result EXCEPT ![req.id[1]].seen = o.ans.seen]
        BY <1>2, <4>1
      <4>3. result[req.id[1]] \in [code : Codes \cup {"timeout"}, seen : Views]
        BY <4>1 DEF IInv, TypeOK
      <4> QED
        BY <4>1, <4>2, <4>3 DEF IInv, TypeOK
    <3> QED
      BY <3>1
  <2> QED
    BY <1>1, <1>2, <1>3, <2>1 DEF AnswerOnItsWay, FrameLive
<1>13. AnswerDelivered'
  <2>1. ASSUME NEW c \in Callers, sem[c]
        PROVE  ~Pending(CurrentId(c)) /\ result'[c] = log'[CurrentId(c)]
    <3>1. ~Pending(CurrentId(c)) /\ CurrentId(c) # req.id /\ result[c] = log[CurrentId(c)]
      BY <1>4, <2>1 DEF IInv, AnswerDelivered
    <3>2. CurrentId(c) \in Ids
      <4>1. pc[c] # "idle"
        BY <2>1 DEF IInv, SendingIsFresh
      <4> QED
        BY <4>1 DEF IInv, TypeOK, CurrentId, Ids
    <3> QED
      BY <1>3, <1>5, <3>1, <3>2
  <2> QED
    BY <1>1, <1>8, <2>1 DEF AnswerDelivered, CurrentId
<1>14. AnswerIsOwn'
  <2>1. ASSUME NEW c \in Callers, ret[c] # NotRun, ret[c].sync, ret[c].code \in Codes
        PROVE  log'[ret[c].id] = [code |-> ret[c].code, seen |-> ret[c].seen]
    <3>1. log[ret[c].id] = [code |-> ret[c].code, seen |-> ret[c].seen]
      BY <2>1 DEF IInv, AnswerIsOwn
    <3>2. ret[c].id \in Ids /\ ret[c].seen \in Views
      BY <2>1 DEF IInv, TypeOK, Returns
    <3>3. log[ret[c].id] \in Answers
      BY <2>1, <3>1, <3>2 DEF Answers
    <3>4. ret[c].id # req.id
      BY <1>3, <3>3, NotRunAssumption
    <3> QED
      BY <1>3, <3>1, <3>2, <3>4
  <2> QED
    BY <1>1, <2>1 DEF AnswerIsOwn
<1> QED
  BY <1>9, <1>10, <1>11, <1>12, <1>13, <1>14 DEF IInv

LEMMA OwnStoreResult ==
  ASSUME IInv, TypeOK', StoreResult
  PROVE  IInv'
<1>1. /\ phase = "store" /\ phase' = "give" /\ req' = req /\ queue' = queue
      /\ answer' = answer /\ log' = log /\ callNo' = callNo /\ pc' = pc /\ call' = call
      /\ sem' = sem /\ ret' = ret /\ req \in Requests /\ req.mode = "sync"
  BY DEF StoreResult, IInv, TypeOK, flash
<1>2. PICK reached \in Reaches(req) :
        result' = IF reached THEN [result EXCEPT ![req.id[1]].code = answer.code]
                             ELSE result
  BY DEF StoreResult
<1>3. Pending(req.id)
  BY <1>1 DEF Pending
<1>4. \A c \in Callers : CurrentId(c) # req.id => result'[c] = result[c]
  <2>1. ASSUME NEW c \in Callers, result'[c] # result[c] PROVE CurrentId(c) = req.id
    <3>1. reached /\ req.id[1] = c
      BY <1>1, <1>2, <2>1, RequestFields DEF IInv, TypeOK
    <3>2. FrameLive(req)
      BY <1>1, <3>1, PointerReachesOwnFrame
    <3> QED
      BY <1>1, <3>1, <3>2, RequestFields DEF FrameLive, CurrentId
  <2> QED
    BY <2>1
<1>5. \A id : Pending(id)' <=> Pending(id)
  BY <1>1 DEF Pending
<1>6. RequestsDistinct' /\ PointersLive' /\ NotYetRun' /\ SendingIsFresh' /\ AnswerIsOwn'
  BY <1>1, <1>5 DEF IInv, RequestsDistinct, PointersLive, FrameLive, NotYetRun,
                    SendingIsFresh, AnswerIsOwn, CurrentId
<1>7. AnswerOnItsWay'
  <2>1. ASSUME FrameLive(req)
        PROVE  /\ result'[req.id[1]].seen = answer.seen
               /\ result'[req.id[1]].code = answer.code
    <3>1. result' = [result EXCEPT ![req.id[1]].code = answer.code]
      BY <1>2, <2>1 DEF Reaches
    <3>2. /\ req.id[1] \in Callers
          /\ result[req.id[1]] \in [code : Codes \cup {"timeout"}, seen : Views]
      BY <1>1, RequestFields DEF IInv, TypeOK
    <3>3. result[req.id[1]].seen = answer.seen
      BY <1>1, <2>1 DEF IInv, AnswerOnItsWay
    <3> QED
      BY <3>1, <3>2, <3>3 DEF IInv, TypeOK
  <2> QED
    BY <1>1, <2>1 DEF IInv, AnswerOnItsWay, FrameLive
<1>8. AnswerDelivered'
  BY <1>1, <1>3, <1>4, <1>5 DEF IInv, AnswerDelivered, CurrentId
<1> QED
  BY <1>6, <1>7, <1>8 DEF IInv

LEMMA OwnGiveSemaphore ==
  ASSUME IInv, TypeOK', GiveSemaphore
  PROVE  IInv'
<1>1. /\ phase = "give" /\ phase' = "idle" /\ queue' = queue
      /\ log' = log /\ callNo' = callNo /\ pc' = pc /\ call' = call
      /\ result' = result /\ ret' = ret /\ req \in Requests
  BY DEF GiveSemaphore, Finish, IInv, TypeOK, flash
<1>2. req.mode = "sync" /\ answer = log[req.id] /\ answer \in Answers
  BY <1>1 DEF IInv, AnswerOnItsWay, TypeOK
<1>3. PICK reached \in Reaches(req) :
        sem' = IF reached THEN [sem EXCEPT ![req.id[1]] = TRUE] ELSE sem
  BY DEF GiveSemaphore
<1>4. \A id : Pending(id)' => Pending(id) /\ id # req.id
  BY <1>1 DEF Pending, IInv, RequestsDistinct
<1>5. ASSUME NEW c \in Callers, sem'[c], ~sem[c]
      PROVE  FrameLive(req) /\ c = req.id[1] /\ CurrentId(c) = req.id
  <2>1. reached /\ req.id[1] = c
    BY <1>1, <1>3, <1>5, RequestFields DEF IInv, TypeOK
  <2>2. FrameLive(req)
    BY <1>1, <1>2, <2>1, PointerReachesOwnFrame
  <2> QED
    BY <1>1, <2>1, <2>2, RequestFields DEF FrameLive, CurrentId
<1>6. RequestsDistinct' /\ PointersLive' /\ NotYetRun' /\ AnswerOnItsWay' /\ AnswerIsOwn'
  BY <1>1 DEF IInv, RequestsDistinct, PointersLive, FrameLive, NotYetRun,
              AnswerOnItsWay, AnswerIsOwn, CurrentId
<1>7. SendingIsFresh'
  <2>1. \A c \in Callers : sem'[c] => pc[c] = "waiting"
    BY <1>5 DEF IInv, SendingIsFresh, FrameLive
  <2> QED
    BY <1>1, <1>4, <2>1 DEF IInv, SendingIsFresh, CurrentId
<1>8. AnswerDelivered'
  <2>1. ASSUME NEW c \in Callers, sem'[c]
        PROVE  ~Pending(CurrentId(c))' /\ result[c] = log[CurrentId(c)]
    <3>1. CASE sem[c]
      BY <1>1, <1>4, <3>1 DEF IInv, AnswerDelivered, CurrentId
    <3>2. CASE ~sem[c]
      <4>1. FrameLive(req) /\ c = req.id[1] /\ CurrentId(c) = req.id
        BY <1>5, <2>1, <3>2
      <4>2. result[c].seen = answer.seen /\ result[c].code = answer.code
        BY <1>1, <4>1 DEF IInv, AnswerOnItsWay
      <4>3. /\ result[c] \in [code : Codes \cup {"timeout"}, seen : Views]
            /\ answer \in [code : Codes, seen : Views]
        BY <1>2 DEF IInv, TypeOK, Answers
      <4>4. result[c] = answer
        BY <4>2, <4>3
      <4> QED
        BY <1>1, <1>2, <1>4, <4>1, <4>4 DEF CurrentId
    <3> QED
      BY <3>1, <3>2
  <2> QED
    BY <1>1, <2>1 DEF AnswerDelivered, CurrentId
<1> QED
  BY <1>6, <1>7, <1>8 DEF IInv

LEMMA OwnNotify ==
  ASSUME IInv, TypeOK', Notify
  PROVE  IInv'
<1>1. /\ phase = "store" /\ phase' = "idle" /\ queue' = queue /\ log' = log
      /\ callNo' = callNo /\ pc' = pc /\ call' = call /\ result' = result
      /\ sem' = sem /\ ret' = ret
  BY DEF Notify, Finish, flash, client
<1>2. \A id : Pending(id)' => Pending(id)
  BY <1>1 DEF Pending
<1>3. RequestsDistinct' /\ PointersLive' /\ NotYetRun' /\ AnswerOnItsWay' /\ AnswerIsOwn'
  BY <1>1 DEF IInv, RequestsDistinct, PointersLive, FrameLive, NotYetRun,
              AnswerOnItsWay, AnswerIsOwn, CurrentId
<1>4. SendingIsFresh' /\ AnswerDelivered'
  BY <1>1, <1>2 DEF IInv, SendingIsFresh, AnswerDelivered, CurrentId
<1> QED
  BY <1>3, <1>4 DEF IInv

(* Shutting down and starting again lose requests, never mix them up.      *)
LEMMA OwnDown ==
  ASSUME IInv, TypeOK', queue' = <<>>, phase' \in {"idle", phase}, req' = req \/ phase' = "idle",
         answer' = answer \/ phase' = "idle",
         UNCHANGED <<log, callNo, ret>>,
         \/ UNCHANGED <<pc, call, result, sem>>
         \/ NoFrames /\ phase' = "idle"
  PROVE  IInv'
<1>1. DOMAIN queue' = {}
  OBVIOUS
<1>2. CASE UNCHANGED <<pc, call, result, sem>>
  <2>1. \A id : Pending(id)' => Pending(id)
    BY <1>1 DEF Pending
  <2>2. RequestsDistinct' /\ PointersLive' /\ NotYetRun' /\ AnswerOnItsWay' /\ AnswerIsOwn'
    BY <1>1, <1>2 DEF IInv, RequestsDistinct, PointersLive, FrameLive, NotYetRun,
                      AnswerOnItsWay, AnswerIsOwn, CurrentId
  <2>3. SendingIsFresh' /\ AnswerDelivered'
    BY <1>2, <2>1 DEF IInv, SendingIsFresh, AnswerDelivered, CurrentId
  <2> QED
    BY <2>2, <2>3 DEF IInv
<1>3. CASE NoFrames /\ phase' = "idle"
  <2>1. RequestsDistinct' /\ PointersLive' /\ NotYetRun' /\ AnswerOnItsWay' /\ AnswerIsOwn'
    BY <1>1, <1>3 DEF IInv, RequestsDistinct, PointersLive, NotYetRun, NoFrames,
                      AnswerOnItsWay, AnswerIsOwn, CurrentId
  <2>2. SendingIsFresh' /\ AnswerDelivered'
    BY <1>3 DEF SendingIsFresh, AnswerDelivered, NoFrames
  <2> QED
    BY <2>1, <2>2 DEF IInv
<1> QED
  BY <1>2, <1>3

LEMMA OwnStep ==
  ASSUME NoLateAnswers, IInv, [Next]_vars
  PROVE  IInv'
<1>1. TypeOK'
  BY TypeStep DEF IInv
<1> USE <1>1
<1>2. ASSUME NEW c \in Callers, Caller(c) PROVE IInv'
  <2>1. ASSUME NEW cmd \in Commands, NEW mode \in Modes, Enter(c, cmd, mode) PROVE IInv'
    BY <2>1, OwnEnter
  <2>2. CASE ReturnDown(c)
    <3>1. /\ Return(c, [code |-> "invalidState", seen |-> NoView]) /\ pc[c] = "down"
          /\ UNCHANGED <<log, phase, req, answer, queue, callNo>>
      BY <2>2 DEF ReturnDown, ReturnCode, flash, server
    <3>2. "invalidState" \in {"ok"} \cup Refusals /\ "invalidState" \notin Codes
      BY DEF Refusals, Codes
    <3>3. ~Pending(CurrentId(c))
      BY <3>1 DEF IInv, SendingIsFresh
    <3> QED
      BY <3>1, <3>2, <3>3, RefusalType, OwnReturn
  <2>3. CASE ReturnNoMemory(c)
    <3>1. /\ Return(c, [code |-> "noMem", seen |-> NoView]) /\ pc[c] = "sending"
          /\ UNCHANGED <<log, phase, req, answer, queue, callNo>>
      BY <2>3 DEF ReturnNoMemory, ReturnCode, flash, server
    <3>2. "noMem" \in {"ok"} \cup Refusals /\ "noMem" \notin Codes
      BY DEF Refusals, Codes
    <3>3. ~Pending(CurrentId(c))
      BY <3>1 DEF IInv, SendingIsFresh
    <3> QED
      BY <3>1, <3>2, <3>3, RefusalType, OwnReturn
  <2>4. CASE Send(c)
    BY <2>4, OwnSend
  <2>5. CASE SendTimeout(c)
    <3>1. /\ Return(c, [code |-> "timeout", seen |-> NoView]) /\ pc[c] = "sending"
          /\ UNCHANGED <<log, phase, req, answer, queue, callNo>>
      BY <2>5 DEF SendTimeout, ReturnCode, flash, server
    <3>2. "timeout" \in {"ok"} \cup Refusals /\ "timeout" \notin Codes
      BY DEF Refusals, Codes
    <3>3. ~Pending(CurrentId(c))
      BY <3>1 DEF IInv, SendingIsFresh
    <3> QED
      BY <3>1, <3>2, <3>3, RefusalType, OwnReturn
  <2>6. CASE SendToDeleted(c)
    BY <2>6, OwnSendToDeleted
  <2>7. CASE TakeAnswer(c)
    <3>1. /\ Return(c, result[c]) /\ pc[c] = "waiting" /\ sem[c]
          /\ UNCHANGED <<log, phase, req, answer, queue, callNo>>
      BY <2>7 DEF TakeAnswer, flash, server
    <3>2. result[c] = log[CurrentId(c)] /\ ~Pending(CurrentId(c))
      BY <3>1 DEF IInv, AnswerDelivered
    <3>3. result[c] \in [code : Codes \cup Refusals, seen : Views]
      BY DEF IInv, TypeOK, Refusals
    <3> QED
      BY <3>1, <3>2, <3>3, OwnReturn
  <2>8. CASE AnswerTimeout(c)
    <3>1. /\ Return(c, [code |-> "timeout", seen |-> NoView]) /\ pc[c] = "waiting"
          /\ UNCHANGED <<log, phase, req, answer, queue, callNo>>
          /\ OpTimeouts \/ ~Pending(CurrentId(c))
      BY <2>8 DEF AnswerTimeout, ReturnCode, flash, server
    <3>2. "timeout" \in {"ok"} \cup Refusals /\ "timeout" \notin Codes
      BY DEF Refusals, Codes
    <3>3. FrameReuse => ~Pending(CurrentId(c))
      BY <3>1 DEF NoLateAnswers
    <3> QED
      BY <3>1, <3>2, <3>3, RefusalType, OwnReturn
  <2> QED
    BY <1>2, <2>1, <2>2, <2>3, <2>4, <2>5, <2>6, <2>7, <2>8, CallEnters DEF Caller
<1>3. CASE DaoTask
  BY <1>3, OwnReceive, OwnExecute, OwnStoreResult, OwnGiveSemaphore, OwnNotify DEF DaoTask
<1>4. CASE InitStorage
  BY <1>4, OwnDown DEF InitStorage, flash, server, client
<1>5. CASE DeinitStorage
  BY <1>5, OwnDown DEF DeinitStorage, Finish, client
<1>6. CASE Restart
  BY <1>6, OwnDown DEF Restart, Finish
<1>7. CASE UNCHANGED vars
  BY <1>7, OwnDown DEF vars, IInv, RequestsDistinct, NotYetRun, SendingIsFresh, PointersLive,
     AnswerOnItsWay, AnswerDelivered, AnswerIsOwn, Pending, FrameLive, CurrentId
<1> QED
  BY <1>2, <1>3, <1>4, <1>5, <1>6, <1>7 DEF Next, Finished

(* ESP_OK from a blocking write means that this write is in flash, and a   *)
(* blocking read returns what its own read saw, for every number of tasks  *)
(* and calls, provided that answers are not late or frames are not reused. *)
THEOREM AnswersAreOwn ==
  ASSUME NoLateAnswers
  PROVE  Spec => []AnswerIsOwn
<1>1. IInv => AnswerIsOwn
  BY DEF IInv
<1> QED
  BY OwnInit, OwnStep, <1>1, PTL DEF Spec
=============================================================================
