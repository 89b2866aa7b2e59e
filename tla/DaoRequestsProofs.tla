-------------------------- MODULE DaoRequestsProofs --------------------------
(***************************************************************************)
(* What becomes of a request and of the memory it carries, for every       *)
(* number of tasks, keys, calls and queue places, answers that come late   *)
(* and frames that are reused included: requests run in the order of their *)
(* task, a callback is told its own operation's code, the payload copy of  *)
(* a set lives until the set has run, and a batch is read only while it is *)
(* lent or after its own call gave up (this one only when no answer is     *)
(* late or no frame is reused).                                            *)
(***************************************************************************)
EXTENDS DaoStorageProofs

-----------------------------------------------------------------------------
(* The inductive invariant the three share *)

(* A task that has not sent its request has none of that number under way. *)
CallsFresh ==
  \A c \in Callers :
    /\ pc[c] # "idle" => call[c].id = CurrentId(c)
    /\ pc[c] \in {"down", "sending"} => ~Pending(CurrentId(c))

(* The answer dao_task holds is the one its operation gave. *)
AnswerLogged == phase \in {"store", "give"} => log[req.id] = answer

(* Only what may be queued without waiting is, and only blocking calls     *)
(* wait.                                                                   *)
ModeFits(r) == r.mode # "sync" => r.cmd.op \in AsyncOps

ModesFit ==
  /\ \A i \in DOMAIN queue : ModeFits(queue[i])
  /\ phase # "idle" => ModeFits(req)
  /\ phase = "give" => req.mode = "sync"
  /\ \A c \in Callers :
       /\ pc[c] # "idle" => ModeFits(call[c])
       /\ pc[c] = "waiting" => call[c].mode = "sync"

(* Neither the call of request r nor a later one of its task has run. *)
NoneSince(r) == \A n \in r.id[2] .. MaxCalls : log[<<r.id[1], n>>] = NotRun

SameTask(r, s) == r.id[1] = s.id[1]

(* The requests of a task wait in the order of their calls. *)
InOrder ==
  /\ \A i, j \in DOMAIN queue :
       i < j /\ SameTask(queue[i], queue[j]) => queue[i].id[2] < queue[j].id[2]
  /\ phase = "run" =>
       \A i \in DOMAIN queue : SameTask(req, queue[i]) => req.id[2] < queue[i].id[2]
  /\ \A i \in DOMAIN queue : NoneSince(queue[i])
  /\ phase = "run" => NoneSince(req)

RInv ==
  /\ TypeOK
  /\ RequestsDistinct
  /\ NotYetRun
  /\ CallsFresh
  /\ AnswerLogged
  /\ ModesFit
  /\ InOrder

LEMMA RequestsInit == Init => RInv
<1> SUFFICES ASSUME Init PROVE RInv
  OBVIOUS
<1>1. TypeOK
  BY TypeInit
<1>2. RequestsDistinct /\ NotYetRun /\ AnswerLogged
  BY DEF Init, RequestsDistinct, NotYetRun, AnswerLogged
<1>3. CallsFresh /\ ModesFit /\ InOrder
  BY DEF Init, CallsFresh, ModesFit, InOrder
<1> QED
  BY <1>1, <1>2, <1>3 DEF RInv

(* A call that ends or begins to wait, and a request that is answered or   *)
(* lost, leave the others as they were.                                    *)
LEMMA RequestsCalm ==
  ASSUME RInv, TypeOK', UNCHANGED <<log, callNo>>,
         queue' = queue \/ queue' = <<>>,
         \/ phase' = "idle"
         \/ /\ UNCHANGED <<req, answer>>
            /\ UNCHANGED phase \/ (phase = "store" /\ phase' = "give" /\ req.mode = "sync"),
         \A c \in Callers :
           \/ pc'[c] = "idle"
           \/ /\ call'[c] = call[c]
              /\ \/ pc'[c] = pc[c]
                 \/ pc[c] = "sending" /\ pc'[c] = "waiting" /\ call[c].mode = "sync"
  PROVE  RInv'
<1>1. /\ DOMAIN queue' = {} \/ DOMAIN queue' = DOMAIN queue
      /\ \A i \in DOMAIN queue' : i \in DOMAIN queue /\ queue'[i] = queue[i]
  OBVIOUS
<1>2. /\ phase' # "idle" => phase # "idle" /\ req' = req
      /\ phase' = "run" => phase = "run"
      /\ phase' \in {"store", "give"} => phase \in {"store", "give"} /\ answer' = answer
      /\ phase' = "give" => phase = "give" \/ req.mode = "sync"
  OBVIOUS
<1>3. \A id : Pending(id)' => Pending(id)
  BY <1>1, <1>2 DEF Pending
<1>4. RequestsDistinct'
  BY <1>1, <1>2 DEF RInv, RequestsDistinct
<1>5. NotYetRun'
  BY <1>1, <1>2 DEF RInv, NotYetRun, CurrentId
<1>6. CallsFresh'
  BY <1>3 DEF RInv, CallsFresh, CurrentId
<1>7. AnswerLogged'
  BY <1>2 DEF RInv, AnswerLogged
<1>8. ModesFit'
  BY <1>1, <1>2 DEF RInv, ModesFit, ModeFits
<1>9. InOrder'
  BY <1>1, <1>2 DEF RInv, InOrder, NoneSince, SameTask
<1> QED
  BY <1>4, <1>5, <1>6, <1>7, <1>8, <1>9 DEF RInv

LEMMA RequestsEnter ==
  ASSUME RInv, TypeOK', NEW c \in Callers, NEW cmd \in Commands, NEW mode \in Modes,
         MayBe(cmd.op, mode), Enter(c, cmd, mode)
  PROVE  RInv'
<1>1. /\ queue' = queue /\ phase' = phase /\ req' = req /\ answer' = answer /\ log' = log
      /\ callNo[c] \in 0 .. MaxCalls /\ callNo'[c] = callNo[c] + 1
      /\ callNo[c] + 1 \in 1 .. MaxCalls
      /\ pc[c] = "idle" /\ pc'[c] # "waiting"
      /\ call'[c].id = <<c, callNo[c] + 1>> /\ ModeFits(call'[c])
      /\ \A d \in Callers \ {c} :
           pc'[d] = pc[d] /\ callNo'[d] = callNo[d] /\ call'[d] = call[d]
      /\ \A d \in Callers : callNo'[d] \in Nat /\ callNo[d] \in Nat /\ callNo[d] <= callNo'[d]
  BY DaoOpsAssumption DEF RInv, TypeOK, Enter, flash, server, ModeFits, MayBe
<1>2. \A r \in Requests : r.id[2] <= callNo[r.id[1]] => r.id # <<c, callNo[c] + 1>>
  BY <1>1, RequestFields
<1>3. ~Pending(<<c, callNo[c] + 1>>)
  BY <1>1, <1>2, QueuedRequests DEF RInv, RequestsDistinct, Pending
<1>4. RequestsDistinct'
  BY <1>1, QueuedRequests, RequestFields DEF RInv, RequestsDistinct
<1>5. NotYetRun'
  <2>1. <<c, callNo[c] + 1>> \in Ids /\ log[<<c, callNo[c] + 1>>] = NotRun
    BY <1>1 DEF RInv, NotYetRun, Ids
  <2>2. \A id \in Ids : id[2] > callNo'[id[1]] => log[id] = NotRun
    BY <1>1 DEF RInv, NotYetRun, Ids
  <2>3. \A d \in Callers : pc'[d] = "sending" => log[CurrentId(d)'] = NotRun
    BY <1>1, <2>1 DEF RInv, NotYetRun, CurrentId
  <2> QED
    BY <1>1, <2>2, <2>3 DEF RInv, NotYetRun
<1>6. CallsFresh'
  <2>1. \A id : Pending(id)' <=> Pending(id)
    BY <1>1 DEF Pending
  <2> QED
    BY <1>1, <1>3, <2>1 DEF RInv, CallsFresh, CurrentId
<1>7. AnswerLogged' /\ ModesFit' /\ InOrder'
  BY <1>1 DEF RInv, AnswerLogged, ModesFit, ModeFits, InOrder, NoneSince, SameTask
<1> QED
  BY <1>4, <1>5, <1>6, <1>7 DEF RInv

(* The facts about a sent request that its place at the end of the queue   *)
(* needs.                                                                  *)
LEMMA SentIsLast ==
  ASSUME RInv, NEW c \in Callers, pc[c] = "sending"
  PROVE  /\ call[c] \in Requests /\ call[c].id = CurrentId(c) /\ ~Pending(call[c].id)
         /\ \A i \in DOMAIN queue :
              SameTask(queue[i], call[c]) => queue[i].id[2] < call[c].id[2]
         /\ phase # "idle" /\ SameTask(req, call[c]) => req.id[2] < call[c].id[2]
         /\ NoneSince(call[c])
<1>1. call[c] \in Requests /\ call[c].id = CurrentId(c) /\ ~Pending(call[c].id)
  BY DEF RInv, TypeOK, CallsFresh
<1>2. callNo[c] \in Nat /\ call[c].id[1] = c /\ call[c].id[2] = callNo[c]
  BY <1>1, QueuedRequests DEF RInv, CurrentId
<1>3. ASSUME NEW r \in Requests, Pending(r.id), r.id[1] = c, r.id[2] <= callNo[c]
      PROVE  r.id[2] < callNo[c]
  BY <1>1, <1>2, <1>3, RequestFields DEF CurrentId
<1>4. \A i \in DOMAIN queue :
        SameTask(queue[i], call[c]) => queue[i].id[2] < call[c].id[2]
  BY <1>2, <1>3, QueuedRequests DEF RInv, RequestsDistinct, SameTask, Pending
<1>5. phase # "idle" /\ SameTask(req, call[c]) => req.id[2] < call[c].id[2]
  BY <1>2, <1>3, QueuedRequests DEF RInv, RequestsDistinct, SameTask, Pending
<1>6. NoneSince(call[c])
  <2>1. ASSUME NEW n \in callNo[c] .. MaxCalls PROVE log[<<c, n>>] = NotRun
    <3>1. CASE n = callNo[c]
      BY <3>1 DEF RInv, NotYetRun, CurrentId
    <3>2. CASE n # callNo[c]
      <4>1. <<c, n>> \in Ids /\ n > callNo[c]
        BY <1>2, <2>1, <3>2, DaoOpsAssumption DEF Ids
      <4> QED
        BY <4>1 DEF RInv, NotYetRun
    <3> QED
      BY <3>1, <3>2
  <2> QED
    BY <1>2, <2>1 DEF NoneSince
<1> QED
  BY <1>1, <1>4, <1>5, <1>6

LEMMA RequestsSend ==
  ASSUME RInv, TypeOK', NEW c \in Callers, Send(c)
  PROVE  RInv'
<1>1. /\ pc[c] = "sending" /\ queue' = Append(queue, call[c])
      /\ phase' = phase /\ req' = req /\ answer' = answer /\ log' = log /\ callNo' = callNo
      /\ pc'[c] = IF call[c].mode = "sync" THEN "waiting" ELSE "idle"
      /\ call'[c] = call[c] \/ pc'[c] = "idle"
      /\ \A d \in Callers \ {c} : pc'[d] = pc[d] /\ call'[d] = call[d]
  BY DEF RInv, TypeOK, Send, Wait, ReturnCode, Return, server, flash
<1>2. /\ DOMAIN queue' = 1 .. Len(queue) + 1 /\ DOMAIN queue = 1 .. Len(queue)
      /\ Len(queue) \in Nat
      /\ \A i \in DOMAIN queue : queue'[i] = queue[i]
      /\ queue'[Len(queue) + 1] = call[c]
      /\ \A i \in DOMAIN queue' : i \in DOMAIN queue \/ i = Len(queue) + 1
  <2>1. queue \in Seq(Requests) /\ call[c] \in Requests
    BY <1>1, SentIsLast DEF RInv, TypeOK
  <2> QED
    BY <1>1, <2>1
<1>3. \A id : Pending(id)' <=> Pending(id) \/ id = call[c].id
  BY <1>1, <1>2 DEF Pending
<1>4. RequestsDistinct'
  <2>1. \A i \in DOMAIN queue : queue[i].id # call[c].id
    BY <1>1, SentIsLast DEF Pending
  <2>2. phase # "idle" => req.id # call[c].id
    BY <1>1, SentIsLast DEF Pending
  <2>3. call[c].id[2] <= callNo[call[c].id[1]]
    BY <1>1, SentIsLast, QueuedRequests DEF CurrentId, RInv
  <2> QED
    BY <1>1, <1>2, <2>1, <2>2, <2>3 DEF RInv, RequestsDistinct
<1>5. NotYetRun'
  <2>1. log[call[c].id] = NotRun
    BY <1>1, SentIsLast DEF RInv, NotYetRun
  <2> QED
    BY <1>1, <1>2, <2>1 DEF RInv, NotYetRun, CurrentId
<1>6. CallsFresh'
  <2>1. \A d \in Callers \ {c} : CurrentId(d) # call[c].id
    BY <1>1, SentIsLast DEF CurrentId
  <2> QED
    BY <1>1, <1>3, <2>1, SentIsLast DEF RInv, CallsFresh, CurrentId
<1>7. AnswerLogged'
  BY <1>1 DEF RInv, AnswerLogged
<1>8. ModesFit'
  <2>1. ModeFits(call[c])
    BY <1>1 DEF RInv, ModesFit
  <2> QED
    BY <1>1, <1>2, <2>1 DEF RInv, ModesFit, ModeFits
<1>9. InOrder'
  <2>1. /\ \A i \in DOMAIN queue :
             SameTask(queue[i], call[c]) => queue[i].id[2] < call[c].id[2]
        /\ phase # "idle" /\ SameTask(req, call[c]) => req.id[2] < call[c].id[2]
        /\ NoneSince(call[c])
    BY <1>1, SentIsLast
  <2>2. \A i, j \in DOMAIN queue' :
          i < j /\ SameTask(queue'[i], queue'[j]) => queue'[i].id[2] < queue'[j].id[2]
    <3> SUFFICES ASSUME NEW i \in DOMAIN queue', NEW j \in DOMAIN queue',
                        i < j, SameTask(queue'[i], queue'[j])
                 PROVE  queue'[i].id[2] < queue'[j].id[2]
      OBVIOUS
    <3>1. i \in DOMAIN queue
      BY <1>2
    <3>2. CASE j \in DOMAIN queue
      BY <1>2, <3>1, <3>2 DEF RInv, InOrder
    <3>3. CASE j = Len(queue) + 1
      BY <1>2, <2>1, <3>1, <3>3
    <3> QED
      BY <1>2, <3>2, <3>3
  <2>3. phase = "run" =>
          \A i \in DOMAIN queue' : SameTask(req, queue'[i]) => req.id[2] < queue'[i].id[2]
    BY <1>2, <2>1 DEF RInv, InOrder
  <2>4. \A i \in DOMAIN queue' : NoneSince(queue'[i])
    BY <1>2, <2>1 DEF RInv, InOrder
  <2> QED
    BY <1>1, <2>2, <2>3, <2>4 DEF RInv, InOrder, NoneSince, SameTask
<1> QED
  BY <1>4, <1>5, <1>6, <1>7, <1>8, <1>9 DEF RInv

LEMMA RequestsReceive ==
  ASSUME RInv, TypeOK', Receive
  PROVE  RInv'
<1>1. /\ phase = "idle" /\ phase' = "run" /\ req' = queue[1] /\ queue' = Tail(queue)
      /\ queue \in Seq(Requests) /\ Len(queue) > 0
      /\ UNCHANGED <<log, callNo, pc, call>>
  BY DEF Receive, RInv, TypeOK, flash, client
<1>2. /\ DOMAIN queue' = 1 .. Len(queue) - 1 /\ DOMAIN queue = 1 .. Len(queue)
      /\ Len(queue) \in Nat
      /\ \A i \in DOMAIN queue' : queue'[i] = queue[i + 1] /\ i + 1 \in DOMAIN queue
      /\ 1 \in DOMAIN queue
  BY <1>1
<1>3. \A id : Pending(id)' => Pending(id)
  BY <1>1, <1>2 DEF Pending
<1>4. RequestsDistinct'
  BY <1>1, <1>2, QueuedRequests DEF RInv, RequestsDistinct
<1>5. NotYetRun'
  BY <1>1, <1>2 DEF RInv, NotYetRun, CurrentId
<1>6. CallsFresh'
  BY <1>1, <1>3 DEF RInv, CallsFresh, CurrentId
<1>7. AnswerLogged' /\ ModesFit'
  BY <1>1, <1>2 DEF RInv, AnswerLogged, ModesFit, ModeFits
<1>8. InOrder'
  <2>1. \A i, j \in DOMAIN queue' :
          i < j /\ SameTask(queue'[i], queue'[j]) => queue'[i].id[2] < queue'[j].id[2]
    BY <1>2 DEF RInv, InOrder
  <2>2. \A i \in DOMAIN queue' :
          SameTask(queue[1], queue'[i]) => queue[1].id[2] < queue'[i].id[2]
    BY <1>2 DEF RInv, InOrder
  <2>3. NoneSince(queue[1]) /\ \A i \in DOMAIN queue' : NoneSince(queue'[i])
    BY <1>2 DEF RInv, InOrder
  <2> QED
    BY <1>1, <2>1, <2>2, <2>3 DEF InOrder, NoneSince, SameTask
<1> QED
  BY <1>4, <1>5, <1>6, <1>7, <1>8 DEF RInv

(* An operation runs once, before any later one of its task. *)
LEMMA RequestsExecute ==
  ASSUME RInv, TypeOK', Execute
  PROVE  RInv'
<1>1. /\ phase = "run" /\ phase' = "store" /\ req \in Requests /\ req.id \in Ids
      /\ UNCHANGED <<queue, req, callNo, pc, call>>
  BY RequestFields DEF Execute, RInv, TypeOK
<1>2. PICK o \in Outcomes(req.cmd, req.id, nvs) :
        answer' = o.ans /\ log' = [log EXCEPT ![req.id] = o.ans]
  BY DEF Execute
<1>3. log'[req.id] = answer' /\ \A id \in Ids : id # req.id => log'[id] = log[id]
  BY <1>1, <1>2 DEF RInv, TypeOK
<1>4. Pending(req.id) /\ \A id : Pending(id)' <=> Pending(id)
  BY <1>1 DEF Pending
<1>5. RequestsDistinct'
  BY <1>1 DEF RInv, RequestsDistinct
<1>6. NotYetRun'
  <2>1. \A i \in DOMAIN queue : queue[i].id # req.id /\ queue[i].id \in Ids
    BY <1>1, QueuedRequests, RequestFields DEF RInv, RequestsDistinct
  <2>2. ASSUME NEW c \in Callers, pc[c] = "sending"
        PROVE  CurrentId(c) # req.id /\ CurrentId(c) \in Ids
    BY <1>1, <1>4, <2>2 DEF RInv, CallsFresh, TypeOK, CurrentId, Ids
  <2>3. req.id[2] <= callNo[req.id[1]]
    BY <1>1 DEF RInv, RequestsDistinct
  <2>4. \A id \in Ids : id[2] > callNo[id[1]] => id # req.id
    BY <1>1, <2>3, QueuedRequests, RequestFields DEF RInv
  <2> QED
    BY <1>1, <1>3, <2>1, <2>2, <2>4 DEF RInv, NotYetRun, CurrentId
<1>7. CallsFresh'
  BY <1>1, <1>4 DEF RInv, CallsFresh, CurrentId
<1>8. AnswerLogged' /\ ModesFit'
  BY <1>1, <1>3 DEF RInv, AnswerLogged, ModesFit, ModeFits
<1>9. InOrder'
  <2>1. ASSUME NEW i \in DOMAIN queue, NEW n \in queue[i].id[2] .. MaxCalls
        PROVE  log'[<<queue[i].id[1], n>>] = NotRun
    <3>1. queue[i] \in Requests /\ queue[i].id[2] \in 1 .. MaxCalls
      BY QueuedRequests, RequestFields DEF RInv
    <3>2. <<queue[i].id[1], n>> \in Ids
      BY <3>1, RequestFields, DaoOpsAssumption DEF Ids
    <3>3. <<queue[i].id[1], n>> # req.id
      BY <1>1, <3>1, RequestFields DEF RInv, InOrder, SameTask
    <3> QED
      BY <1>3, <3>2, <3>3 DEF RInv, InOrder, NoneSince
  <2> QED
    BY <1>1, <2>1 DEF RInv, InOrder, NoneSince, SameTask
<1> QED
  BY <1>5, <1>6, <1>7, <1>8, <1>9 DEF RInv

LEMMA RequestsStep == RInv /\ [Next]_vars => RInv'
<1> SUFFICES ASSUME RInv, [Next]_vars PROVE RInv'
  OBVIOUS
<1>1. TypeOK'
  BY TypeStep DEF RInv
<1> USE <1>1
<1>2. ASSUME NEW c \in Callers, Caller(c) PROVE RInv'
  <2>1. ASSUME NEW cmd \in Commands, NEW mode \in Modes, MayBe(cmd.op, mode),
               Enter(c, cmd, mode)
        PROVE  RInv'
    BY <2>1, RequestsEnter
  <2>2. CASE Send(c)
    BY <2>2, RequestsSend
  <2>3. ASSUME NEW ans, Return(c, ans), UNCHANGED <<log, callNo, queue, phase, req, answer>>
        PROVE  RInv'
    <3>1. \A d \in Callers : pc'[d] = "idle" \/ (call'[d] = call[d] /\ pc'[d] = pc[d])
      BY <2>3 DEF Return, RInv, TypeOK
    <3> QED
      BY <2>3, <3>1, RequestsCalm
  <2>4. CASE ReturnDown(c) \/ ReturnNoMemory(c) \/ SendTimeout(c) \/ TakeAnswer(c) \/ AnswerTimeout(c)
    BY <2>3, <2>4 DEF ReturnDown, ReturnNoMemory, SendTimeout, TakeAnswer, AnswerTimeout,
                      ReturnCode, flash, server
  <2>5. CASE SendToDeleted(c)
    <3>1. CASE call[c].mode = "sync"
      <4>1. /\ UNCHANGED <<log, callNo, queue, phase, req, answer, call>>
            /\ pc[c] = "sending" /\ pc' = [pc EXCEPT ![c] = "waiting"]
        BY <2>5, <3>1 DEF SendToDeleted, Wait, flash, server
      <4>2. \A d \in Callers :
              /\ call'[d] = call[d]
              /\ \/ pc'[d] = pc[d]
                 \/ pc[d] = "sending" /\ pc'[d] = "waiting" /\ call[d].mode = "sync"
        BY <3>1, <4>1 DEF RInv, TypeOK
      <4> QED
        BY <4>1, <4>2, RequestsCalm
    <3>2. CASE call[c].mode # "sync"
      BY <2>3, <2>5, <3>2 DEF SendToDeleted, ReturnCode, flash, server
    <3> QED
      BY <3>1, <3>2
  <2> QED
    BY <1>2, <2>1, <2>2, <2>4, <2>5, CallEnters DEF Caller
<1>3. CASE DaoTask
  <2>1. CASE StoreResult \/ GiveSemaphore \/ Notify
    BY <2>1, RequestsCalm DEF StoreResult, GiveSemaphore, Notify, Finish, flash, client
  <2> QED
    BY <1>3, <2>1, RequestsReceive, RequestsExecute DEF DaoTask
<1>4. CASE InitStorage
  BY <1>4, RequestsCalm DEF InitStorage, flash, server, client
<1>5. CASE DeinitStorage
  BY <1>5, RequestsCalm DEF DeinitStorage, Finish, client
<1>6. CASE Restart
  BY <1>6, RequestsCalm DEF Restart, Finish, NoFrames
<1>7. CASE UNCHANGED vars
  BY <1>7, RequestsCalm DEF vars
<1> QED
  BY <1>2, <1>3, <1>4, <1>5, <1>6, <1>7 DEF Next, Finished

-----------------------------------------------------------------------------
(* A callback is told the code of its own operation                        *)

CInv == RInv /\ CallbackTellsAnswer

LEMMA CallbackStep == CInv /\ [Next]_vars => CInv'
<1> SUFFICES ASSUME CInv, [Next]_vars PROVE CInv'
  OBVIOUS
<1>1. RInv'
  BY RequestsStep DEF CInv
<1>2. CASE UNCHANGED <<log, told>>
  BY <1>1, <1>2 DEF CInv, CallbackTellsAnswer
<1>3. CASE Execute
  <2>1. /\ told' = told /\ req.id \in Ids /\ log[req.id] = NotRun
        /\ \A id \in Ids : id # req.id => log'[id] = log[id]
    BY <1>3, RequestFields DEF Execute, CInv, RInv, TypeOK, NotYetRun
  <2> QED
    BY <1>1, <2>1 DEF CInv, CallbackTellsAnswer
<1>4. CASE Notify
  <2>1. /\ log' = log /\ req.id \in Ids /\ log[req.id] = answer /\ answer \in Answers
        /\ told' = told \/ told' = [told EXCEPT ![req.id] = answer.code]
    BY <1>4, RequestFields DEF Notify, flash, CInv, RInv, TypeOK, AnswerLogged
  <2>2. \A id \in Ids :
          told'[id] = told[id] \/ (told'[id] = answer.code /\ id = req.id)
    BY <2>1 DEF CInv, RInv, TypeOK
  <2>3. log[req.id] # NotRun
    BY <2>1, NotRunAssumption
  <2> QED
    BY <1>1, <2>1, <2>2, <2>3 DEF CInv, CallbackTellsAnswer
<1> QED
  <2>1. ASSUME NEW c \in Callers, Call(c) PROVE UNCHANGED <<log, told>>
    BY <2>1, CallEnters DEF Enter, flash
  <2> QED
    BY <1>2, <1>3, <1>4, <2>1 DEF Next, Caller, DaoTask, Finished, vars, flash, ReturnDown,
       ReturnNoMemory, Send, SendTimeout, SendToDeleted, TakeAnswer, AnswerTimeout,
       Receive, StoreResult, GiveSemaphore, InitStorage, DeinitStorage, Restart

(* dao_task calls a callback (dao_common.c, the end of a request) with the *)
(* code that the operation of that very request answered, after it ran,    *)
(* also when answers are late, frames are reused, and the storage is shut  *)
(* down.                                                                   *)
THEOREM CallbacksTellAnswers == Spec => []CallbackTellsAnswer
<1>1. Init => CInv
  BY RequestsInit DEF Init, CInv, CallbackTellsAnswer
<1>2. CInv => CallbackTellsAnswer
  BY DEF CInv
<1> QED
  BY <1>1, <1>2, CallbackStep, PTL DEF Spec

-----------------------------------------------------------------------------
(* The payload copies                                                      *)

(* A set of this number is still to run: it is sent, queued or in dao_task. *)
SetToRun(id) ==
  \/ \E i \in DOMAIN queue : queue[i].cmd.op = "set" /\ queue[i].id = id
  \/ \E c \in Callers : pc[c] = "sending" /\ call[c].cmd.op = "set" /\ call[c].id = id
  \/ phase = "run" /\ req.cmd.op = "set" /\ req.id = id

LEMMA SetsToRunAre == \A id : id \in SetsToRun <=> SetToRun(id)
BY DEF SetsToRun, SetToRun

(* While nothing was shut down nothing but these has a copy. *)
CopiesOwned ==
  /\ \A id : SetToRun(id) => id \in copies
  /\ downs = 0 => up /\ \A id \in copies : SetToRun(id)

PInv == RInv /\ CopiesOwned

(* Steps after which there is no more and no less to run than copied, or   *)
(* less than copied because the storage went down.                         *)
LEMMA CopiesKept ==
  ASSUME PInv,
         \A id : SetToRun(id)' => SetToRun(id), downs' \in Nat, copies' = copies,
         downs' = 0 => downs = 0 /\ up' /\ \A id : SetToRun(id) => SetToRun(id)'
  PROVE  CopiesOwned'
BY DEF PInv, CopiesOwned

LEMMA CopyFreed ==
  ASSUME PInv, NEW gone, copies' = copies \ {gone}, downs' = downs, up' = up,
         \A id : SetToRun(id)' <=> SetToRun(id) /\ id # gone
  PROVE  CopiesOwned'
BY DEF PInv, CopiesOwned

LEMMA CopiesCaller ==
  ASSUME PInv, RInv', NEW c \in Callers, Caller(c)
  PROVE  CopiesOwned'
<1>1. \A d \in Callers \ {c} : CurrentId(d) # CurrentId(c)
  BY DEF CurrentId
<1>2. downs \in Nat
  BY DaoStorageAssumption DEF PInv, RInv, TypeOK
<1>3. ASSUME NEW cmd \in Commands, NEW mode \in Modes, Enter(c, cmd, mode)
      PROVE  CopiesOwned'
  <2> DEFINE new == <<c, callNo[c] + 1>>
  <2>1. /\ UNCHANGED <<queue, phase, req, downs, up>> /\ pc[c] = "idle"
        /\ \A d \in Callers \ {c} : pc'[d] = pc[d] /\ call'[d] = call[d]
        /\ call'[c].id = new /\ call'[c].cmd = cmd
        /\ pc'[c] = IF up THEN "sending" ELSE "down"
        /\ copies' = IF up /\ cmd.op = "set" THEN copies \cup {new} ELSE copies
    BY <1>3 DEF Enter, server, PInv, RInv, TypeOK
  <2>2. \A id : SetToRun(id)' <=> SetToRun(id) \/ (up /\ cmd.op = "set" /\ id = new)
    BY <2>1 DEF SetToRun
  <2> QED
    BY <2>1, <2>2 DEF PInv, CopiesOwned
<1>4. ASSUME pc[c] = "sending", FreeCopy(c), NEW ans, Return(c, ans),
             UNCHANGED <<queue, phase, req, downs, up>>
      PROVE  CopiesOwned'
  <2>1. /\ call[c].id = CurrentId(c) /\ ~Pending(CurrentId(c))
        /\ \A d \in Callers \ {c} :
             pc'[d] = pc[d] /\ call'[d] = call[d] /\ (pc[d] # "idle" => call[d].id # CurrentId(c))
        /\ pc'[c] = "idle"
    BY <1>1, <1>4 DEF Return, PInv, RInv, TypeOK, CallsFresh
  <2>2. \A id : SetToRun(id)' <=> SetToRun(id) /\ id # CurrentId(c)
    BY <1>4, <2>1 DEF SetToRun, Pending
  <2> QED
    BY <1>4, <2>2, CopyFreed DEF FreeCopy
<1>5. ASSUME pc[c] # "sending", NEW ans, Return(c, ans),
             UNCHANGED <<queue, phase, req, downs, up, copies>>
      PROVE  CopiesOwned'
  <2>1. \A d \in Callers : pc'[d] = "sending" \/ pc[d] = "sending" =>
                             pc'[d] = pc[d] /\ call'[d] = call[d]
    BY <1>5 DEF Return, PInv, RInv, TypeOK
  <2>2. \A id : SetToRun(id)' <=> SetToRun(id)
    BY <1>5, <2>1 DEF SetToRun
  <2> QED
    BY <1>2, <1>5, <2>2, CopiesKept DEF PInv, CopiesOwned
<1>6. CASE ReturnDown(c) \/ TakeAnswer(c) \/ AnswerTimeout(c)
  BY <1>5, <1>6 DEF ReturnDown, TakeAnswer, AnswerTimeout, ReturnCode, server
<1>7. CASE ReturnNoMemory(c) \/ SendTimeout(c)
  BY <1>4, <1>7 DEF ReturnNoMemory, SendTimeout, ReturnCode, server
<1>8. CASE Send(c)
  <2>1. /\ queue' = Append(queue, call[c]) /\ pc[c] = "sending" /\ pc'[c] # "sending"
        /\ \A d \in Callers \ {c} : pc'[d] = pc[d] /\ call'[d] = call[d]
        /\ UNCHANGED <<phase, req, downs, up, copies>>
    BY <1>8 DEF Send, Wait, ReturnCode, Return, server, PInv, RInv, TypeOK
  <2>2. queue \in Seq(Requests) /\ call[c] \in Requests
    BY <2>1, SentIsLast DEF PInv, RInv, TypeOK
  <2>3. /\ \A i \in DOMAIN queue : i \in DOMAIN queue' /\ queue'[i] = queue[i]
        /\ Len(queue) + 1 \in DOMAIN queue' /\ queue'[Len(queue) + 1] = call[c]
        /\ \A i \in DOMAIN queue' : i \in DOMAIN queue \/ queue'[i] = call[c]
    BY <2>1, <2>2
  <2>4. \A id : SetToRun(id)' <=> SetToRun(id)
    BY <2>1, <2>3 DEF SetToRun
  <2> QED
    BY <1>2, <2>1, <2>4, CopiesKept DEF PInv, CopiesOwned
<1>9. CASE SendToDeleted(c)
  <2>1. /\ pc[c] = "sending" /\ pc'[c] # "sending" /\ ~up
        /\ \A d \in Callers \ {c} : pc'[d] = pc[d] /\ call'[d] = call[d]
        /\ UNCHANGED <<queue, phase, req, downs, up, copies>>
    BY <1>9 DEF SendToDeleted, Wait, ReturnCode, Return, server, PInv, RInv, TypeOK
  <2>2. \A id : SetToRun(id)' => SetToRun(id)
    BY <2>1 DEF SetToRun
  <2>3. downs # 0
    BY <2>1 DEF PInv, CopiesOwned
  <2> QED
    BY <1>2, <2>1, <2>2, <2>3, CopiesKept
<1> QED
  BY <1>3, <1>6, <1>7, <1>8, <1>9, CallEnters DEF Caller

LEMMA CopiesTask ==
  ASSUME PInv, RInv', DaoTask
  PROVE  CopiesOwned'
<1>1. downs \in Nat
  BY DaoStorageAssumption DEF PInv, RInv, TypeOK
<1>2. CASE Receive
  <2>1. /\ UNCHANGED <<pc, call, downs, up, copies>> /\ phase = "idle" /\ phase' = "run"
        /\ queue \in Seq(Requests) /\ queue # <<>> /\ req' = queue[1] /\ queue' = Tail(queue)
    BY <1>2 DEF Receive, client, PInv, RInv, TypeOK
  <2>2. /\ \A i \in DOMAIN queue' : i + 1 \in DOMAIN queue /\ queue'[i] = queue[i + 1]
        /\ \A i \in DOMAIN queue : i = 1 \/ (i - 1 \in DOMAIN queue' /\ queue'[i - 1] = queue[i])
        /\ 1 \in DOMAIN queue
    BY <2>1
  <2>3. ASSUME NEW id, SetToRun(id) PROVE SetToRun(id)'
    <3>1. CASE \E i \in DOMAIN queue : queue[i].cmd.op = "set" /\ queue[i].id = id
      <4>1. PICK i \in DOMAIN queue : queue[i].cmd.op = "set" /\ queue[i].id = id
        BY <3>1
      <4>2. CASE i = 1
        BY <2>1, <4>1, <4>2 DEF SetToRun
      <4>3. CASE i # 1
        <5>1. i - 1 \in DOMAIN queue' /\ queue'[i - 1] = queue[i]
          BY <2>2, <4>3
        <5> QED
          BY <4>1, <5>1 DEF SetToRun
      <4> QED
        BY <4>2, <4>3
    <3>2. CASE \E c \in Callers : pc[c] = "sending" /\ call[c].cmd.op = "set" /\ call[c].id = id
      BY <2>1, <3>2 DEF SetToRun
    <3> QED
      BY <2>1, <2>3, <3>1, <3>2 DEF SetToRun
  <2>4. ASSUME NEW id, SetToRun(id)' PROVE SetToRun(id)
    BY <2>1, <2>2, <2>4 DEF SetToRun
  <2> QED
    BY <1>1, <2>1, <2>3, <2>4, CopiesKept DEF PInv, CopiesOwned
<1>3. CASE Execute
  <2>1. /\ UNCHANGED <<queue, req, pc, call, downs, up>> /\ copies' = copies \ {req.id}
        /\ phase = "run" /\ phase' = "store"
    BY <1>3 DEF Execute
  <2>2. \A i \in DOMAIN queue : queue[i].id # req.id
    BY <2>1 DEF PInv, RInv, RequestsDistinct
  <2>3. \A c \in Callers : pc[c] = "sending" => call[c].id # req.id
    BY <2>1 DEF PInv, RInv, CallsFresh, Pending
  <2>4. \A id : SetToRun(id)' <=> SetToRun(id) /\ id # req.id
    BY <2>1, <2>2, <2>3 DEF SetToRun
  <2> QED
    BY <2>1, <2>4, CopyFreed
<1>4. CASE StoreResult \/ GiveSemaphore \/ Notify
  <2>1. /\ UNCHANGED <<queue, pc, call, downs, up, copies>> /\ phase # "run" /\ phase' # "run"
    BY <1>4 DEF StoreResult, GiveSemaphore, Notify, Finish, client
  <2>2. \A id : SetToRun(id)' <=> SetToRun(id)
    BY <2>1 DEF SetToRun
  <2> QED
    BY <1>1, <2>1, <2>2, CopiesKept DEF PInv, CopiesOwned
<1> QED
  BY <1>2, <1>3, <1>4 DEF DaoTask

LEMMA CopiesStep == PInv /\ [Next]_vars => PInv'
<1> SUFFICES ASSUME PInv, [Next]_vars PROVE PInv'
  OBVIOUS
<1>1. RInv'
  BY RequestsStep DEF PInv
<1>2. downs \in Nat
  BY DaoStorageAssumption DEF PInv, RInv, TypeOK
<1>3. CASE InitStorage
  <2>1. UNCHANGED <<phase, req, pc, call, downs, copies>> /\ queue' = <<>> /\ ~up
    BY <1>3 DEF InitStorage, server, client
  <2>2. \A id : SetToRun(id)' => SetToRun(id)
    BY <2>1 DEF SetToRun
  <2>3. downs # 0
    BY <2>1 DEF PInv, CopiesOwned
  <2> QED
    BY <1>1, <1>2, <2>1, <2>2, <2>3, CopiesKept DEF PInv
<1>4. CASE DeinitStorage
  <2>1. /\ UNCHANGED <<pc, call, copies>> /\ queue' = <<>> /\ phase' = "idle"
        /\ downs' = downs + 1
    BY <1>4 DEF DeinitStorage, Finish, client
  <2>2. \A id : SetToRun(id)' => SetToRun(id)
    BY <2>1 DEF SetToRun
  <2> QED
    BY <1>1, <1>2, <2>1, <2>2, CopiesKept DEF PInv
<1>5. CASE Restart
  <2>1. \A id : ~SetToRun(id)'
    BY <1>5 DEF Restart, NoFrames, Finish, SetToRun
  <2>2. downs' = downs + 1
    BY <1>5 DEF Restart
  <2> QED
    BY <1>1, <1>2, <2>1, <2>2 DEF PInv, CopiesOwned
<1>6. CASE UNCHANGED vars
  <2>1. \A id : SetToRun(id)' <=> SetToRun(id)
    BY <1>6 DEF vars, SetToRun
  <2> QED
    BY <1>1, <1>6, <2>1 DEF vars, PInv, CopiesOwned
<1> QED
  BY <1>1, <1>3, <1>4, <1>5, <1>6, CopiesCaller, CopiesTask DEF Next, Finished, PInv

(* DAO_SetData and its variants copy the payload and dao_task frees it: no *)
(* copy is freed while its set is still to run, and until the storage is   *)
(* shut down every copy belongs to such a set, whatever gives up when.     *)
THEOREM PayloadsOwned == Spec => []PayloadOwned
<1>1. Init => PInv
  <2> SUFFICES ASSUME Init PROVE PInv
    OBVIOUS
  <2>1. \A id : ~SetToRun(id)
    BY DEF Init, SetToRun
  <2> QED
    BY <2>1, RequestsInit DEF Init, PInv, CopiesOwned
<1>2. PInv => PayloadOwned
  BY SetsToRunAre DEF PInv, CopiesOwned, PayloadOwned
<1> QED
  BY <1>1, <1>2, CopiesStep, PTL DEF Spec

-----------------------------------------------------------------------------
(* What a blocking call lends                                              *)

(* Request r waits in the queue, or dao_task is about to run it. *)
InFlight(r) ==
  \/ \E i \in DOMAIN queue : queue[i] = r
  \/ phase = "run" /\ req = r

(* Its entries are still lent, or its call gave up waiting for it. *)
Lent(r) == FrameLive(r) \/ r.id \in abandoned

(* A batch under way is lent, and a caller that waits for a request under  *)
(* way is still in the call that made it.                                  *)
LentHeld ==
  \A r \in Requests :
    InFlight(r) => /\ r.cmd.op = "batch" => Lent(r)
                   /\ FrameLive(r) => call[r.id[1]] = r

BInv == IInv /\ RInv /\ LentHeld

(* Steps of which no waiting caller and no new request is part. *)
LEMMA LentCalm ==
  ASSUME BInv, abandoned \subseteq abandoned',
         \A r \in Requests : InFlight(r)' => InFlight(r),
         \A c \in Callers :
           \/ pc'[c] = pc[c] /\ callNo'[c] = callNo[c] /\ call'[c] = call[c]
           \/ pc[c] # "waiting" /\ pc'[c] # "waiting"
  PROVE  LentHeld'
<1> SUFFICES ASSUME NEW r \in Requests, InFlight(r)'
             PROVE  (r.cmd.op = "batch" => Lent(r)') /\ (FrameLive(r)' => call'[r.id[1]] = r)
  BY DEF LentHeld
<1>1. InFlight(r) /\ r.id[1] \in Callers
  BY RequestFields
<1>2. FrameLive(r) <=> FrameLive(r)'
  BY <1>1 DEF FrameLive
<1>3. FrameLive(r)' => call'[r.id[1]] = call[r.id[1]]
  BY <1>1, <1>2 DEF FrameLive
<1> QED
  BY <1>1, <1>2, <1>3 DEF BInv, LentHeld, Lent

LEMMA FlightPending == \A r : InFlight(r) => Pending(r.id)
BY DEF InFlight, Pending

(* A caller that stops waiting has been answered, and then its batch is no *)
(* longer under way, or it has given up, and then its batch is recorded.   *)
LEMMA LentWaiterLeaves ==
  ASSUME BInv, NEW c \in Callers, TakeAnswer(c) \/ AnswerTimeout(c)
  PROVE  LentHeld'
<1>1. /\ pc[c] = "waiting" /\ pc'[c] = "idle" /\ abandoned \subseteq abandoned'
      /\ UNCHANGED <<queue, phase, req, callNo>>
      /\ \A d \in Callers \ {c} : pc'[d] = pc[d] /\ call'[d] = call[d]
  BY DEF TakeAnswer, AnswerTimeout, Abandon, ReturnCode, Return, server, BInv, IInv, TypeOK
<1>2. Pending(CurrentId(c)) /\ call[c].cmd.op = "batch" => CurrentId(c) \in abandoned'
  <2>1. CASE TakeAnswer(c)
    BY <2>1 DEF TakeAnswer, BInv, IInv, AnswerDelivered
  <2>2. CASE AnswerTimeout(c)
    BY <2>2 DEF AnswerTimeout, Abandon
  <2> QED
    BY <2>1, <2>2
<1> SUFFICES ASSUME NEW r \in Requests, InFlight(r)'
             PROVE  (r.cmd.op = "batch" => Lent(r)') /\ (FrameLive(r)' => call'[r.id[1]] = r)
  BY DEF LentHeld
<1>3. InFlight(r) /\ r.id[1] \in Callers
  BY <1>1, RequestFields DEF InFlight
<1>4. CASE r.id[1] # c
  BY <1>1, <1>3, <1>4 DEF FrameLive, Lent, BInv, LentHeld
<1>5. CASE r.id[1] = c
  <2>1. ~FrameLive(r)'
    BY <1>1, <1>5 DEF FrameLive
  <2>2. FrameLive(r) => r.id = CurrentId(c) /\ call[c] = r
    BY <1>3, <1>5, RequestFields DEF FrameLive, CurrentId, BInv, LentHeld
  <2>3. r.cmd.op = "batch" => r.id \in abandoned'
    BY <1>1, <1>2, <1>3, <2>2, FlightPending DEF Lent, BInv, LentHeld
  <2> QED
    BY <2>1, <2>3 DEF Lent
<1> QED
  BY <1>4, <1>5

(* A batch is sent by a call that goes on to wait. *)
LEMMA LentSends ==
  ASSUME BInv, NEW c \in Callers, Send(c) \/ SendToDeleted(c)
  PROVE  LentHeld'
<1>1. /\ pc[c] = "sending" /\ UNCHANGED <<phase, req, callNo, abandoned>>
      /\ queue' = queue \/ queue' = Append(queue, call[c])
      /\ \A d \in Callers \ {c} : pc'[d] = pc[d] /\ call'[d] = call[d]
      /\ call[c].mode = "sync" => pc'[c] = "waiting" /\ call'[c] = call[c]
      /\ call[c].mode # "sync" => pc'[c] = "idle"
  BY DEF Send, SendToDeleted, Wait, ReturnCode, Return, server, BInv, IInv, TypeOK
<1>2. /\ call[c] \in Requests /\ call[c].id = CurrentId(c) /\ ~Pending(CurrentId(c))
      /\ queue \in Seq(Requests) /\ ModeFits(call[c])
  BY <1>1, SentIsLast DEF BInv, RInv, TypeOK, ModesFit
<1>3. \A i \in DOMAIN queue' : (i \in DOMAIN queue /\ queue'[i] = queue[i]) \/ queue'[i] = call[c]
  BY <1>1, <1>2
<1> SUFFICES ASSUME NEW r \in Requests, InFlight(r)'
             PROVE  (r.cmd.op = "batch" => Lent(r)') /\ (FrameLive(r)' => call'[r.id[1]] = r)
  BY DEF LentHeld
<1>4. r.id[1] \in Callers /\ (InFlight(r) \/ r = call[c])
  BY <1>1, <1>3, RequestFields DEF InFlight
<1>5. CASE r = call[c]
  <2>1. r.id[1] = c /\ r.id[2] = callNo[c]
    BY <1>2, <1>5 DEF CurrentId
  <2>2. r.cmd.op = "batch" => r.mode = "sync"
    BY <1>2, <1>5 DEF ModeFits, AsyncOps
  <2> QED
    BY <1>1, <1>5, <2>1, <2>2 DEF FrameLive, Lent
<1>6. CASE InFlight(r)
  <2>1. r.id # CurrentId(c)
    BY <1>2, <1>6, FlightPending
  <2>2. r.id[1] = c => ~FrameLive(r)' /\ ~FrameLive(r)
    BY <1>1, <2>1, RequestFields DEF FrameLive, CurrentId
  <2>3. r.id[1] # c => (FrameLive(r)' <=> FrameLive(r)) /\ call'[r.id[1]] = call[r.id[1]]
    BY <1>1, <1>4 DEF FrameLive
  <2> QED
    BY <1>1, <1>6, <2>2, <2>3 DEF Lent, BInv, LentHeld
<1> QED
  BY <1>4, <1>5, <1>6

LEMMA LentCaller ==
  ASSUME BInv, NEW c \in Callers, Caller(c)
  PROVE  LentHeld'
<1>1. ASSUME NEW cmd, NEW mode, Enter(c, cmd, mode) PROVE LentHeld'
  <2>1. /\ UNCHANGED <<queue, phase, req, abandoned>> /\ pc[c] = "idle" /\ pc'[c] # "waiting"
        /\ \A d \in Callers \ {c} :
             pc'[d] = pc[d] /\ callNo'[d] = callNo[d] /\ call'[d] = call[d]
    BY <1>1 DEF Enter, server, BInv, IInv, TypeOK
  <2> QED
    BY <2>1, LentCalm DEF InFlight
<1>2. CASE ReturnDown(c) \/ ReturnNoMemory(c) \/ SendTimeout(c)
  <2>1. /\ UNCHANGED <<queue, phase, req, abandoned, callNo>>
        /\ pc[c] # "waiting" /\ pc'[c] # "waiting"
        /\ \A d \in Callers \ {c} : pc'[d] = pc[d] /\ call'[d] = call[d]
    BY <1>2 DEF ReturnDown, ReturnNoMemory, SendTimeout, ReturnCode, Return, server,
                BInv, IInv, TypeOK
  <2> QED
    BY <2>1, LentCalm DEF InFlight
<1> QED
  BY <1>1, <1>2, LentSends, LentWaiterLeaves, CallEnters DEF Caller

LEMMA LentStep ==
  ASSUME BInv, [Next]_vars
  PROVE  LentHeld'
<1>1. CASE Receive
  <2>1. /\ UNCHANGED <<pc, callNo, call, abandoned>> /\ queue \in Seq(Requests) /\ queue # <<>>
        /\ req' = queue[1] /\ queue' = Tail(queue)
    BY <1>1 DEF Receive, client, BInv, IInv, TypeOK
  <2>2. 1 \in DOMAIN queue /\ \A i \in DOMAIN queue' : i + 1 \in DOMAIN queue /\ queue'[i] = queue[i + 1]
    BY <2>1
  <2>3. \A r \in Requests : InFlight(r)' => InFlight(r)
    BY <2>1, <2>2 DEF InFlight
  <2> QED
    BY <2>1, <2>3, LentCalm
<1>2. CASE Execute \/ StoreResult \/ GiveSemaphore \/ Notify
  <2>1. UNCHANGED <<pc, callNo, call, abandoned, queue>> /\ phase' # "run"
    BY <1>2 DEF Execute, StoreResult, GiveSemaphore, Notify, Finish, client
  <2> QED
    BY <2>1, LentCalm DEF InFlight
<1>3. CASE InitStorage \/ DeinitStorage
  <2>1. /\ UNCHANGED <<pc, callNo, call, abandoned>> /\ queue' = <<>>
        /\ phase' = "run" => phase = "run" /\ req' = req
    BY <1>3 DEF InitStorage, DeinitStorage, Finish, client, server
  <2> QED
    BY <2>1, LentCalm DEF InFlight
<1>4. CASE Restart
  BY <1>4 DEF Restart, Finish, InFlight, LentHeld
<1>5. CASE UNCHANGED vars
  BY <1>5, LentCalm DEF vars, InFlight
<1> QED
  BY <1>1, <1>2, <1>3, <1>4, <1>5, LentCaller DEF Next, Finished, DaoTask

(* dao_task reads the entries of a batch only while the call that lent     *)
(* them is blocked, unless this very call gave up waiting for it, for      *)
(* every number of tasks, calls and batches.  Operations may exceed        *)
(* DAO_OPERATION_TIMEOUT_MS as long as no frame takes the place of a       *)
(* finished one (a late semaphore could else end the wait of a later       *)
(* call), and frames may be reused as long as no operation does.           *)
THEOREM BatchesBorrowed ==
  ASSUME NoLateAnswers
  PROVE  Spec => []BatchBorrowed
<1>1. Init => BInv
  BY OwnInit, RequestsInit DEF Init, BInv, LentHeld, InFlight
<1>2. BInv /\ [Next]_vars => BInv'
  BY OwnStep, RequestsStep, LentStep DEF BInv
<1>3. BInv => BatchBorrowed
  BY DEF BInv, IInv, TypeOK, LentHeld, InFlight, Lent, BatchBorrowed
<1> QED
  BY <1>1, <1>2, <1>3, PTL DEF Spec

-----------------------------------------------------------------------------
(* The storage service implements AtomicStore for every number of tasks,   *)
(* keys, calls and queue places, provided that no answer is late or no     *)
(* frame takes the place of a finished one: each step of the callers, the  *)
(* queue and dao_task is a step of the abstract store or leaves it alone.  *)

(* A semaphore that was given says that the call has run. *)
GivenHasRun == \A c \in Callers : sem[c] => log[CurrentId(c)] # NotRun

KInv == IInv /\ RInv /\ GivenHasRun

LEMMA GivenStep ==
  ASSUME KInv, [Next]_vars, IInv', RInv'
  PROVE  GivenHasRun'
<1>0. ASSUME NEW c \in Callers, Call(c)
      PROVE  /\ UNCHANGED <<log, sem>>
             /\ \A d \in Callers : pc[d] = "waiting" => callNo'[d] = callNo[d]
  BY <1>0, CallEnters DEF Enter, flash, KInv, IInv, TypeOK
<1>1. ASSUME NEW c \in Callers, sem[c], log'[CurrentId(c)] = NotRun PROVE FALSE
  <2>1. log[CurrentId(c)] # NotRun
    BY <1>1 DEF KInv, GivenHasRun
  <2>2. CurrentId(c) \in Ids
    <3>1. pc[c] # "idle"
      BY <1>1 DEF KInv, IInv, SendingIsFresh
    <3> QED
      BY <3>1 DEF KInv, IInv, TypeOK, CurrentId, Ids
  <2>3. Execute
    BY <1>0, <1>1, <2>1 DEF Next, Caller, DaoTask, Finished, vars, flash, ReturnDown,
      ReturnNoMemory, Send, SendTimeout, SendToDeleted, TakeAnswer, AnswerTimeout, Receive,
      StoreResult, GiveSemaphore, Notify, InitStorage, DeinitStorage, Restart
  <2>4. req.id # CurrentId(c) /\ req.id \in Ids
    BY <1>1, <2>3, RequestFields DEF Execute, Pending, KInv, IInv, AnswerDelivered, TypeOK
  <2> QED
    BY <1>1, <2>1, <2>2, <2>3, <2>4 DEF Execute, KInv, IInv, TypeOK
<1>2. ASSUME NEW c \in Callers, sem'[c], sem[c] PROVE callNo'[c] = callNo[c]
  <2>1. pc[c] = "waiting"
    BY <1>2 DEF KInv, IInv, SendingIsFresh
  <2> QED
    BY <1>0, <2>1, SMTT(60) DEF Next, Caller, DaoTask, Finished, vars, client, flash, ReturnDown,
      ReturnNoMemory, Send, SendTimeout, SendToDeleted, TakeAnswer, AnswerTimeout, Receive,
      Execute, StoreResult, GiveSemaphore, Notify, InitStorage, DeinitStorage, Restart,
      KInv, IInv, TypeOK
<1>3. ASSUME NEW c \in Callers, sem'[c], ~sem[c] PROVE log'[CurrentId(c)'] # NotRun
  <2>1. GiveSemaphore
    BY <1>0, <1>3 DEF Next, Caller, DaoTask, Finished, vars, client, flash, ReturnDown,
      ReturnNoMemory, Send, SendTimeout, SendToDeleted, TakeAnswer, AnswerTimeout, Receive,
      Execute, StoreResult, Notify, InitStorage, DeinitStorage, Restart, Return, ReturnCode,
      NoFrames, Wait, KInv, IInv, TypeOK
  <2>2. /\ log' = log /\ callNo' = callNo /\ phase = "give" /\ req \in Requests
        /\ log[req.id] = answer /\ answer \in Answers /\ req.mode = "sync"
    BY <2>1 DEF GiveSemaphore, flash, KInv, IInv, TypeOK, AnswerOnItsWay
  <2>3. PICK reached \in Reaches(req) :
          sem' = IF reached THEN [sem EXCEPT ![req.id[1]] = TRUE] ELSE sem
    BY <2>1 DEF GiveSemaphore
  <2>4. reached /\ req.id[1] = c
    BY <1>3, <2>2, <2>3, RequestFields DEF KInv, IInv, TypeOK
  <2>5. FrameLive(req)
    BY <2>2, <2>4, PointerReachesOwnFrame DEF KInv
  <2>6. CurrentId(c) = req.id
    BY <2>2, <2>4, <2>5, RequestFields DEF FrameLive, CurrentId
  <2>7. log[CurrentId(c)] # NotRun
    BY <2>2, <2>6, NotRunAssumption
  <2> QED
    BY <2>2, <2>7 DEF CurrentId
<1> QED
  BY <1>1, <1>2, <1>3 DEF GivenHasRun, CurrentId

-----------------------------------------------------------------------------
(* The operations of the abstract store are those of dao_common.c.         *)
LEMMA SameOutcomes ==
  ASSUME NEW cmd, NEW id, NEW old
  PROVE  /\ Promised!Outcomes(cmd, id, old) = Outcomes(cmd, id, old)
         /\ Promised!Leftovers(cmd, id, old) = Leftovers(cmd, id, old)
<1> QED
  BY DEF Promised!Outcomes, Outcomes, Promised!Leftovers, Leftovers, Promised!Normal, Normal,
     Promised!Written, Written, Promised!Erased, Erased, Promised!KeysOf, KeysOf,
     Promised!FoundIf, FoundIf, Promised!Result, Result, Promised!GetResult, GetResult,
     Promised!ExistsResult, ExistsResult, Promised!ListResult, ListResult,
     Promised!KeysResult, KeysResult, Promised!Present, Present, Promised!SetResult, SetResult, Promised!RemoveResult, RemoveResult,
     Promised!RemoveAllResult, RemoveAllResult, Promised!Empty, Empty, Promised!NoView, NoView

-----------------------------------------------------------------------------
(* The calls that may still take effect                                    *)

IsToRun(r) ==
  \/ InFlight(r)
  \/ \E c \in Callers : pc[c] \in {"down", "sending"} /\ call[c] = r

Todo == {[id |-> r.id, cmd |-> r.cmd] : r \in ToRun}

LEMMA ToRunAre ==
  /\ \A r : r \in ToRun <=> IsToRun(r)
  /\ \A r : r \in ToRun' <=> IsToRun(r)'
BY DEF ToRun, IsToRun, InFlight

LEMMA TodoKept ==
  ASSUME \A r : IsToRun(r)' <=> IsToRun(r)
  PROVE  Todo' = Todo
<1>1. ToRun' = ToRun
  BY ToRunAre
<1> QED
  BY <1>1 DEF Todo

LEMMA TodoFewer ==
  ASSUME \A r : IsToRun(r)' => IsToRun(r)
  PROVE  Todo' \subseteq Todo
<1>1. ToRun' \subseteq ToRun
  BY ToRunAre
<1> QED
  BY <1>1 DEF Todo

(* What is taken away belongs to the call in progress. *)
LEMMA TodoOthers ==
  ASSUME NEW id, \A r : IsToRun(r)' => IsToRun(r),
         \A r : IsToRun(r) /\ r.id # id => IsToRun(r)'
  PROVE  /\ Todo' \subseteq Todo
         /\ \A t \in Todo : t.id # id => t \in Todo'
<1>1. \A r \in ToRun : r.id # id => r \in ToRun'
  BY ToRunAre
<1>2. ASSUME NEW t \in Todo, t.id # id PROVE t \in Todo'
  <2>1. PICK r \in ToRun : t = [id |-> r.id, cmd |-> r.cmd]
    BY <1>2 DEF Todo
  <2>2. r \in ToRun'
    BY <1>1, <1>2, <2>1
  <2> QED
    BY <2>1, <2>2 DEF Todo
<1> QED
  BY <1>2, TodoFewer

LEMMA TodoLess ==
  ASSUME NEW id, \A r : IsToRun(r)' => IsToRun(r) /\ r.id # id
  PROVE  Todo' \subseteq Todo /\ \A t \in Todo' : t.id # id
<1>1. \A r \in ToRun' : r.id # id
  BY ToRunAre
<1>2. ASSUME NEW t \in Todo' PROVE t.id # id
  <2>1. PICK r \in ToRun' : t = [id |-> r.id, cmd |-> r.cmd]
    BY <1>2 DEF Todo
  <2> QED
    BY <1>1, <2>1
<1> QED
  BY <1>2, TodoFewer

(* A request that is to run is the only one of its call. *)
LEMMA RunningIsAlone ==
  ASSUME KInv, phase = "run"
  PROVE  /\ \A i \in DOMAIN queue : queue[i].id # req.id
         /\ \A c \in Callers : pc[c] \in {"down", "sending"} => call[c].id # req.id
BY DEF KInv, RInv, RequestsDistinct, CallsFresh, Pending

-----------------------------------------------------------------------------
(* Every step is one of the abstract store, or none                        *)

(* A call under way takes effect, or is cut short. *)
LEMMA TodoSteps ==
  ASSUME NEW t \in Todo, Promised!Effect(t) \/ Promised!CutShort(t)
  PROVE  Promised!Next
<1>1. t \in {[id |-> r.id, cmd |-> r.cmd] : r \in ToRun}
  BY DEF Todo
<1> QED
  BY <1>1 DEF Promised!Next

LEMMA PromiseInit == Init => Promised!Init
<1> SUFFICES ASSUME Init PROVE Promised!Init
  OBVIOUS
<1>1. ToRun = {}
  BY DEF Init, ToRun
<1> QED
  BY <1>1 DEF Init, Promised!Init, Empty, Promised!Empty, Ids, Promised!Ids

(* A call that returns takes only its own request away. *)
LEMMA CallEnds ==
  ASSUME KInv, NEW c \in Callers, pc[c] # "idle", NEW ans, Return(c, ans),
         UNCHANGED <<queue, phase, req>>
  PROVE  /\ \A r : IsToRun(r)' => IsToRun(r)
         /\ \A r : IsToRun(r) /\ r.id # CurrentId(c) => IsToRun(r)'
<1>1. /\ pc'[c] = "idle" /\ call[c].id = CurrentId(c)
      /\ \A d \in Callers \ {c} : pc'[d] = pc[d] /\ call'[d] = call[d]
  BY DEF Return, KInv, RInv, TypeOK, CallsFresh
<1> QED
  BY <1>1 DEF IsToRun, InFlight

LEMMA PromiseRefusal ==
  ASSUME KInv, NEW c \in Callers, pc[c] # "idle", NEW code \in Refusals,
         ReturnCode(c, code), UNCHANGED <<nvs, log, callNo, queue, phase, req>>
  PROVE  Promised!Next
<1> DEFINE s == call[c].mode = "sync"
<1>1. ret' = [ret EXCEPT ![c] = [id |-> <<c, callNo[c]>>, sync |-> s, code |-> code, seen |-> NoView]]
  BY DEF ReturnCode, Return, CurrentId
<1>2. callNo[c] > 0 /\ s \in BOOLEAN
  BY DEF KInv, IInv, TypeOK
<1>3. /\ Todo' \subseteq Todo
      /\ \A t \in Todo : t.id # CurrentId(c) => t \in Todo'
  BY CallEnds, TodoOthers DEF ReturnCode
<1> HIDE DEF s
<1>4. Promised!Reply(c, s, [code |-> code, seen |-> NoView])
  BY <1>1, <1>2 DEF Promised!Reply
<1>5. Promised!OthersStay(c)
  BY <1>3 DEF Promised!OthersStay, Todo, CurrentId
<1>6. Promised!ReturnRefusal(c)
  BY <1>2, <1>4, <1>5
     DEF Promised!ReturnRefusal, Promised!Refusals, Refusals, Promised!NoView, NoView
<1> QED
  BY <1>6 DEF Promised!Next

(* An asynchronous call was queued, or sent to a queue that is no more. *)
LEMMA PromiseAccepted ==
  ASSUME KInv, NEW c \in Callers, pc[c] # "idle", call[c].mode # "sync",
         ReturnCode(c, "ok"), UNCHANGED <<nvs, log, callNo>>,
         \A r : IsToRun(r)' => IsToRun(r),
         \A r : IsToRun(r) /\ r.id # CurrentId(c) => IsToRun(r)'
  PROVE  Promised!Next
<1>1. ret' = [ret EXCEPT ![c] = [id |-> <<c, callNo[c]>>, sync |-> FALSE, code |-> "ok", seen |-> NoView]]
  BY DEF ReturnCode, Return, CurrentId
<1>2. callNo[c] > 0
  BY DEF KInv, IInv, TypeOK
<1>3. /\ Todo' \subseteq Todo
      /\ \A t \in Todo : t.id # CurrentId(c) => t \in Todo'
  BY TodoOthers
<1>4. Promised!OthersStay(c)
  BY <1>3 DEF Promised!OthersStay, Todo, CurrentId
<1>5. Promised!ReturnAccepted(c)
  BY <1>1, <1>2, <1>4 DEF Promised!ReturnAccepted, Promised!Reply, Promised!NoView, NoView
<1> QED
  BY <1>5 DEF Promised!Next

LEMMA PromiseEnter ==
  ASSUME KInv, NEW c \in Callers, NEW cmd \in Commands, NEW mode \in Modes, Enter(c, cmd, mode)
  PROVE  Promised!Next
<1> DEFINE new == [id |-> <<c, callNo[c] + 1>>, cmd |-> cmd, mode |-> mode]
<1>1. /\ UNCHANGED <<nvs, log, ret, queue, phase, req>> /\ callNo[c] < MaxCalls
      /\ callNo' = [callNo EXCEPT ![c] = @ + 1]
      /\ pc[c] = "idle" /\ pc'[c] \in {"down", "sending"} /\ call'[c] = new
      /\ \A d \in Callers \ {c} : pc'[d] = pc[d] /\ call'[d] = call[d]
  BY DEF Enter, flash, server, KInv, IInv, TypeOK
<1>2. \A r : IsToRun(r)' <=> IsToRun(r) \/ r = new
  BY <1>1 DEF IsToRun, InFlight
<1>3. ToRun' = ToRun \cup {new}
  BY <1>2, ToRunAre
<1>4. Todo' = Todo \cup {[id |-> <<c, callNo[c] + 1>>, cmd |-> cmd]}
  <2>1. new.id = <<c, callNo[c] + 1>> /\ new.cmd = cmd
    OBVIOUS
  <2> HIDE DEF new
  <2>2. Todo' = Todo \cup {[id |-> new.id, cmd |-> new.cmd]}
    BY <1>3, Zenon DEF Todo
  <2> QED
    BY <2>1, <2>2
<1>5. Promised!Issue(c, cmd)
  BY <1>1, <1>4 DEF Promised!Issue, Todo
<1>6. cmd \in Promised!Commands
  BY DEF Promised!Commands, Commands
<1> QED
  BY <1>5, <1>6 DEF Promised!Next

(* Calls that are lost before they take effect. *)
LEMMA PromiseLoses ==
  ASSUME UNCHANGED <<nvs, callNo, log, ret>>, \A r : IsToRun(r)' => IsToRun(r)
  PROVE  Promised!Next
<1>1. Promised!Lose
  BY TodoFewer DEF Promised!Lose, Todo
<1> QED
  BY <1>1 DEF Promised!Next

LEMMA PromiseKeeps ==
  ASSUME UNCHANGED <<nvs, callNo, log, ret>>, \A r : IsToRun(r)' <=> IsToRun(r)
  PROVE  UNCHANGED Promised!vars
BY TodoKept DEF Promised!vars, Todo

LEMMA PromiseSends ==
  ASSUME KInv, NEW c \in Callers, Send(c) \/ SendToDeleted(c)
  PROVE  Promised!Next \/ UNCHANGED Promised!vars
<1>1. /\ pc[c] = "sending" /\ pc'[c] \in {"waiting", "idle"}
      /\ UNCHANGED <<nvs, log, callNo, phase, req>>
      /\ Send(c) => queue' = Append(queue, call[c])
      /\ SendToDeleted(c) => queue' = queue
      /\ \A d \in Callers \ {c} : pc'[d] = pc[d] /\ call'[d] = call[d]
      /\ call[c].mode = "sync" => ret' = ret
      /\ call[c].mode # "sync" => ReturnCode(c, "ok")
  BY DEF Send, SendToDeleted, Wait, ReturnCode, Return, flash, server, KInv, IInv, TypeOK
<1>2. /\ call[c] \in Requests /\ call[c].id = CurrentId(c) /\ queue \in Seq(Requests)
  BY <1>1, SentIsLast DEF KInv, RInv, TypeOK
<1>3. /\ \A r : IsToRun(r)' => IsToRun(r)
      /\ \A r : IsToRun(r) => IsToRun(r)' \/ (SendToDeleted(c) /\ r = call[c])
  <2>1. CASE SendToDeleted(c)
    BY <1>1, <2>1 DEF IsToRun, InFlight
  <2>2. CASE Send(c)
    <3>1. /\ \A i \in DOMAIN queue : i \in DOMAIN queue' /\ queue'[i] = queue[i]
          /\ Len(queue) + 1 \in DOMAIN queue' /\ queue'[Len(queue) + 1] = call[c]
          /\ \A i \in DOMAIN queue' : i \in DOMAIN queue \/ queue'[i] = call[c]
      BY <1>1, <1>2, <2>2
    <3>2. \A r : InFlight(r)' <=> InFlight(r) \/ r = call[c]
      BY <1>1, <3>1 DEF InFlight
    <3> QED
      BY <1>1, <3>2 DEF IsToRun
  <2> QED
    BY <2>1, <2>2
<1>4. CASE call[c].mode # "sync"
  BY <1>1, <1>2, <1>3, <1>4, PromiseAccepted
<1>5. CASE call[c].mode = "sync"
  BY <1>1, <1>3, <1>5, PromiseLoses
<1> QED
  BY <1>4, <1>5

LEMMA PromiseAnswer ==
  ASSUME KInv, NEW c \in Callers, TakeAnswer(c)
  PROVE  Promised!Next
<1>1. /\ Return(c, result[c]) /\ pc[c] = "waiting" /\ sem[c]
      /\ UNCHANGED <<nvs, log, callNo, queue, phase, req>>
  BY DEF TakeAnswer, flash, server
<1>2. result[c] = log[CurrentId(c)] /\ log[CurrentId(c)] # NotRun
  BY <1>1 DEF KInv, IInv, AnswerDelivered, GivenHasRun
<1>3. call[c].mode = "sync" /\ callNo[c] > 0
  BY <1>1 DEF KInv, RInv, ModesFit, TypeOK
<1>4. ret' = [ret EXCEPT ![c] = [id |-> <<c, callNo[c]>>, sync |-> TRUE,
                                 code |-> result[c].code, seen |-> result[c].seen]]
  BY <1>1, <1>3 DEF Return, CurrentId
<1>5. Todo' = Todo
  <2>1. \A d \in Callers : \/ pc'[d] = pc[d] /\ call'[d] = call[d]
                           \/ pc[d] = "waiting" /\ pc'[d] = "idle"
    BY <1>1 DEF Return, KInv, IInv, TypeOK
  <2> QED
    BY <1>1, <2>1, TodoKept DEF IsToRun, InFlight
<1>6. Promised!ReturnAnswer(c)
  BY <1>1, <1>2, <1>3, <1>4, <1>5 DEF Promised!ReturnAnswer, Promised!Reply, CurrentId, Todo
<1> QED
  BY <1>6 DEF Promised!Next

LEMMA PromiseCaller ==
  ASSUME KInv, NEW c \in Callers, Caller(c)
  PROVE  Promised!Next \/ UNCHANGED Promised!vars
<1>1. CASE ReturnDown(c)
  BY <1>1, PromiseRefusal DEF ReturnDown, flash, server, Refusals
<1>2. CASE ReturnNoMemory(c)
  BY <1>2, PromiseRefusal DEF ReturnNoMemory, flash, server, Refusals
<1>3. CASE SendTimeout(c)
  BY <1>3, PromiseRefusal DEF SendTimeout, flash, server, Refusals
<1>4. CASE AnswerTimeout(c)
  BY <1>4, PromiseRefusal DEF AnswerTimeout, flash, server, Refusals
<1> QED
  BY <1>1, <1>2, <1>3, <1>4, PromiseEnter, PromiseSends, PromiseAnswer, CallEnters DEF Caller

(* An operation takes effect once, after the earlier ones of its task.     *)
LEMMA PromiseExecute ==
  ASSUME KInv, Execute
  PROVE  Promised!Next
<1> DEFINE t == [id |-> req.id, cmd |-> req.cmd]
<1>1. /\ phase = "run" /\ req \in Requests /\ req.id \in Ids /\ req.cmd \in Commands
      /\ req.id = <<req.id[1], req.id[2]>>
      /\ UNCHANGED <<callNo, ret, queue, pc, call>> /\ phase' = "store"
  BY RequestFields DEF Execute, KInv, IInv, TypeOK, Requests
<1>2. PICK o \in Outcomes(req.cmd, req.id, nvs) :
        nvs' = o.new /\ log' = [log EXCEPT ![req.id] = o.ans]
  BY DEF Execute
<1>3. \A n \in req.id[2] .. MaxCalls : log[<<req.id[1], n>>] = NotRun
  BY <1>1 DEF KInv, RInv, InOrder, NoneSince
<1>4. t \in Todo /\ Todo' = Todo \ {t}
  <2>1. \A r : IsToRun(r)' <=> IsToRun(r) /\ r.id # req.id
    BY <1>1, RunningIsAlone DEF IsToRun, InFlight
  <2>2. \A r : IsToRun(r) /\ r.id = req.id => r = req
    BY <1>1, RunningIsAlone DEF IsToRun, InFlight
  <2>3. IsToRun(req)
    BY <1>1 DEF IsToRun, InFlight
  <2>4. /\ req \in ToRun /\ \A r \in ToRun : r.id = req.id => r = req
        /\ ToRun' = {r \in ToRun : r.id # req.id}
    BY <2>1, <2>2, <2>3, ToRunAre
  <2> QED
    BY <2>4 DEF Todo
<1>5. PICK r \in Todo : r = t
  BY <1>4
<1>6. Promised!Effect(r)
  <2>1. o \in Promised!Outcomes(req.cmd, req.id, nvs)
    BY SameOutcomes
  <2> QED
    BY <1>1, <1>2, <1>3, <1>4, <1>5, <2>1 DEF Promised!Effect, Todo
<1> QED
  BY <1>6, TodoSteps

(* What a shutdown or a power loss leaves in flash is what an operation    *)
(* that was cut short may leave.                                           *)
LEMMA PromiseInterrupted ==
  ASSUME KInv, nvs' \in Interrupted, UNCHANGED <<callNo, log, ret>>,
         queue' = <<>>, phase' = "idle",
         \A c \in Callers : pc'[c] = "idle" \/ (pc'[c] = pc[c] /\ call'[c] = call[c])
  PROVE  Promised!Next
<1>1. CASE phase # "run"
  <2>1. nvs' = nvs /\ \A r : IsToRun(r)' => IsToRun(r)
    BY <1>1 DEF Interrupted, IsToRun, InFlight
  <2> QED
    BY <2>1, PromiseLoses
<1>2. CASE phase = "run"
  <2> DEFINE t == [id |-> req.id, cmd |-> req.cmd]
  <2>1. t \in Todo
    <3>1. req \in ToRun
      BY <1>2, ToRunAre DEF IsToRun, InFlight
    <3> QED
      BY <3>1 DEF Todo
  <2>2. Todo' \subseteq Todo \ {t}
    <3>1. \A r : IsToRun(r)' => IsToRun(r) /\ r.id # req.id
      BY <1>2, RunningIsAlone DEF IsToRun, InFlight
    <3> QED
      BY <3>1, TodoLess
  <2>3. PICK r \in Todo : r = t
    BY <2>1
  <2>4. Promised!CutShort(r)
    BY <1>2, <2>2, <2>3, SameOutcomes DEF Promised!CutShort, Interrupted, Todo
  <2> QED
    BY <2>4, TodoSteps
<1> QED
  BY <1>1, <1>2

LEMMA PromiseStep ==
  ASSUME KInv, [Next]_vars
  PROVE  [Promised!Next]_(Promised!vars)
<1>1. CASE DaoTask
  <2>1. CASE Receive
    <3>1. /\ UNCHANGED <<nvs, callNo, log, ret, pc, call>> /\ queue \in Seq(Requests)
          /\ queue # <<>> /\ phase = "idle" /\ phase' = "run"
          /\ req' = queue[1] /\ queue' = Tail(queue)
      BY <2>1 DEF Receive, flash, client, KInv, IInv, TypeOK
    <3>2. /\ 1 \in DOMAIN queue
          /\ \A i \in DOMAIN queue' : i + 1 \in DOMAIN queue /\ queue'[i] = queue[i + 1]
          /\ \A i \in DOMAIN queue : i = 1 \/ (i - 1 \in DOMAIN queue' /\ queue'[i - 1] = queue[i])
      BY <3>1
    <3>3. ASSUME NEW r, InFlight(r) PROVE InFlight(r)'
      <4>1. PICK i \in DOMAIN queue : queue[i] = r
        BY <3>1, <3>3 DEF InFlight
      <4> QED
        BY <3>1, <3>2, <4>1 DEF InFlight
    <3>4. \A r : InFlight(r)' => InFlight(r)
      BY <3>1, <3>2 DEF InFlight
    <3>5. \A r : IsToRun(r)' <=> IsToRun(r)
      BY <3>1, <3>3, <3>4 DEF IsToRun
    <3> QED
      BY <3>1, <3>5, PromiseKeeps
  <2>2. CASE StoreResult \/ GiveSemaphore \/ Notify
    <3>1. UNCHANGED <<nvs, callNo, log, ret, pc, call, queue>> /\ phase # "run" /\ phase' # "run"
      BY <2>2 DEF StoreResult, GiveSemaphore, Notify, Finish, flash, client
    <3> QED
      BY <3>1, PromiseKeeps DEF IsToRun, InFlight
  <2> QED
    BY <1>1, <2>1, <2>2, PromiseExecute DEF DaoTask
<1>2. CASE InitStorage
  <2>1. UNCHANGED <<nvs, callNo, log, ret, pc, call, phase, req>> /\ queue' = <<>>
    BY <1>2 DEF InitStorage, flash, client, server
  <2>2. \A r : IsToRun(r)' => IsToRun(r)
    BY <2>1 DEF IsToRun, InFlight
  <2> QED
    BY <2>1, <2>2, PromiseLoses
<1>3. CASE DeinitStorage
  <2>1. /\ UNCHANGED <<callNo, log, ret, pc, call>> /\ queue' = <<>> /\ phase' = "idle"
        /\ nvs' = Empty \/ nvs' \in Interrupted
    BY <1>3 DEF DeinitStorage, Finish, client
  <2>2. CASE nvs' = Empty
    <3>1. \A r : IsToRun(r)' => IsToRun(r)
      BY <2>1 DEF IsToRun, InFlight
    <3>2. Promised!Erase
      BY <2>1, <2>2, <3>1, TodoFewer DEF Promised!Erase, Promised!Empty, Empty, Todo
    <3> QED
      BY <3>2 DEF Promised!Next
  <2> QED
    BY <2>1, <2>2, PromiseInterrupted
<1>4. CASE Restart
  BY <1>4, PromiseInterrupted DEF Restart, NoFrames, Finish
<1>5. CASE UNCHANGED vars
  BY <1>5, PromiseKeeps DEF vars, IsToRun, InFlight
<1> QED
  BY <1>1, <1>2, <1>3, <1>4, <1>5, PromiseCaller DEF Next, Finished

(* The storage keeps the promise of AtomicStore: the calls of a task take  *)
(* effect atomically, in order and at most once, answers are those of the  *)
(* effect, and a shutdown or a power loss leaves no more than a part of    *)
(* one operation, for every number of tasks and calls, provided that       *)
(* answers are not late or frames are not reused.                          *)
THEOREM PromiseKept ==
  ASSUME NoLateAnswers
  PROVE  Spec => KeepsPromise
<1>1. Init => KInv
  BY OwnInit, RequestsInit DEF Init, KInv, GivenHasRun
<1>2. KInv /\ [Next]_vars => KInv'
  BY OwnStep, RequestsStep, GivenStep DEF KInv
<1>3. KInv /\ [Next]_vars => [Promised!Next]_(Promised!vars)
  BY PromiseStep
<1> QED
  BY PromiseInit, <1>1, <1>2, <1>3, PTL DEF Spec, KeepsPromise, Promised!Spec
=============================================================================
