-------------------------- MODULE BluedroidServices --------------------------
(***************************************************************************)
(* IOT_BleMgmtBluedroid.c, its services: Bluedroid (external) takes         *)
(* requests and answers each with an event, in order, on its own task,      *)
(* which runs gatts_event_handler.  bluedroid_addServices drives a state    *)
(* machine through those events and waits for it on a binary semaphore,     *)
(* five seconds at most for each service.                                   *)
(*                                                                          *)
(* One task adds services and stops the stack.  Descriptors, added like     *)
(* characteristics, are left out; a service is the sequence of the handles  *)
(* of its characteristics.                                                  *)
(***************************************************************************)
EXTENDS Naturals, Sequences

CONSTANTS
    EntryRoom,      \* bound: entries of gatt_svc_access_diff
    CharRoom,       \* bound: characteristics of a service
    HandleRoom,     \* bound: services, and characteristics, of the stack
    FailureRoom     \* bound: calls that fail before the chip restarts

VARIABLES
    up,             \* gatts_if_global is set: the stack runs
    requests,       \* external: requests the stack has not answered
    made,           \* external: whose characteristic each handle is
    hosted,         \* external: the entry each service of the stack was asked for
    diff,           \* gatt_svc_access_diff
    target,         \* service_handle of each entry: a position in hosted
    count,          \* numberOfGattServices
    reg,            \* svc_reg_state
    regSvc,         \* reg_svc_idx
    regChar,        \* reg_char_idx
    semaphore,      \* svc_reg_semaphore has been given
    addPc,          \* where the call is
    oldCount,       \* old_count of the call
    failed,         \* history: calls of bluedroid_addServices that failed
    refused         \* history: the stack refused a characteristic

bdVars == <<up, requests, made, hosted, diff, target, count, reg, regSvc, regChar, semaphore,
            addPc, oldCount, failed, refused>>

BdTypeOK ==
    /\ up \in BOOLEAN /\ semaphore \in BOOLEAN /\ failed \in 0 .. FailureRoom /\ refused \in BOOLEAN
    /\ made \in Seq([entry : 1 .. EntryRoom, char : 1 .. CharRoom + 1])
    /\ hosted \in Seq(1 .. EntryRoom)
    /\ diff \in [1 .. EntryRoom -> UNION {[1 .. n -> 0 .. HandleRoom] : n \in 0 .. CharRoom}]
    /\ target \in [1 .. EntryRoom -> 0 .. HandleRoom]
    /\ count \in 0 .. EntryRoom /\ oldCount \in 0 .. EntryRoom
    /\ reg \in {"idle", "creating", "starting", "adding", "complete"}
    /\ regSvc \in 1 .. EntryRoom /\ regChar \in 1 .. CharRoom + 1
    /\ addPc \in {"ready", "moved", "create", "wait"}

BdStart ==
    /\ up = FALSE /\ requests = <<>> /\ made = <<>> /\ hosted = <<>>
    /\ diff = [i \in 1 .. EntryRoom |-> <<>>] /\ target = [i \in 1 .. EntryRoom |-> 0]
    /\ count = 0 /\ oldCount = 0
    /\ reg = "idle" /\ regSvc = 1 /\ regChar = 1 /\ semaphore = FALSE /\ addPc = "ready"
    /\ failed = 0 /\ refused = FALSE

\* An event that writes to an entry that was freed writes through NULL: the chip restarts.
BdPanic ==
    /\ up' = FALSE /\ requests' = <<>> /\ made' = <<>> /\ hosted' = <<>>
    /\ diff' = [i \in 1 .. EntryRoom |-> <<>>] /\ target' = [i \in 1 .. EntryRoom |-> 0]
    /\ count' = 0 /\ oldCount' = 0
    /\ reg' = "idle" /\ regSvc' = 1 /\ regChar' = 1 /\ semaphore' = FALSE /\ addPc' = "ready"
    /\ failed' = 0 /\ refused' = FALSE

Answering(what) == requests # <<>> /\ Head(requests).what = what

-----------------------------------------------------------------------------
(* Starting and stopping.                                                  *)

BdInit ==
    /\ ~up /\ up' = TRUE /\ semaphore' = FALSE
    /\ UNCHANGED <<requests, made, hosted, diff, target, count, reg, regSvc, regChar, addPc,
                   oldCount, failed, refused>>

\* The table is not freed, only its count.
BdDeinit ==
    /\ up /\ addPc = "ready"
    /\ up' = FALSE /\ semaphore' = FALSE /\ count' = 0
    /\ requests' = <<>> /\ made' = <<>> /\ hosted' = <<>>
    /\ UNCHANGED <<diff, target, reg, regSvc, regChar, addPc, oldCount, failed, refused>>

-----------------------------------------------------------------------------
(* The caller.                                                             *)

\* The table is moved for more entries, which are cleared: until gatt_svc_access_diff
\* points to the new one it points to what is free.  (Without memory nothing changes.)
BeginAdd ==
    /\ up /\ addPc = "ready" /\ count < EntryRoom /\ Len(hosted) < HandleRoom /\ failed < FailureRoom
    /\ diff' = [i \in 1 .. EntryRoom |-> IF i > count THEN <<>> ELSE diff[i]]
    /\ target' = [i \in 1 .. EntryRoom |-> IF i > count THEN 0 ELSE target[i]]
    /\ oldCount' = count /\ addPc' = "moved"
    /\ UNCHANGED <<up, requests, made, hosted, count, reg, regSvc, regChar, semaphore, failed, refused>>

\* The entries of a call, one for each service, by its number of characteristics.
Filled(sizes) ==
    [i \in 1 .. EntryRoom |->
        IF i \in count + 1 .. count + Len(sizes) THEN [c \in 1 .. sizes[i - count] |-> 0] ELSE diff[i]]

\* Once they are filled they count.
FillEntries(sizes) ==
    /\ addPc = "moved" /\ count + Len(sizes) <= EntryRoom
    /\ diff' = Filled(sizes)
    /\ count' = count + Len(sizes)
    /\ regSvc' = count + 1 /\ regChar' = 1
    /\ addPc' = "create"
    /\ UNCHANGED <<up, requests, made, hosted, target, reg, semaphore, oldCount, failed, refused>>

\* fail_cleanup: the entries of the call are freed and no longer counted; what the
\* stack has of them stays.
FailCleanup ==
    /\ diff' = [i \in 1 .. EntryRoom |-> IF i > oldCount THEN <<>> ELSE diff[i]]
    /\ count' = oldCount /\ addPc' = "ready" /\ failed' = failed + 1

\* Without memory for what they hold they are freed before they count.
FillFails ==
    /\ addPc = "moved" /\ addPc' = "ready"
    /\ UNCHANGED <<up, requests, made, hosted, diff, target, count, reg, regSvc, regChar, semaphore,
                   oldCount, failed, refused>>

CreateService ==
    /\ addPc = "create"
    /\ reg' = "creating"
    /\ \/ /\ requests' = Append(requests, [what |-> "create", at |-> regSvc])
          /\ addPc' = "wait"
          /\ UNCHANGED <<diff, count, failed>>
       \/ FailCleanup /\ UNCHANGED requests
    /\ UNCHANGED <<up, made, hosted, target, regSvc, regChar, semaphore, oldCount, refused>>

\* The next service, or IOT_OK.
GoOn ==
    /\ IF regSvc < count
       THEN regSvc' = regSvc + 1 /\ regChar' = 1 /\ addPc' = "create"
       ELSE addPc' = "ready" /\ UNCHANGED <<regSvc, regChar>>
    /\ UNCHANGED <<up, requests, made, hosted, diff, target, count, reg, oldCount, failed, refused>>

(* Mutant: the semaphore is looked at, not waited for. *)
TakeUnwaited == addPc = "wait" /\ semaphore' = FALSE /\ GoOn

TakeSemaphore == addPc = "wait" /\ semaphore /\ semaphore' = FALSE /\ GoOn

\* The events go on to arrive, and the semaphore may be given after all.
AddTimesOut ==
    /\ addPc = "wait" /\ ~semaphore
    /\ FailCleanup
    /\ UNCHANGED <<up, requests, made, hosted, target, reg, regSvc, regChar, semaphore, oldCount, refused>>

-----------------------------------------------------------------------------
(* The events.                                                             *)

\* The service is done, as far as the handler goes.
Complete == reg' = "complete" /\ semaphore' = TRUE /\ requests' = Tail(requests)

\* addNextCharacteristic, the state being what it is; bad: something was refused before.
\* The stack may refuse to be asked.
AddNext(char, state, bad) ==
    /\ regChar' = char
    /\ \/ char > Len(diff[regSvc]) /\ Complete /\ refused' = bad
       \/ /\ char <= Len(diff[regSvc])
          /\ reg' = state /\ refused' = bad /\ UNCHANGED semaphore
          /\ requests' = Append(Tail(requests), [what |-> "char", at |-> target[regSvc]])
       \/ char <= Len(diff[regSvc]) /\ Complete /\ refused' = TRUE

\* An event the state does not expect.
Ignore == requests' = Tail(requests) /\ UNCHANGED <<reg, regChar, semaphore>>

\* ESP_GATTS_CREATE_EVT.
ServiceCreated ==
    /\ Answering("create")
    /\ \/ /\ Len(hosted) < HandleRoom
          /\ hosted' = Append(hosted, Head(requests).at)
          /\ IF reg = "creating"
             THEN /\ target' = [target EXCEPT ![regSvc] = Len(hosted')]
                  /\ reg' = "starting" /\ UNCHANGED <<regChar, semaphore>>
                  /\ requests' = Append(Tail(requests), [what |-> "start", at |-> Len(hosted')])
             ELSE Ignore /\ UNCHANGED target
          /\ UNCHANGED refused
       \/ Complete /\ refused' = TRUE /\ UNCHANGED <<hosted, target, regChar>>
    /\ UNCHANGED <<up, made, diff, count, regSvc, addPc, oldCount, failed>>

\* ESP_GATTS_START_EVT.
ServiceStarted ==
    /\ Answering("start")
    /\ \/ reg = "starting" /\ AddNext(1, "adding", refused)
       \/ reg # "starting" /\ Ignore /\ UNCHANGED refused
       \/ Complete /\ refused' = TRUE /\ UNCHANGED regChar
    /\ UNCHANGED <<up, made, hosted, diff, target, count, regSvc, addPc, oldCount, failed>>

\* ESP_GATTS_ADD_CHAR_EVT: a characteristic the stack refuses is skipped.  (It refuses
\* one for a service it does not have, which a late event may ask for.)
CharAdded ==
    /\ Answering("char")
    /\ \/ /\ Head(requests).at # 0 /\ Len(made) < HandleRoom
          /\ reg = "adding" => regChar <= Len(diff[regSvc])
          /\ made' = Append(made, [entry |-> hosted[Head(requests).at], char |-> regChar])
          /\ IF reg = "adding"
             THEN diff' = [diff EXCEPT ![regSvc][regChar] = Len(made')] /\ AddNext(regChar + 1, reg, refused)
             ELSE Ignore /\ UNCHANGED <<diff, refused>>
          /\ UNCHANGED <<up, hosted, target, count, regSvc, addPc, oldCount, failed>>
       \/ /\ AddNext(IF regChar > CharRoom THEN regChar ELSE regChar + 1, reg, TRUE)
          /\ UNCHANGED <<up, made, hosted, diff, target, count, regSvc, addPc, oldCount, failed>>
       \/ reg = "adding" /\ regChar > Len(diff[regSvc]) /\ BdPanic

\* getAttrIndex: the entry and characteristic an access to a handle reaches, none is <<>>.
BdReached(h) ==
    LET at == {p \in (1 .. count) \X (1 .. CharRoom) : p[2] <= Len(diff[p[1]]) /\ diff[p[1]][p[2]] = h}
    IN IF at = {} THEN <<>>
       ELSE CHOOSE p \in at : \A q \in at : p[1] < q[1] \/ (p[1] = q[1] /\ p[2] <= q[2])

\* What may come of a peer's access: the callback of the entry found is called, or nothing
\* is found, or there is no memory for what it is to be given.
NoMemory == <<0, 0>>
HandleReadEvent(h) == {BdReached(h), NoMemory}
HandleWriteEvent(h) == {BdReached(h), NoMemory}

BdNext ==
    \/ BdInit \/ BdDeinit
    \/ BeginAdd \/ FillFails
    \/ \E m \in 0 .. CharRoom : FillEntries(<<m>>) \/ \E n \in 0 .. CharRoom : FillEntries(<<m, n>>)
    \/ CreateService \/ TakeSemaphore \/ AddTimesOut
    \/ ServiceCreated \/ ServiceStarted \/ CharAdded

BdSpec == BdStart /\ [][BdNext]_bdVars

-----------------------------------------------------------------------------
\* As long as no call to add services has failed, an access to a handle reaches the
\* entry and the characteristic it was made for, while further services are being
\* registered through the same indices, but for the moment in which the table is moved,
\* in which no event is under way that would write to it; and after calls that met no
\* refusal every characteristic has its handle.  (A call that gave up leaves events on
\* their way that write through those indices, and a semaphore that ends the next wait
\* at once.)
BdRightEnd ==
    /\ failed = 0 /\ up /\ addPc # "moved" => \A h \in 1 .. Len(made) :
          HandleReadEvent(h) \cup HandleWriteEvent(h) \subseteq {<<made[h].entry, made[h].char>>, NoMemory}
    /\ failed = 0 /\ addPc = "moved" => requests = <<>>
    /\ failed = 0 /\ ~refused /\ addPc = "ready" =>
          \A i \in 1 .. count : \A j \in 1 .. Len(diff[i]) : diff[i][j] # 0
=============================================================================
