----------------------------- MODULE TcpServer -----------------------------
(***************************************************************************)
(* IOT_TcpServer.c: a task accepts one client after the other on the       *)
(* listening socket; IOT_TcpInit and IOT_TcpDeinit start and stop it from  *)
(* other tasks.  Only s_running and s_serverTask tell each side of the     *)
(* other, and stopping waits two seconds at most.                          *)
(***************************************************************************)
CONSTANTS
    TcpTasks,       \* tasks that call the interface
    Servers,        \* bound: server tasks alive at a time
    NoServer        \* NULL

VARIABLES
    running,        \* s_running
    listening,      \* s_listenSock is open
    serverTask,     \* s_serverTask
    servers,        \* where each server task is, "none" when it does not exist
    tcpCallback,    \* s_eventCb is set
    lastClient,     \* s_lastClientAddr is set
    tcpPc,          \* where each calling task is
    untidy          \* history: calls of Init and Deinit overlapped, or a Deinit gave up waiting

tcpVars == <<running, listening, serverTask, servers, tcpCallback, lastClient, tcpPc, untidy>>

TcpTypeOK ==
    /\ running \in BOOLEAN /\ listening \in BOOLEAN
    /\ serverTask \in Servers \cup {NoServer}
    /\ servers \in [Servers -> {"none", "loop", "accept", "serve", "receive", "call", "end"}]
    /\ tcpCallback \in BOOLEAN /\ lastClient \in BOOLEAN /\ untidy \in BOOLEAN
    /\ tcpPc \in [TcpTasks -> {"ready", "create", "wait"}]

TcpStart ==
    /\ running = FALSE /\ listening = FALSE /\ serverTask = NoServer
    /\ servers = [s \in Servers |-> "none"]
    /\ tcpCallback = FALSE /\ lastClient = FALSE
    /\ tcpPc = [t \in TcpTasks |-> "ready"] /\ untidy = FALSE

Alive == {s \in Servers : servers[s] # "none"}
NoCall == \A t \in TcpTasks : tcpPc[t] = "ready"
ServerAt(s, place) == servers' = [servers EXCEPT ![s] = place]
TcpGoto(t, place) == tcpPc' = [tcpPc EXCEPT ![t] = place]

-----------------------------------------------------------------------------
(* The callers.                                                            *)

\* The socket is made, bound and put to listen (any of these may fail), s_running set.
OpenSocket(t) ==
    /\ tcpPc[t] = "ready" /\ ~running
    /\ untidy' = (untidy \/ ~NoCall)
    /\ \/ /\ listening' = TRUE /\ running' = TRUE /\ lastClient' = FALSE
          /\ TcpGoto(t, "create")
       \/ listening' = FALSE /\ UNCHANGED <<running, lastClient, tcpPc>>
    /\ UNCHANGED <<serverTask, servers, tcpCallback>>

\* The task is created, and its handle written before it runs; or that fails.
CreateServer(t) ==
    /\ tcpPc[t] = "create"
    /\ \/ \E s \in Servers : /\ servers[s] = "none"
                             /\ ServerAt(s, "loop") /\ serverTask' = s
                             /\ UNCHANGED <<running, listening>>
       \/ running' = FALSE /\ listening' = FALSE /\ UNCHANGED <<serverTask, servers>>
    /\ TcpGoto(t, "ready")
    /\ UNCHANGED <<tcpCallback, lastClient, untidy>>

TcpDeinit(t) ==
    /\ tcpPc[t] = "ready" /\ running
    /\ untidy' = (untidy \/ ~NoCall)
    /\ running' = FALSE /\ listening' = FALSE
    /\ TcpGoto(t, "wait")
    /\ UNCHANGED <<serverTask, servers, tcpCallback, lastClient>>

(* Mutant: the call does not wait for the task. *)
DeinitUnwaited(t) ==
    /\ tcpPc[t] = "wait"
    /\ tcpCallback' = FALSE
    /\ TcpGoto(t, "ready")
    /\ UNCHANGED <<running, listening, serverTask, servers, lastClient, untidy>>

\* After twenty looks at s_serverTask the wait is given up.
DeinitReturns(t) ==
    /\ tcpPc[t] = "wait"
    /\ untidy' = (untidy \/ serverTask # NoServer)
    /\ tcpCallback' = FALSE
    /\ TcpGoto(t, "ready")
    /\ UNCHANGED <<running, listening, serverTask, servers, lastClient>>

TcpSetCallback(t, registered) ==
    /\ tcpPc[t] = "ready"
    /\ tcpCallback' = registered
    /\ UNCHANGED <<running, listening, serverTask, servers, lastClient, tcpPc, untidy>>

\* What IOT_TcpSendData may answer: it connects to the last client's address.
SendAnswers == IF lastClient THEN {"IOT_OK", "IOT_ERR_FAIL"} ELSE {"IOT_ERR_FAIL"}

-----------------------------------------------------------------------------
(* tcpServerTask.                                                          *)

LoopTest(s) ==
    /\ servers[s] = "loop"
    /\ ServerAt(s, IF running THEN "accept" ELSE "end")
    /\ UNCHANGED <<running, listening, serverTask, tcpCallback, lastClient, tcpPc, untidy>>

\* A client comes, or accept fails, as it does once the socket is closed.
Accept(s) ==
    /\ servers[s] = "accept"
    /\ \/ listening /\ ServerAt(s, "serve") /\ lastClient' = TRUE
       \/ ServerAt(s, IF running THEN "loop" ELSE "end") /\ UNCHANGED lastClient
    /\ UNCHANGED <<running, listening, serverTask, tcpCallback, tcpPc, untidy>>

\* handleClientConnection: recv blocks until there is data or the client is gone.
Serve(s) ==
    /\ \/ servers[s] = "serve" /\ ServerAt(s, IF running THEN "receive" ELSE "loop")
       \/ servers[s] = "receive" /\ ServerAt(s, IF tcpCallback THEN "call" ELSE "serve")
       \/ servers[s] = "receive" /\ ServerAt(s, "loop")
       \/ servers[s] = "call" /\ ServerAt(s, "serve")
    /\ UNCHANGED <<running, listening, serverTask, tcpCallback, lastClient, tcpPc, untidy>>

\* Whoever s_serverTask is.
ServerEnds(s) ==
    /\ servers[s] = "end"
    /\ serverTask' = NoServer /\ ServerAt(s, "none")
    /\ UNCHANGED <<running, listening, tcpCallback, lastClient, tcpPc, untidy>>

TcpNext ==
    \/ \E t \in TcpTasks : \/ OpenSocket(t) \/ CreateServer(t) \/ TcpDeinit(t) \/ DeinitReturns(t)
                           \/ \E b \in BOOLEAN : TcpSetCallback(t, b)
    \/ \E s \in Servers : LoopTest(s) \/ Accept(s) \/ Serve(s) \/ ServerEnds(s)

TcpSpec == TcpStart /\ [][TcpNext]_tcpVars

-----------------------------------------------------------------------------
\* As long as Init and Deinit do not overlap and no Deinit gave up waiting, there
\* is at most one server task and s_serverTask is it; between calls it is there
\* exactly when the server runs, on an open socket, and nobody is called back
\* after a Deinit.  (Nothing but the wait keeps the task of one Init from seeing
\* the s_running and the socket of the next.)
OneServer ==
    ~untidy =>
        /\ \A s \in Alive : serverTask = s
        /\ NoCall => /\ running <=> Alive # {}
                     /\ listening <=> running
                     /\ \A s \in Alive : servers[s] # "end"
=============================================================================
