--------------------------- MODULE BluedroidPeers ---------------------------
(***************************************************************************)
(* IOT_BleMgmtBluedroid.c, connections: they come and go on the air, and    *)
(* Bluedroid (external) tells gatts_event_handler afterwards, in order.     *)
(* The driver keeps one handle of them.                                     *)
(***************************************************************************)
EXTENDS Naturals, Sequences

CONSTANTS
    Peers,          \* connection ids
    NoPeer,         \* 0xFFFF
    PeerEventRoom   \* bound: events still to be handled

VARIABLES
    peersUp,        \* the stack runs
    peers,          \* external: the connections
    peerEvents,     \* external: the events still to be handled
    conn            \* currConnectionHandle

peersVars == <<peersUp, peers, peerEvents, conn>>

PeersTypeOK ==
    /\ peersUp \in BOOLEAN /\ peers \subseteq Peers /\ conn \in Peers \cup {NoPeer}
    /\ peerEvents \in Seq([up : BOOLEAN, peer : Peers]) /\ Len(peerEvents) <= PeerEventRoom

PeersStart == peersUp = FALSE /\ peers = {} /\ peerEvents = <<>> /\ conn = NoPeer

PeersInit == ~peersUp /\ peersUp' = TRUE /\ UNCHANGED <<peers, peerEvents, conn>>

\* The stack ends before the handle is forgotten; no event comes after it.
PeersDeinit ==
    /\ peersUp /\ peersUp' = FALSE
    /\ peers' = {} /\ peerEvents' = <<>> /\ conn' = NoPeer

Tell(up, p) == Len(peerEvents) < PeerEventRoom /\ peerEvents' = Append(peerEvents, [up |-> up, peer |-> p])

\* external
PeerConnects(p) ==
    /\ peersUp /\ p \notin peers
    /\ peers' = peers \cup {p} /\ Tell(TRUE, p)
    /\ UNCHANGED <<peersUp, conn>>

\* external: by the peer, or by bluedroid_disconnect.
PeerEnds(p) ==
    /\ p \in peers
    /\ peers' = peers \ {p} /\ Tell(FALSE, p)
    /\ UNCHANGED <<peersUp, conn>>

\* ESP_GATTS_CONNECT_EVT.
ConnectTold ==
    /\ peerEvents # <<>> /\ Head(peerEvents).up
    /\ conn' = Head(peerEvents).peer /\ peerEvents' = Tail(peerEvents)
    /\ UNCHANGED <<peersUp, peers>>

\* ESP_GATTS_DISCONNECT_EVT: whichever it was, there is none; but first the callback has
\* run, to which everything still looks connected.
DisconnectTold ==
    /\ peerEvents # <<>> /\ ~Head(peerEvents).up
    /\ conn' = NoPeer /\ peerEvents' = Tail(peerEvents)
    /\ UNCHANGED <<peersUp, peers>>

\* What bluedroid_notifyToCharacteristic needs, and bluedroid_disconnect.
BdIsConnected == conn # NoPeer
CanNotify == peersUp /\ BdIsConnected

Disconnect == CanNotify /\ PeerEnds(conn)

PeersNext ==
    \/ PeersInit \/ PeersDeinit
    \/ \E p \in Peers : PeerConnects(p) \/ PeerEnds(p)
    \/ ConnectTold \/ DisconnectTold \/ Disconnect

PeersSpec == PeersStart /\ [][PeersNext]_peersVars

-----------------------------------------------------------------------------
\* A notification goes to a connection that is up, or to one whose end has still to be
\* handled, whichever of several came and went.
NotifiesPeer ==
    CanNotify =>
        \/ conn \in peers
        \/ \E i \in 1 .. Len(peerEvents) : peerEvents[i] = [up |-> FALSE, peer |-> conn]
=============================================================================
