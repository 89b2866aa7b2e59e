------------------------------ MODULE HubMqtt ------------------------------
(***************************************************************************)
(* Mqtt.cpp: the hub's MQTT client.  Threads add callbacks with the topic  *)
(* filter they want (addActionCallback); the task of esp-mqtt (external)   *)
(* subscribes to all of them when a session begins and dispatches what the *)
(* broker sends to the first callback whose filter matches.  The broker    *)
(* forgets the subscriptions with the session (it is clean).  Neither      *)
(* actionCallbacks nor connected has a lock.                               *)
(*                                                                         *)
(* A topic, or a filter, is the sequence of its levels.                    *)
(***************************************************************************)
EXTENDS Naturals, Sequences

CONSTANTS
    HubThreads,     \* threads that add callbacks
    Filters,        \* topic filters they may add
    Topics          \* topics that are published

VARIABLES
    link,           \* external: "down", "up", or "lost" (down, not noticed yet)
    subscribed,     \* external: the filters the broker has for the session
    actionCallbacks,\* the filters of the callbacks, in the order added
    connected,      \* what the client believes
    loop,           \* ResubcribeAllTopic: the callbacks left to subscribe, 0 when it is not running
    loopEnd,        \* where the iteration ends
    adding,         \* the filter each thread has pushed and not yet subscribed, NoFilter
    unheard         \* history: filters added inside the loop, or whose subscription failed

hubVars == <<link, subscribed, actionCallbacks, connected, loop, loopEnd, adding, unheard>>

NoFilter == <<>>

HubTypeOK ==
    /\ link \in {"down", "up", "lost"}
    /\ subscribed \subseteq Filters
    /\ actionCallbacks \in Seq(Filters)
    /\ connected \in BOOLEAN
    /\ loopEnd \in 0 .. Len(actionCallbacks)
    /\ loop \in 0 .. loopEnd + 1
    /\ adding \in [HubThreads -> Filters \cup {NoFilter}]
    /\ unheard \subseteq Filters

HubStart ==
    /\ link = "down" /\ subscribed = {} /\ actionCallbacks = <<>>
    /\ connected \in BOOLEAN      \* no constructor sets it
    /\ loop = 0 /\ loopEnd = 0
    /\ adding = [t \in HubThreads |-> NoFilter] /\ unheard = {}

-----------------------------------------------------------------------------
(* Topics.                                                                 *)

\* checkMqttTopic.
Matches(topic, filter) ==
    LET fits(j) == filter[j] \in {"+", topic[j]}
    IN \/ \E i \in 1 .. Len(topic) : /\ i <= Len(filter) /\ filter[i] = "#"
                                     /\ \A j \in 1 .. i - 1 : fits(j)
       \/ Len(topic) = Len(filter) /\ \A j \in 1 .. Len(topic) : fits(j)

\* The callback findActionCallbackFuncFromTopic finds: the first that matches, none is 0.
Found(topic) ==
    LET fit == {k \in 1 .. Len(actionCallbacks) : Matches(topic, actionCallbacks[k])}
    IN IF fit = {} THEN 0 ELSE CHOOSE k \in fit : \A l \in fit : k <= l

\* External: what the broker sends for a filter; 'a/#' includes 'a' itself.
BrokerSends(topic, filter) ==
    LET n == IF filter[Len(filter)] = "#" THEN Len(filter) - 1 ELSE Len(filter)
    IN /\ IF n < Len(filter) THEN Len(topic) >= n ELSE Len(topic) = n
       /\ \A j \in 1 .. n : filter[j] \in {"+", topic[j]}

-----------------------------------------------------------------------------
(* The session and its events, on the task of the client.                  *)

\* CONNECTED: on_connected begins to subscribe.
SessionBegins ==
    /\ link = "down" /\ loop = 0
    /\ link' = "up" /\ subscribed' = {}
    /\ loop' = 1 /\ loopEnd' = Len(actionCallbacks)
    /\ unheard' = {}
    /\ UNCHANGED <<actionCallbacks, connected, adding>>

\* Mqtt::Subscribe ignores whether it worked, and it does not without a link.
SubscribeTo(f) ==
    \/ /\ link = "up"
       /\ subscribed' = subscribed \cup {f} /\ UNCHANGED unheard
    \/ unheard' = unheard \cup {f} /\ UNCHANGED subscribed

Resubscribe ==
    /\ loop \in 1 .. loopEnd
    /\ SubscribeTo(actionCallbacks[loop])
    /\ loop' = loop + 1
    /\ UNCHANGED <<link, actionCallbacks, connected, loopEnd, adding>>

(* Mutant: the loop over the callbacks goes on past its end. *)
ConnectedUnended ==
    /\ loop = loopEnd + 1 /\ loop # 0
    /\ connected' = TRUE /\ loop' = loop + 1
    /\ UNCHANGED <<link, subscribed, actionCallbacks, loopEnd, adding, unheard>>

\* The end of on_connected.
ConnectedSet ==
    /\ loop = loopEnd + 1 /\ loop # 0
    /\ connected' = TRUE /\ loop' = 0 /\ loopEnd' = 0
    /\ UNCHANGED <<link, subscribed, actionCallbacks, adding, unheard>>

LinkLost ==
    /\ link = "up"
    /\ link' = "lost" /\ subscribed' = {}
    /\ UNCHANGED <<actionCallbacks, connected, loop, loopEnd, adding, unheard>>

\* DISCONNECTED: on_disconnected.
LossNoticed ==
    /\ link = "lost" /\ loop = 0
    /\ link' = "down" /\ connected' = FALSE
    /\ UNCHANGED <<subscribed, actionCallbacks, loop, loopEnd, adding, unheard>>

-----------------------------------------------------------------------------
(* addActionCallback: one of four, which differ in the callback's type.    *)

\* In the loop, the iteration may or may not see it, and push_back may move what it iterates.
PushCallback(t, f) ==
    /\ adding[t] = NoFilter /\ f \notin {actionCallbacks[k] : k \in 1 .. Len(actionCallbacks)}
    /\ actionCallbacks' = Append(actionCallbacks, f)
    /\ adding' = [adding EXCEPT ![t] = f]
    /\ unheard' = IF loop = 0 THEN unheard ELSE unheard \cup {f}
    /\ UNCHANGED <<link, subscribed, connected, loop, loopEnd>>

(* Mutant: the next session subscribes to the new callback. *)
SubscribeLater(t) ==
    /\ adding[t] # NoFilter
    /\ adding' = [adding EXCEPT ![t] = NoFilter]
    /\ UNCHANGED <<link, subscribed, actionCallbacks, connected, loop, loopEnd, unheard>>

\* Its second half reads connected, which may be stale by then.
SubscribeNew(t) ==
    /\ adding[t] # NoFilter
    /\ IF connected THEN SubscribeTo(adding[t]) ELSE UNCHANGED <<subscribed, unheard>>
    /\ adding' = [adding EXCEPT ![t] = NoFilter]
    /\ UNCHANGED <<link, actionCallbacks, connected, loop, loopEnd>>

HubNext ==
    \/ SessionBegins \/ Resubscribe \/ ConnectedSet \/ LinkLost \/ LossNoticed
    \/ \E t \in HubThreads : SubscribeNew(t) \/ \E f \in Filters : PushCallback(t, f)

HubSpec == HubStart /\ [][HubNext]_hubVars

-----------------------------------------------------------------------------
\* While the session is up and no thread is inside addActionCallback, whoever
\* registered a filter hears what is published under it: the broker has the
\* filter, however often the session was lost and made again and whenever the
\* callback was added, and what it sends for the filter reaches a callback that
\* matches.  Except for a callback added while on_connected was subscribing, a
\* subscription that failed (nothing tries again before the next session), and the
\* parent level of a filter that ends in '#', which checkMqttTopic refuses.
RegisteredIsHeard ==
    link = "up" /\ loop = 0 /\ (\A t \in HubThreads : adding[t] = NoFilter) =>
        \A k \in 1 .. Len(actionCallbacks) :
            LET f == actionCallbacks[k]
            IN f \notin unheard =>
                /\ f \in subscribed
                /\ \A topic \in Topics :
                      BrokerSends(topic, f) /\ Len(topic) + 1 # Len(f) => Found(topic) \in 1 .. k
=============================================================================
