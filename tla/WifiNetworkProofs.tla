-------------------------- MODULE WifiNetworkProofs --------------------------
(***************************************************************************)
(* Theorems about WifiNetwork (wifi.c, IOT_NetworkMgmt.c), for any tasks,  *)
(* callbacks, slots and events that wait.  Most steps only move the link:   *)
(* LinkMove says what the driver posts when it does, and what that keeps is *)
(* proved once; the steps of the handler and of the tables follow one by    *)
(* one.                                                                     *)
(***************************************************************************)
EXTENDS WifiNetwork, TLAPS

(* Words about the link that callbacks are told, and what each asserts. *)
Words == {"GOT_IP", "DISCONNECTED"}
Other(w) == IF w = "GOT_IP" THEN "DISCONNECTED" ELSE "GOT_IP"
Holds(w) == (w = "GOT_IP") <=> (driver = "up")

(* The word holds, or the other one is among the events from position k on. *)
Settled(w, k) == Holds(w) \/ \E j \in k .. Len(events) : events[j] = Other(w)

(* Callback c is still to be told the word by the handler that is firing it. *)
ToBeTold(c, w) ==
  firing.event = w /\ \E i \in firing.slot .. SlotCount : nwkCbs[ToldAs(w)][i] = c

StatusOf(d) ==
  IF d = "up" THEN "GOT_IP" ELSE IF d = "noip" THEN "CONNECTED_NO_IP" ELSE "DISCONNECTED"

(* The last event, or without one the status, is what the driver is. *)
LastWordHolds ==
  StatusOf(driver) = IF events = <<>> THEN status ELSE StatusAfter(events[Len(events)])

(* A word that has been posted holds until the other one is posted. *)
PostedSettled ==
  \A w \in Words :
    /\ \A k \in 1 .. Len(events) : events[k] = w => Settled(w, k + 1)
    /\ firing.event = w => Settled(w, 1)

(* What a callback was told holds, or the other word is on its way to it. *)
ToldSettled ==
  \A w \in Words : \A c \in Callbacks :
    told[c] = ToldAs(w) /\ Registered(c, ToldAs(Other(w))) =>
      Settled(w, 1) \/ ToBeTold(c, Other(w))

(* Nobody is told of a link without an address. *)
ConnectedUntold == firing.event = "CONNECTED" => firing.slot = SlotCount + 1

(* The slot of a callback that was found and is not called yet holds it, is  *)
(* empty, or holds one registered since.                                    *)
FoundStays ==
  firing.cb # None =>
    /\ firing.event # "CONNECTED"
    /\ nwkCbs # NoTable => \/ InSlot \in {firing.cb, None}
                           \/ told[InSlot] = "nothing"

(* A driver that is there was started by the call that registers the handlers. *)
HandlersStay == driver # "off" => handlers

WordsKept == LastWordHolds /\ PostedSettled /\ ToldSettled /\ ConnectedUntold /\ FoundStays

WInv == TypeOK /\ HandlersStay /\ WordsKept

-----------------------------------------------------------------------------
(* Type correctness *)

USE NetworkAssumption

LEMMA InitTyped ==
  ASSUME Init
  PROVE  TypeOK
<1>1. events \in Seq(Link) /\ Len(events) <= EventRoom
  BY DEF Init
<1>2. pc \in [Tasks -> Places] /\ firing.cb = None /\ told \in [Callbacks -> NwkEvents \cup {"nothing"}]
  BY DEF Init, Places, NoFiring
<1> QED
  BY <1>1, <1>2 DEF Init, TypeOK

LEMMA RestartTyped ==
  ASSUME Restart
  PROVE  TypeOK'
<1>1. events' \in Seq(Link) /\ Len(events') <= EventRoom
  BY DEF Restart
<1>2. pc' \in [Tasks -> Places] /\ firing'.cb = None /\ told' \in [Callbacks -> NwkEvents \cup {"nothing"}]
  BY DEF Restart, Places, NoFiring
<1> QED
  BY <1>1, <1>2 DEF Restart, TypeOK

LEMMA PostTyped ==
  ASSUME TypeOK, NEW e \in Link, HasRoom, Post(e)
  PROVE  events' \in Seq(Link) /\ Len(events') <= EventRoom
  BY DEF TypeOK, HasRoom, Post

LEMMA LeaveTyped ==
  ASSUME TypeOK, NEW d \in {"off", "stopped", "idle"}, Leave(d)
  PROVE  /\ driver' \in {"off", "stopped", "idle", "connecting", "noip", "up"}
         /\ events' \in Seq(Link) /\ Len(events') <= EventRoom
<1>1. driver' \in {"off", "stopped", "idle", "connecting", "noip", "up"}
  BY DEF Leave
<1>2. CASE driver \in Trying
  BY <1>1, <1>2, PostTyped DEF Leave, Link
<1>3. CASE driver \notin Trying
  BY <1>1, <1>3 DEF Leave, TypeOK
<1> QED
  BY <1>2, <1>3

LEMMA SlotTyped ==
  ASSUME TypeOK, nwkCbs # NoTable, NEW e \in NwkEvents, NEW i \in Slots,
         NEW c \in Callbacks \cup {None},
         nwkCbs' = [nwkCbs EXCEPT ![e][i] = c]
  PROVE  nwkCbs' \in [NwkEvents -> [Slots -> Callbacks \cup {None}]]
<1>1. nwkCbs \in [NwkEvents -> [Slots -> Callbacks \cup {None}]]
  BY DEF TypeOK
<1>2. [nwkCbs[e] EXCEPT ![i] = c] \in [Slots -> Callbacks \cup {None}]
  BY <1>1
<1> QED
  BY <1>1, <1>2

LEMMA TypeStep ==
  ASSUME TypeOK, [Next]_vars
  PROVE  TypeOK'
<1>1. CASE LinkChanges
  <2>1. driver' \in {"off", "stopped", "idle", "connecting", "noip", "up"}
    BY <1>1 DEF LinkChanges, TypeOK
  <2>2. events' \in Seq(Link) /\ Len(events') <= EventRoom
    BY <1>1, PostTyped DEF LinkChanges, Link
  <2> QED
    BY <1>1, <2>1, <2>2 DEF LinkChanges, TypeOK
<1>2. CASE HandleEvent
  <2>1. CASE Restart
    BY <2>1, RestartTyped
  <2>2. CASE wifiCbs # "null"
    <3>1. Head(events) \in Link /\ Tail(events) \in Seq(Link) /\ Len(Tail(events)) <= EventRoom
      BY <1>2 DEF HandleEvent, TypeOK
    <3>2. StatusAfter(Head(events)) \in {"DISCONNECTED", "CONNECTED_NO_IP", "GOT_IP"}
      BY <3>1 DEF StatusAfter, Link
    <3>3. firing' \in [event : Link, slot : 1 .. SlotCount + 1, cb : Callbacks \cup {None}]
          /\ (firing'.cb # None => firing'.slot <= SlotCount)
      <4>1. firing' = [event |-> Head(events),
                       slot |-> IF Head(events) = "CONNECTED" THEN SlotCount + 1 ELSE 1, cb |-> None]
        BY <1>2, <2>2 DEF HandleEvent
      <4> QED
        BY <3>1, <4>1
    <3>4. /\ events' = Tail(events) /\ status' = StatusAfter(Head(events))
          /\ UNCHANGED <<driver, handlers, wifiCbs, nwkCbs, autoReconnect, pc, told, wanted>>
      BY <1>2, <2>2 DEF HandleEvent
    <3> QED
      BY <3>1, <3>2, <3>3, <3>4 DEF TypeOK
  <2> QED
    BY <1>2, <2>1, <2>2 DEF HandleEvent
<1>3. CASE CheckSlot
  <2>1. CASE Restart
    BY <2>1, RestartTyped
  <2>2. CASE ~Restart
    <3>1. PICK c \in Callbacks \cup {None} :
            firing' = IF c = None THEN [firing EXCEPT !.slot = @ + 1] ELSE [firing EXCEPT !.cb = c]
      BY <1>3, <2>2 DEF CheckSlot
    <3>2. firing \in [event : Link, slot : 1 .. SlotCount + 1, cb : Callbacks \cup {None}]
          /\ firing.slot <= SlotCount
      BY <1>3 DEF CheckSlot, TypeOK
    <3>3. firing' \in [event : Link, slot : 1 .. SlotCount + 1, cb : Callbacks \cup {None}]
          /\ (firing'.cb # None => firing'.slot <= SlotCount)
      <4>1. CASE c = None
        BY <1>3, <3>1, <3>2, <4>1 DEF CheckSlot
      <4>2. CASE c # None
        BY <3>1, <3>2, <4>2
      <4> QED
        BY <4>1, <4>2
    <3>4. UNCHANGED <<driver, events, handlers, wifiCbs, nwkCbs, status, autoReconnect, pc, told, wanted>>
      BY <1>3, <2>2 DEF CheckSlot
    <3> QED
      BY <3>3, <3>4 DEF TypeOK
  <2> QED
    BY <2>1, <2>2
<1>4. CASE FireSlot
  <2>1. CASE Restart
    BY <2>1, RestartTyped
  <2>2. CASE ~Restart
    <3>1. firing \in [event : Link, slot : 1 .. SlotCount + 1, cb : Callbacks \cup {None}]
          /\ firing.slot <= SlotCount
      BY <1>4 DEF FireSlot, TypeOK, NoFiring
    <3>2. firing' \in [event : Link, slot : 1 .. SlotCount + 1, cb : Callbacks \cup {None}]
          /\ (firing'.cb # None => firing'.slot <= SlotCount)
      <4>1. firing' = [firing EXCEPT !.slot = @ + 1, !.cb = None]
        BY <1>4, <2>2 DEF FireSlot
      <4>2. firing.slot + 1 \in 1 .. SlotCount + 1
        BY <3>1
      <4> QED
        BY <3>1, <4>1, <4>2
    <3>3. ToldAs(firing.event) \in NwkEvents
      BY <3>1 DEF Link, NwkEvents, ToldAs
    <3>4. PICK c \in Callbacks : told' = [told EXCEPT ![c] = ToldAs(firing.event)]
      BY <1>4, <2>2 DEF FireSlot
    <3>5. told' \in [Callbacks -> NwkEvents \cup {"nothing"}]
      BY <3>3, <3>4 DEF TypeOK
    <3>6. UNCHANGED <<driver, events, handlers, wifiCbs, nwkCbs, status, autoReconnect, pc, wanted>>
      BY <1>4, <2>2 DEF FireSlot
    <3> QED
      BY <3>2, <3>5, <3>6 DEF TypeOK
  <2> QED
    BY <2>1, <2>2
<1>5. CASE Reconnect
  BY <1>5 DEF Reconnect, Connecting, TypeOK, NoFiring
<1>6. ASSUME NEW t \in Tasks, Call(t)
      PROVE  TypeOK'
  <2>1. CASE NwkInit(t)
    <3>1. CASE Restart
      BY <3>1, RestartTyped
    <3>2. CASE driver = "off" /\ ~handlers
      <4>1. Empty \in [NwkEvents -> [Slots -> Callbacks \cup {None}]]
        BY DEF Empty
      <4> QED
        BY <2>1, <3>2, <4>1 DEF NwkInit, WifiInit, WifiRegister, TypeOK
    <3> QED
      BY <2>1, <3>1, <3>2 DEF NwkInit
  <2>2. CASE NwkDeinit(t)
    <3>1. CASE Restart
      BY <3>1, RestartTyped
    <3>2. CASE Leave("stopped")
      BY <2>2, <3>1, <3>2, LeaveTyped DEF NwkDeinit, TypeOK, Places
    <3> QED
      BY <2>2, <3>1, <3>2 DEF NwkDeinit
  <2>3. CASE DeinitEnds(t)
    BY <2>3 DEF DeinitEnds, TypeOK, Places
  <2>4. CASE StartConnect(t)
    BY <2>4 DEF StartConnect, Goto, TypeOK, Places
  <2>5. CASE DriverCall(t)
    <3>1. /\ driver' \in {"off", "stopped", "idle", "connecting", "noip", "up"}
          /\ events' \in Seq(Link) /\ Len(events') <= EventRoom
      <4>1. CASE Leave("idle")
        BY <4>1, LeaveTyped
      <4>2. CASE Leave("stopped")
        BY <4>2, LeaveTyped
      <4>3. CASE ~Leave("idle") /\ ~Leave("stopped")
        BY <2>5, <4>3 DEF DriverCall, Connecting, TypeOK
      <4> QED
        BY <4>1, <4>2, <4>3
    <3>2. pc' \in [Tasks -> Places] /\ wanted' \in BOOLEAN
      BY <2>5 DEF DriverCall, Goto, Return, Places, TypeOK
    <3> QED
      BY <2>5, <3>1, <3>2 DEF DriverCall, TypeOK
  <2>6. CASE DriverCallFails(t)
    BY <2>6 DEF DriverCallFails, Return, Goto, TypeOK, Places
  <2>7. CASE Resume(t)
    BY <2>7 DEF Resume, Goto, TypeOK, Places
  <2>8. CASE StartDisconnect(t)
    BY <2>8 DEF StartDisconnect, Goto, TypeOK, Places
  <2>9. CASE DisconnectEnds(t)
    <3>1. /\ driver' \in {"off", "stopped", "idle", "connecting", "noip", "up"}
          /\ events' \in Seq(Link) /\ Len(events') <= EventRoom
      BY <2>9, LeaveTyped DEF DisconnectEnds, TypeOK
    <3> QED
      BY <2>9, <3>1 DEF DisconnectEnds, Return, Goto, TypeOK, Places
  <2>10. CASE ScanAborts(t)
    BY <2>10, RestartTyped DEF ScanAborts
  <2>11. ASSUME NEW b \in BOOLEAN, SetAutoReconnect(t, b)
         PROVE  TypeOK'
    BY <2>11 DEF SetAutoReconnect, TypeOK
  <2>12. ASSUME NEW c \in Callbacks, NEW e \in NwkEvents, Register(t, c, e)
         PROVE  TypeOK'
    <3>1. PICK i \in Slots : nwkCbs' = [nwkCbs EXCEPT ![e][i] = c]
      BY <2>12 DEF Register
    <3>2. nwkCbs' \in [NwkEvents -> [Slots -> Callbacks \cup {None}]]
      BY <2>12, <3>1, SlotTyped DEF Register
    <3> QED
      BY <2>12, <3>2 DEF Register, TypeOK
  <2>13. ASSUME NEW c \in Callbacks, NEW e \in NwkEvents, Unregister(t, c, e)
         PROVE  TypeOK'
    <3>1. PICK i \in Slots : nwkCbs' = [nwkCbs EXCEPT ![e][i] = None]
      BY <2>13 DEF Unregister
    <3>2. nwkCbs' \in [NwkEvents -> [Slots -> Callbacks \cup {None}]]
      BY <2>13, <3>1, SlotTyped DEF Unregister
    <3> QED
      BY <2>13, <3>2 DEF Unregister, TypeOK
  <2>14. CASE DriverDeinit(t)
    <3>1. CASE Restart
      BY <3>1, RestartTyped
    <3>2. CASE ~Restart
      BY <2>14, <3>2 DEF DriverDeinit, TypeOK, Places
    <3> QED
      BY <3>1, <3>2
  <2>15. CASE FreeCallbacks(t)
    BY <2>15 DEF FreeCallbacks, TypeOK, Places
  <2> QED
    BY <1>6, <2>1, <2>2, <2>3, <2>4, <2>5, <2>6, <2>7, <2>8, <2>9, <2>10, <2>11, <2>12, <2>13, <2>14, <2>15 DEF Call
<1>7. CASE UNCHANGED vars
  BY <1>7 DEF vars, TypeOK
<1> QED
  BY <1>1, <1>2, <1>3, <1>4, <1>5, <1>6, <1>7 DEF Next

(* Every variable of wifi.c and IOT_NetworkMgmt.c keeps its type, whatever *)
(* panics and restarts there are, and no more events wait than there is    *)
(* room for.                                                               *)
THEOREM NetworkTypeCorrect == Spec => []TypeOK
  BY InitTyped, TypeStep, PTL DEF Spec

-----------------------------------------------------------------------------
(* What moving the link keeps *)

(* What the driver posts when it moves, or it moves between two states of   *)
(* the same status and posts nothing.                                       *)
LinkMove ==
  \/ events' = events /\ StatusOf(driver') = StatusOf(driver)
  \/ \E e \in Link : /\ Post(e)
                     /\ StatusOf(driver') = StatusAfter(e)
                     /\ e = "CONNECTED" => driver # "up"

(* Nothing else is touched that the invariant speaks of. *)
Quiet == LinkMove /\ UNCHANGED <<status, firing, nwkCbs, told>>

LEMMA SettledStays ==
  ASSUME TypeOK, LinkMove, NEW w \in Words, NEW k \in 1 .. Len(events) + 1, Settled(w, k)
  PROVE  Settled(w, k)'
<1>1. CASE events' = events /\ StatusOf(driver') = StatusOf(driver)
  BY <1>1 DEF Settled, Holds, StatusOf
<1>2. ASSUME NEW e \in Link, Post(e), StatusOf(driver') = StatusAfter(e),
             e = "CONNECTED" => driver # "up"
      PROVE  Settled(w, k)'
  <2>1. /\ Len(events') = Len(events) + 1
        /\ \A j \in 1 .. Len(events) : events'[j] = events[j]
        /\ Len(events) \in Nat
    BY <1>2 DEF Post, TypeOK
  <2>2. CASE \E j \in k .. Len(events) : events[j] = Other(w)
    BY <2>1, <2>2 DEF Settled
  <2>3. CASE Holds(w) /\ ~Holds(w)'
    <3>1. e = Other(w)
      BY <1>2, <2>3 DEF Holds, StatusOf, StatusAfter, Words, Other, Link
    <3> QED
      BY <1>2, <2>1, <3>1 DEF Settled, Post, TypeOK
  <2> QED
    BY <2>2, <2>3 DEF Settled
<1> QED
  BY <1>1, <1>2 DEF LinkMove

LEMMA LastWordStays ==
  ASSUME TypeOK, LastWordHolds, LinkMove, status' = status
  PROVE  LastWordHolds'
<1>1. CASE events' = events /\ StatusOf(driver') = StatusOf(driver)
  BY <1>1 DEF LastWordHolds
<1>2. ASSUME NEW e \in Link, Post(e), StatusOf(driver') = StatusAfter(e)
      PROVE  LastWordHolds'
  <2>1. events' # <<>> /\ events'[Len(events')] = e
    BY <1>2 DEF Post, TypeOK
  <2> QED
    BY <1>2, <2>1 DEF LastWordHolds
<1> QED
  BY <1>1, <1>2 DEF LinkMove

LEMMA PostedStays ==
  ASSUME TypeOK, PostedSettled, LinkMove, firing' = firing
  PROVE  PostedSettled'
<1> SUFFICES ASSUME NEW w \in Words
             PROVE  /\ \A k \in 1 .. Len(events') : events'[k] = w => Settled(w, k + 1)'
                    /\ firing'.event = w => Settled(w, 1)'
  BY DEF PostedSettled
<1>1. ASSUME firing'.event = w
      PROVE  Settled(w, 1)'
  BY <1>1, SettledStays DEF PostedSettled, TypeOK
<1>2. ASSUME NEW k \in 1 .. Len(events'), events'[k] = w
      PROVE  Settled(w, k + 1)'
  <2>1. CASE k \in 1 .. Len(events) /\ events[k] = w
    BY <2>1, SettledStays DEF PostedSettled, TypeOK
  <2>2. CASE ~(k \in 1 .. Len(events) /\ events[k] = w)
    <3>1. PICK e \in Link : Post(e) /\ StatusOf(driver') = StatusAfter(e)
      BY <1>2, <2>2 DEF LinkMove
    <3>2. e = w
      BY <1>2, <2>2, <3>1 DEF Post, TypeOK
    <3> QED
      BY <3>1, <3>2 DEF Settled, Holds, StatusOf, StatusAfter, Words, Link
  <2> QED
    BY <2>1, <2>2
<1> QED
  BY <1>1, <1>2

(* A callback whose registrations are as they were. *)
LEMMA ToldStays ==
  ASSUME TypeOK, ToldSettled, LinkMove, NEW w \in Words, NEW c \in Callbacks,
         told'[c] = told[c], told[c] = ToldAs(w),
         Registered(c, ToldAs(Other(w))),
         ToBeTold(c, Other(w)) => Settled(w, 1)' \/ ToBeTold(c, Other(w))'
  PROVE  Settled(w, 1)' \/ ToBeTold(c, Other(w))'
<1>1. Settled(w, 1) \/ ToBeTold(c, Other(w))
  BY DEF ToldSettled
<1>2. Settled(w, 1) => Settled(w, 1)'
  BY SettledStays DEF TypeOK
<1> QED
  BY <1>1, <1>2

LEMMA QuietStep ==
  ASSUME WInv, Quiet
  PROVE  WordsKept'
<1>1. LastWordHolds' /\ PostedSettled'
  BY LastWordStays, PostedStays DEF WordsKept, WInv, Quiet
<1>2. ToldSettled'
  BY ToldStays DEF WordsKept, WInv, Quiet, ToldSettled, ToBeTold, Registered
<1>3. ConnectedUntold' /\ FoundStays'
  BY DEF WordsKept, WInv, Quiet, ConnectedUntold, FoundStays, InSlot
<1> QED
  BY <1>1, <1>2, <1>3 DEF WordsKept

LEMMA LeaveMoves ==
  ASSUME TypeOK, NEW d \in {"off", "stopped", "idle"}, Leave(d)
  PROVE  LinkMove
<1>1. CASE driver \in Trying
  BY <1>1 DEF Leave, LinkMove, StatusOf, StatusAfter, Link
<1>2. CASE driver \notin Trying
  BY <1>2 DEF Leave, LinkMove, StatusOf, Trying
<1> QED
  BY <1>1, <1>2

LEMMA StillMoves ==
  ASSUME UNCHANGED <<driver, events>>
  PROVE  LinkMove
  BY DEF LinkMove

-----------------------------------------------------------------------------
(* The steps of the invariant, one by one *)

LEMMA RestartStep ==
  ASSUME Restart
  PROVE  WordsKept'
<1>1. LastWordHolds'
  BY DEF Restart, LastWordHolds, StatusOf
<1>2. PostedSettled'
  BY DEF Restart, PostedSettled, Words, NoFiring
<1>3. ToldSettled'
  BY DEF Restart, ToldSettled, Words, ToldAs
<1>4. ConnectedUntold' /\ FoundStays'
  BY DEF Restart, ConnectedUntold, FoundStays, NoFiring
<1> QED
  BY <1>1, <1>2, <1>3, <1>4 DEF WordsKept

LEMMA HandleStep ==
  ASSUME WInv, HandleEvent, ~Restart
  PROVE  WordsKept'
<1> DEFINE head == Head(events)
<1>1. /\ events # <<>> /\ events \in Seq(Link) /\ firing = NoFiring
      /\ events' = Tail(events) /\ driver' = driver /\ nwkCbs' = nwkCbs /\ told' = told
      /\ status' = StatusAfter(head)
      /\ firing' = [event |-> head, slot |-> IF head = "CONNECTED" THEN SlotCount + 1 ELSE 1,
                     cb |-> None]
  BY DEF WordsKept, HandleEvent, WInv, TypeOK
<1>2. /\ Len(events) \in Nat \ {0} /\ head = events[1] /\ head \in Link
      /\ Len(events') = Len(events) - 1
      /\ \A j \in 1 .. Len(events') : events'[j] = events[j + 1]
  BY <1>1
<1>3. /\ firing'.event = head
      /\ firing'.slot = IF head = "CONNECTED" THEN SlotCount + 1 ELSE 1
      /\ firing'.cb = None
  BY <1>1
<1>4. \A w \in Words : \A k \in 1 .. Len(events) : Settled(w, k + 1) => Settled(w, k)'
  <2> SUFFICES ASSUME NEW w \in Words, NEW k \in 1 .. Len(events), Settled(w, k + 1)
               PROVE  Settled(w, k)'
    OBVIOUS
  <2>1. CASE Holds(w)
    BY <1>1, <1>2, <1>3, <2>1 DEF Settled, Holds
  <2>2. CASE \E j \in k + 1 .. Len(events) : events[j] = Other(w)
    <3>1. PICK j \in k + 1 .. Len(events) : events[j] = Other(w)
      BY <2>2
    <3>2. j - 1 \in k .. Len(events') /\ events'[j - 1] = Other(w)
      BY <1>1, <1>2, <1>3, <3>1
    <3> QED
      BY <3>2 DEF Settled
  <2> QED
    BY <2>1, <2>2 DEF Settled
<1>5. LastWordHolds'
  <2>1. CASE events' = <<>>
    <3>1. Len(events) = 1
      BY <1>2, <2>1
    <3> QED
      BY <1>1, <1>2, <1>3, <2>1, <3>1 DEF WordsKept, WInv, LastWordHolds
  <2>2. CASE events' # <<>>
    <3>1. Len(events') # 0
      BY <1>1, <1>2, <1>3, <2>2 DEF HandleEvent
    <3>2. events'[Len(events')] = events[Len(events)]
      BY <1>1, <1>2, <1>3, <3>1
    <3> QED
      BY <1>1, <1>2, <1>3, <2>2, <3>2 DEF WordsKept, WInv, LastWordHolds
  <2> QED
    BY <2>1, <2>2
<1>6. PostedSettled'
  <2> SUFFICES ASSUME NEW w \in Words
               PROVE  /\ \A k \in 1 .. Len(events') : events'[k] = w => Settled(w, k + 1)'
                      /\ firing'.event = w => Settled(w, 1)'
    BY DEF PostedSettled
  <2>1. ASSUME NEW k \in 1 .. Len(events'), events'[k] = w
        PROVE  Settled(w, k + 1)'
    <3>1. k + 1 \in 1 .. Len(events) /\ events[k + 1] = w
      BY <1>1, <1>2, <1>3, <2>1
    <3>2. Settled(w, (k + 1) + 1)
      BY <3>1 DEF WordsKept, WInv, PostedSettled
    <3> QED
      BY <1>4, <3>1, <3>2
  <2>2. ASSUME firing'.event = w
        PROVE  Settled(w, 1)'
    <3>1. 1 \in 1 .. Len(events) /\ events[1] = w
      BY <1>1, <1>2, <1>3, <2>2
    <3>2. Settled(w, 1 + 1)
      BY <3>1 DEF WordsKept, WInv, PostedSettled
    <3> QED
      BY <1>4, <3>1, <3>2
  <2> QED
    BY <2>1, <2>2
<1>7. ToldSettled'
  <2> SUFFICES ASSUME NEW w \in Words, NEW c \in Callbacks, told[c] = ToldAs(w),
                      Registered(c, ToldAs(Other(w)))
               PROVE  Settled(w, 1)' \/ ToBeTold(c, Other(w))'
    BY <1>1, <1>2, <1>3 DEF ToldSettled, Registered
  <2>1. Settled(w, 1)
    <3>1. ~ToBeTold(c, Other(w))
      BY <1>1, <1>2, <1>3 DEF ToBeTold, NoFiring, Other
    <3> QED
      BY <3>1 DEF WordsKept, WInv, ToldSettled
  <2>2. CASE head = Other(w)
    <3>1. firing'.slot = 1
      BY <1>1, <1>2, <1>3, <2>2 DEF Other, Words
    <3> QED
      BY <1>1, <1>2, <1>3, <2>2, <3>1 DEF ToBeTold, Registered, Slots
  <2>3. CASE head # Other(w)
    <3>1. Settled(w, 1 + 1)
      BY <1>1, <1>2, <1>3, <2>1, <2>3 DEF Settled
    <3> QED
      BY <1>1, <1>2, <1>3, <1>4, <3>1
  <2> QED
    BY <2>2, <2>3
<1>8. ConnectedUntold' /\ FoundStays'
  BY <1>1, <1>2, <1>3 DEF ConnectedUntold, FoundStays
<1> QED
  BY <1>5, <1>6, <1>7, <1>8 DEF WordsKept

(* The handler goes on with an event it has begun, to a slot further on or   *)
(* with the callback of the slot it is at.                                   *)
LEMMA WalkStep ==
  ASSUME WInv, UNCHANGED <<driver, events, nwkCbs, status>>,
         firing.event \in Link, firing'.event = firing.event,
         firing.event = "CONNECTED" => firing'.slot = SlotCount + 1
  PROVE  /\ LastWordHolds' /\ PostedSettled' /\ ConnectedUntold'
         /\ \A w \in Words : Settled(w, 1) => Settled(w, 1)'
<1>1. LinkMove
  BY StillMoves
<1>2. LastWordHolds'
  BY <1>1, LastWordStays DEF WInv, WordsKept
<1>3. \A w \in Words, k \in 1 .. Len(events) + 1 : Settled(w, k) => Settled(w, k)'
  BY DEF Settled, Holds
<1>4. PostedSettled'
  BY <1>3 DEF WInv, WordsKept, TypeOK, PostedSettled, Settled, Holds
<1>5. ConnectedUntold'
  BY DEF ConnectedUntold
<1> QED
  BY <1>2, <1>3, <1>4, <1>5 DEF WordsKept, WInv, TypeOK

LEMMA CheckStep ==
  ASSUME WInv, CheckSlot, ~Restart
  PROVE  WordsKept'
<1>1. /\ UNCHANGED <<driver, events, nwkCbs, status, told>>
      /\ firing \in [event : Link, slot : 1 .. SlotCount + 1, cb : Callbacks \cup {None}]
      /\ firing.cb = None /\ firing.slot \in Slots
  BY DEF WordsKept, CheckSlot, WInv, TypeOK, Slots
<1>2. PICK c \in Callbacks \cup {None} :
        /\ nwkCbs # NoTable => c = InSlot
        /\ firing' = IF c = None THEN [firing EXCEPT !.slot = @ + 1] ELSE [firing EXCEPT !.cb = c]
  BY DEF CheckSlot
<1>3. /\ firing'.event = firing.event /\ firing.event # "CONNECTED"
      /\ c = None => firing'.slot = firing.slot + 1 /\ firing'.cb = None
      /\ c # None => firing'.slot = firing.slot /\ firing'.cb = c
  BY <1>1, <1>2 DEF WInv, WordsKept, ConnectedUntold, Slots
<1>4. LastWordHolds' /\ PostedSettled' /\ ConnectedUntold'
  BY <1>1, <1>3, WalkStep
<1>5. ToldSettled'
  <2> SUFFICES ASSUME NEW w \in Words, NEW d \in Callbacks, told[d] = ToldAs(w),
                      Registered(d, ToldAs(Other(w)))
               PROVE  Settled(w, 1)' \/ ToBeTold(d, Other(w))'
    BY <1>1 DEF ToldSettled, Registered
  <2>1. nwkCbs # NoTable /\ d # None
    BY DEF Registered
  <2>2. ToBeTold(d, Other(w)) => ToBeTold(d, Other(w))'
    BY <1>1, <1>2, <1>3, <2>1 DEF ToBeTold, InSlot, Slots
  <2> QED
    BY <1>1, <2>2, StillMoves, ToldStays DEF WInv, WordsKept
<1>6. FoundStays'
  BY <1>1, <1>2, <1>3 DEF FoundStays, InSlot
<1> QED
  BY <1>4, <1>5, <1>6 DEF WordsKept

LEMMA FireStep ==
  ASSUME WInv, FireSlot, ~Restart
  PROVE  WordsKept'
<1> DEFINE f == firing.event
<1>1. /\ UNCHANGED <<driver, events, nwkCbs, status>>
      /\ firing \in [event : Link, slot : 1 .. SlotCount + 1, cb : Callbacks \cup {None}]
      /\ firing.cb # None /\ firing.slot \in Slots
  BY DEF WordsKept, FireSlot, WInv, TypeOK, NoFiring, Slots
<1>2. firing'.event = f /\ firing'.slot = firing.slot + 1 /\ firing'.cb = None /\ f \in Words
  BY <1>1 DEF FireSlot, WInv, WordsKept, FoundStays, Words, Link
<1>3. PICK d \in Callbacks : /\ nwkCbs # NoTable => d \in {firing.cb, InSlot}
                             /\ told' = [told EXCEPT ![d] = ToldAs(f)]
  BY DEF FireSlot
<1>4. /\ LastWordHolds' /\ PostedSettled' /\ ConnectedUntold'
      /\ \A w \in Words : Settled(w, 1) => Settled(w, 1)'
  BY <1>1, <1>2, WalkStep DEF Words
<1>5. ToldSettled'
  <2> SUFFICES ASSUME NEW w \in Words, NEW c \in Callbacks, told'[c] = ToldAs(w),
                      Registered(c, ToldAs(Other(w)))
               PROVE  Settled(w, 1)' \/ ToBeTold(c, Other(w))'
    BY <1>1 DEF ToldSettled, Registered
  <2>1. nwkCbs # NoTable /\ c # None
    BY DEF Registered
  <2>2. CASE d = c
    <3>1. told'[c] = ToldAs(f)
      BY <1>3, <2>2 DEF WordsKept, WInv, TypeOK
    <3>2. f = w
      BY <1>2, <3>1 DEF ToldAs, Words
    <3> QED
      BY <1>4, <3>2 DEF WInv, WordsKept, PostedSettled
  <2>3. CASE d # c
    <3>1. told'[c] = told[c]
      BY <1>3, <2>3 DEF WordsKept, WInv, TypeOK
    <3>2. CASE InSlot = c
      <4>1. told[c] = "nothing"
        BY <1>1, <1>3, <2>1, <2>3, <3>2 DEF WInv, WordsKept, FoundStays
      <4> QED
        BY <3>1, <4>1 DEF ToldAs, Words
    <3>3. CASE InSlot # c
      <4>1. ToBeTold(c, Other(w)) => ToBeTold(c, Other(w))'
        BY <1>1, <1>2, <3>3 DEF ToBeTold, InSlot, Slots
      <4> QED
        BY <1>1, <3>1, <4>1, StillMoves, ToldStays DEF WInv, WordsKept
    <3> QED
      BY <3>2, <3>3
  <2> QED
    BY <2>2, <2>3
<1>6. FoundStays'
  BY <1>2 DEF FoundStays
<1> QED
  BY <1>4, <1>5, <1>6 DEF WordsKept

LEMMA ReconnectStep ==
  ASSUME WInv, Reconnect
  PROVE  WordsKept'
<1>1. /\ firing.slot = SlotCount + 1 /\ firing' = NoFiring
      /\ UNCHANGED <<events, status, nwkCbs, told>>
  BY DEF Reconnect
<1>2. LinkMove
  BY DEF Reconnect, Connecting, LinkMove, StatusOf
<1>3. LastWordHolds'
  BY <1>1, <1>2, LastWordStays DEF WordsKept, WInv
<1>4. PostedSettled'
  <2>1. \A w \in Words, k \in 1 .. Len(events) + 1 : Settled(w, k) => Settled(w, k)'
    BY <1>2, SettledStays DEF WordsKept, WInv
  <2> QED
    BY <1>1, <2>1 DEF WordsKept, WInv, TypeOK, PostedSettled, NoFiring, Words
<1>5. ToldSettled'
  <2> SUFFICES ASSUME NEW w \in Words, NEW c \in Callbacks, told[c] = ToldAs(w),
                      Registered(c, ToldAs(Other(w)))
               PROVE  Settled(w, 1)' \/ ToBeTold(c, Other(w))'
    BY <1>1 DEF ToldSettled, Registered
  <2>1. ~ToBeTold(c, Other(w))
    BY <1>1 DEF ToBeTold
  <2> QED
    BY <1>1, <1>2, <2>1, ToldStays DEF WordsKept, WInv
<1>6. ConnectedUntold' /\ FoundStays'
  BY <1>1 DEF ConnectedUntold, FoundStays, NoFiring
<1> QED
  BY <1>3, <1>4, <1>5, <1>6 DEF WordsKept

(* A slot is written, and what the callback in question was told is void.   *)
LEMMA SlotStep ==
  ASSUME WInv, nwkCbs # NoTable,
         NEW e \in NwkEvents, NEW i \in Slots, NEW c \in Callbacks, NEW new \in {c, None},
         nwkCbs[e][i] \in {c, None}, nwkCbs' = [nwkCbs EXCEPT ![e][i] = new],
         told' = [told EXCEPT ![c] = "nothing"],
         UNCHANGED <<driver, events, status, firing>>
  PROVE  WordsKept'
<1>1. LinkMove
  BY StillMoves
<1>2. LastWordHolds' /\ PostedSettled'
  BY <1>1, LastWordStays, PostedStays DEF WordsKept, WInv
<1>3. nwkCbs \in [NwkEvents -> [Slots -> Callbacks \cup {None}]]
  BY DEF WordsKept, WInv, TypeOK
<1>4. \A d \in Callbacks \ {c}, g \in NwkEvents, j \in Slots : nwkCbs'[g][j] = d <=> nwkCbs[g][j] = d
  BY <1>3
<1>5. ToldSettled'
  <2> SUFFICES ASSUME NEW w \in Words, NEW d \in Callbacks, told'[d] = ToldAs(w),
                      Registered(d, ToldAs(Other(w)))'
               PROVE  Settled(w, 1)' \/ ToBeTold(d, Other(w))'
    BY DEF ToldSettled
  <2>1. d # c /\ told'[d] = told[d] /\ ToldAs(Other(w)) \in NwkEvents
    BY DEF WordsKept, WInv, TypeOK, ToldAs, Words, Other, NwkEvents
  <2>2. Registered(d, ToldAs(Other(w)))
    BY <1>4, <2>1 DEF Registered
  <2>3. ToBeTold(d, Other(w)) => ToBeTold(d, Other(w))'
    <3> SUFFICES ASSUME ToBeTold(d, Other(w))
                 PROVE  ToBeTold(d, Other(w))'
      OBVIOUS
    <3>1. PICK j \in firing.slot .. SlotCount : nwkCbs[ToldAs(Other(w))][j] = d
      BY DEF ToBeTold
    <3>2. firing.event # "none"
      BY DEF ToBeTold, Other
    <3>3. firing.slot \in 1 .. SlotCount + 1
      BY <3>2 DEF WordsKept, WInv, TypeOK, NoFiring
    <3>4. j \in Slots
      BY <3>1, <3>3 DEF Slots
    <3> QED
      BY <1>4, <2>1, <3>1, <3>4 DEF ToBeTold
  <2> QED
    BY <1>1, <2>1, <2>2, <2>3, ToldStays DEF WordsKept, WInv
<1>6. ConnectedUntold'
  BY DEF WordsKept, WInv, ConnectedUntold
<1>7. FoundStays'
  <2> SUFFICES ASSUME firing.cb # None
               PROVE  /\ firing.event # "CONNECTED"
                      /\ InSlot' \in {firing.cb, None} \/ told'[InSlot'] = "nothing"
    BY DEF FoundStays
  <2>1. /\ firing.event # "CONNECTED" /\ firing.slot \in Slots
        /\ InSlot \in {firing.cb, None} \/ told[InSlot] = "nothing"
    BY DEF WordsKept, WInv, TypeOK, NoFiring, FoundStays, Slots
  <2>2. ToldAs(firing.event) \in NwkEvents
    BY DEF WInv, TypeOK, NoFiring, ToldAs, Link, NwkEvents
  <2>3. InSlot \in Callbacks \cup {None} /\ InSlot' \in {InSlot, c, None}
    BY <1>3, <2>1, <2>2 DEF InSlot
  <2>4. told'[c] = "nothing" /\ \A d \in Callbacks \ {c} : told'[d] = told[d]
    BY DEF WInv, TypeOK
  <2> QED
    BY <2>1, <2>3, <2>4
<1> QED
  BY <1>2, <1>5, <1>6, <1>7 DEF WordsKept

LEMMA RegisterStep ==
  ASSUME WInv, NEW t \in Tasks, NEW c \in Callbacks, NEW e \in NwkEvents, Register(t, c, e)
  PROVE  WordsKept'
<1>1. PICK i \in Slots : nwkCbs[e][i] = None /\ nwkCbs' = [nwkCbs EXCEPT ![e][i] = c]
  BY DEF Register
<1>2. /\ nwkCbs # NoTable /\ told' = [told EXCEPT ![c] = "nothing"]
      /\ UNCHANGED <<driver, events, status, firing>>
  BY DEF Register
<1>3. c \in {c, None} /\ nwkCbs[e][i] \in {c, None}
  BY <1>1
<1> QED
  BY <1>1, <1>2, <1>3, SlotStep

LEMMA UnregisterStep ==
  ASSUME WInv, NEW t \in Tasks, NEW c \in Callbacks, NEW e \in NwkEvents, Unregister(t, c, e)
  PROVE  WordsKept'
<1>1. PICK i \in Slots : nwkCbs[e][i] = c /\ nwkCbs' = [nwkCbs EXCEPT ![e][i] = None]
  BY DEF Unregister
<1>2. /\ nwkCbs # NoTable /\ told' = [told EXCEPT ![c] = "nothing"]
      /\ UNCHANGED <<driver, events, status, firing>>
  BY DEF Unregister
<1>3. None \in {c, None} /\ nwkCbs[e][i] \in {c, None}
  BY <1>1
<1> QED
  BY <1>1, <1>2, <1>3, SlotStep

(* The table is new, or gone: nobody is registered. *)
LEMMA TableStep ==
  ASSUME WInv, nwkCbs' = Empty \/ nwkCbs' = NoTable, LinkMove, UNCHANGED <<status, firing, told>>
  PROVE  WordsKept'
<1>1. LastWordHolds' /\ PostedSettled'
  BY LastWordStays, PostedStays DEF WordsKept, WInv
<1>2. \A w \in Words, c \in Callbacks : ~Registered(c, ToldAs(Other(w)))'
  BY DEF Registered, Empty, Words, Other, ToldAs, NwkEvents
<1>3. ToldSettled'
  BY <1>2 DEF ToldSettled
<1>4. ConnectedUntold'
  BY DEF WordsKept, WInv, ConnectedUntold
<1>5. FoundStays'
  <2>1. firing.cb # None => ToldAs(firing.event) \in NwkEvents /\ firing.slot \in Slots
    BY DEF WInv, TypeOK, NoFiring, ToldAs, Link, NwkEvents, Slots
  <2> QED
    BY <2>1 DEF WordsKept, WInv, FoundStays, InSlot, Empty
<1> QED
  BY <1>1, <1>3, <1>4, <1>5 DEF WordsKept

LEMMA CallStep ==
  ASSUME WInv, NEW t \in Tasks, Call(t)
  PROVE  WordsKept'
<1>1. CASE Quiet
  BY <1>1, QuietStep
<1>2. CASE Restart
  BY <1>2, RestartStep
<1>3. CASE NwkInit(t) /\ ~Restart
  <2>1. /\ driver = "off" /\ driver' = "idle" /\ nwkCbs' = Empty
        /\ UNCHANGED <<events, status, firing, told>>
    BY <1>3 DEF NwkInit, WifiInit
  <2>2. LinkMove
    BY <2>1 DEF LinkMove, StatusOf
  <2> QED
    BY <2>1, <2>2, TableStep
<1>4. CASE NwkDeinit(t) /\ ~Restart
  <2>1. LinkMove
    BY <1>4, LeaveMoves DEF NwkDeinit, WInv
  <2> QED
    BY <1>1, <1>4, <2>1 DEF NwkDeinit, Quiet
<1>5. CASE DeinitEnds(t)
  BY <1>5, StillMoves, TableStep DEF DeinitEnds
<1>6. CASE DriverCall(t)
  <2>1. LinkMove
    <3>1. CASE Leave("idle")
      BY <3>1, LeaveMoves DEF WordsKept, WInv
    <3>2. CASE Leave("stopped")
      BY <3>2, LeaveMoves DEF WordsKept, WInv
    <3>3. CASE ~Leave("idle") /\ ~Leave("stopped")
      BY <1>6, <3>3 DEF DriverCall, LinkMove, StatusOf, Connecting
    <3> QED
      BY <3>1, <3>2, <3>3
  <2> QED
    BY <1>1, <1>6, <2>1 DEF DriverCall, Quiet
<1>7. CASE DisconnectEnds(t)
  <2>1. LinkMove
    BY <1>7, LeaveMoves, StillMoves DEF WordsKept, DisconnectEnds, WInv
  <2> QED
    BY <1>1, <1>7, <2>1 DEF DisconnectEnds, Quiet
<1>8. CASE StartConnect(t) \/ StartDisconnect(t) \/ DriverCallFails(t) \/ Resume(t)
  <2>1. UNCHANGED <<driver, events, status, firing, nwkCbs, told>>
    BY <1>8 DEF StartConnect, StartDisconnect, DriverCallFails, Resume
  <2> QED
    BY <1>1, <2>1, StillMoves DEF Quiet
<1>9. ASSUME NEW b \in BOOLEAN, SetAutoReconnect(t, b)
      PROVE  WordsKept'
  BY <1>1, <1>9, StillMoves DEF SetAutoReconnect, Quiet
<1>10. CASE ScanAborts(t)
  BY <1>2, <1>10 DEF ScanAborts
<1>11. CASE DriverDeinit(t) /\ ~Restart
  <2>1. LinkMove
    BY <1>11 DEF DriverDeinit, LinkMove, StatusOf
  <2> QED
    BY <1>1, <1>11, <2>1 DEF DriverDeinit, Quiet
<1>12. CASE FreeCallbacks(t)
  BY <1>1, <1>12, StillMoves DEF FreeCallbacks, Quiet
<1> QED
  BY <1>2, <1>3, <1>4, <1>5, <1>6, <1>7, <1>8, <1>9, <1>10, <1>11, <1>12, RegisterStep, UnregisterStep DEF Call

LEMMA HandlersStep ==
  ASSUME WInv, [Next]_vars
  PROVE  HandlersStay'
<1>1. HandlersStay
  BY DEF WInv
<1>2. CASE Restart
  BY <1>2 DEF Restart, HandlersStay
<1>3. CASE LinkChanges \/ Reconnect
  BY <1>1, <1>3 DEF LinkChanges, Reconnect, Connecting, Trying, HandlersStay
<1>4. CASE (HandleEvent \/ CheckSlot \/ FireSlot) /\ ~Restart
  BY <1>1, <1>4 DEF HandleEvent, CheckSlot, FireSlot, HandlersStay
<1>5. ASSUME NEW t \in Tasks, Call(t), ~Restart
      PROVE  HandlersStay'
  <2>1. CASE NwkInit(t) \/ NwkDeinit(t) \/ DriverDeinit(t) \/ FreeCallbacks(t) \/ DeinitEnds(t)
    BY <1>1, <1>5, <2>1 DEF NwkInit, WifiInit, NwkDeinit, DriverDeinit, FreeCallbacks, DeinitEnds,
                           HandlersStay
  <2>2. CASE DriverCall(t)
    BY <1>1, <2>2 DEF DriverCall, Leave, Connecting, Started, Trying, HandlersStay
  <2>3. CASE DisconnectEnds(t)
    BY <1>1, <2>3 DEF DisconnectEnds, Leave, Started, Trying, HandlersStay
  <2>4. CASE StartConnect(t) \/ DriverCallFails(t) \/ Resume(t) \/ StartDisconnect(t) \/ ScanAborts(t)
    BY <1>1, <1>5, <2>4 DEF StartConnect, DriverCallFails, Resume, StartDisconnect, ScanAborts,
                           HandlersStay
  <2>5. ASSUME NEW b \in BOOLEAN, SetAutoReconnect(t, b)
        PROVE  HandlersStay'
    BY <1>1, <2>5 DEF SetAutoReconnect, HandlersStay
  <2>6. ASSUME NEW c \in Callbacks, NEW e \in NwkEvents, Register(t, c, e) \/ Unregister(t, c, e)
        PROVE  HandlersStay'
    BY <1>1, <2>6 DEF Register, Unregister, HandlersStay
  <2> QED
    BY <1>5, <2>1, <2>2, <2>3, <2>4, <2>5, <2>6 DEF Call
<1>6. CASE UNCHANGED vars
  BY <1>1, <1>6 DEF vars, HandlersStay
<1> QED
  BY <1>2, <1>3, <1>4, <1>5, <1>6 DEF Next

LEMMA WStep ==
  ASSUME WInv, [Next]_vars
  PROVE  WInv'
<1>1. TypeOK' /\ HandlersStay'
  BY TypeStep, HandlersStep DEF WInv
<1>2. CASE LinkChanges
  <2>1. LinkMove
    BY <1>2 DEF LinkChanges, LinkMove, StatusOf, StatusAfter, Link
  <2>2. WordsKept'
    BY <1>2, <2>1, QuietStep DEF LinkChanges, Quiet
  <2> QED
    BY <1>1, <2>2 DEF WInv
<1>3. CASE Restart
  BY <1>1, <1>3, RestartStep DEF WInv
<1>4. CASE (HandleEvent \/ CheckSlot \/ FireSlot) /\ ~Restart
  BY <1>1, <1>4, HandleStep, CheckStep, FireStep DEF WInv
<1>5. CASE Reconnect
  BY <1>1, <1>5, ReconnectStep DEF WInv
<1>6. ASSUME NEW t \in Tasks, Call(t)
      PROVE  WInv'
  BY <1>1, <1>6, CallStep DEF WInv
<1>7. CASE UNCHANGED vars
  <2>1. Quiet
    BY <1>7, StillMoves DEF vars, Quiet
  <2> QED
    BY <1>1, <2>1, QuietStep DEF WInv
<1> QED
  BY <1>2, <1>3, <1>4, <1>5, <1>6, <1>7 DEF Next

LEMMA WInit ==
  ASSUME Init
  PROVE  WInv
<1>1. LastWordHolds
  BY DEF Init, LastWordHolds, StatusOf
<1>2. PostedSettled
  BY DEF Init, PostedSettled, Words, NoFiring
<1>3. ToldSettled
  BY DEF Init, ToldSettled, Words, ToldAs
<1>4. ConnectedUntold /\ FoundStays
  BY DEF Init, ConnectedUntold, FoundStays, NoFiring
<1>5. HandlersStay
  BY DEF Init, HandlersStay
<1> QED
  BY <1>1, <1>2, <1>3, <1>4, <1>5, InitTyped DEF WInv, WordsKept

LEMMA WHolds == Spec => []WInv
  BY WInit, WStep, PTL DEF Spec

-----------------------------------------------------------------------------
(* What follows at rest *)

(* What IOT_NwkGetConnectionStatus and IOT_NwkGetConnectivities answer is   *)
(* the state of the driver once every event is handled, whichever tasks     *)
(* connected, disconnected or restarted meanwhile.                          *)
THEOREM StatusAgrees == Spec => []StatusAgreesAtRest
<1>1. WInv => StatusAgreesAtRest
  <2> SUFFICES ASSUME WInv, AtRest
               PROVE  WifiConnectivity =
                        CASE driver = "up"   -> [status |-> "CONNECTED", hasIpv4 |-> TRUE]
                          [] driver = "noip" -> [status |-> "CONNECTING", hasIpv4 |-> FALSE]
                          [] OTHER           -> [status |-> "DISCONNECTED", hasIpv4 |-> FALSE]
    BY DEF StatusAgreesAtRest
  <2>1. status = StatusOf(driver)
    BY DEF WordsKept, WInv, LastWordHolds, AtRest
  <2> QED
    BY <2>1 DEF StatusOf, WifiConnectivity, NwkStatus, HasIpInfo, WInv, HandlersStay
<1> QED
  BY <1>1, WHolds, PTL

(* A callback of IOT_NetworkMgmt that was told of a connection, or of its   *)
(* end, is told when that no longer holds, whatever is registered and       *)
(* unregistered while the slots are walked.                                 *)
THEOREM ToldHolds == Spec => []ToldHoldsAtRest
<1>1. WInv => ToldHoldsAtRest
  <2> SUFFICES ASSUME WInv, AtRest, NEW c \in Callbacks
               PROVE  /\ told[c] = "CONNECTED" /\ Registered(c, "DISCONNECTED") => driver = "up"
                      /\ told[c] = "DISCONNECTED" /\ Registered(c, "CONNECTED") => driver # "up"
    BY DEF ToldHoldsAtRest
  <2>1. ASSUME NEW w \in Words, told[c] = ToldAs(w), Registered(c, ToldAs(Other(w)))
        PROVE  Holds(w)
    <3>1. ~ToBeTold(c, Other(w))
      BY DEF AtRest, ToBeTold, NoFiring, Other
    <3>2. Settled(w, 1)
      BY <2>1, <3>1 DEF WordsKept, WInv, ToldSettled
    <3> QED
      BY <3>2 DEF Settled, AtRest
  <2>2. told[c] = "CONNECTED" /\ Registered(c, "DISCONNECTED") => Holds("GOT_IP")
    BY <2>1 DEF Words, ToldAs, Other
  <2>3. told[c] = "DISCONNECTED" /\ Registered(c, "CONNECTED") => Holds("DISCONNECTED")
    BY <2>1 DEF Words, ToldAs, Other
  <2> QED
    BY <2>2, <2>3 DEF Holds
<1> QED
  BY <1>1, WHolds, PTL

-----------------------------------------------------------------------------
(* A connection that is wanted is pursued                                   *)

Alone == \A s, t \in Tasks : s = t

(* A disconnection is still on its way to the handler, or in it. *)
LossUnhandled ==
  (\E i \in 1 .. Len(events) : events[i] = "DISCONNECTED") \/ firing.event = "DISCONNECTED"

(* The task in charge is in no call, and the driver is where esp_wifi_connect *)
(* is obeyed.                                                               *)
WantedInv ==
  wanted => /\ \A t \in Tasks : pc[t] = "ready"
            /\ autoReconnect /\ driver \in Started
            /\ driver \in Trying \/ LossUnhandled

(* IOT_WifiConnect connects with the reconnection on. *)
ResumedInv == \A t \in Tasks : pc[t] = "connect" => autoReconnect

LInv == TypeOK /\ WantedInv /\ ResumedInv

LEMMA RestartPursues == Restart => WantedInv' /\ ResumedInv'
  BY DEF Restart, WantedInv, ResumedInv

(* Nobody gives the wish up, and what is posted is not lost. *)
LEMMA WishStays ==
  ASSUME LInv, UNCHANGED <<pc, autoReconnect>>, wanted' => wanted,
         wanted' => driver' \in Started /\ (driver' \in Trying \/ LossUnhandled')
  PROVE  WantedInv' /\ ResumedInv'
  BY DEF LInv, WantedInv, ResumedInv

LEMMA LinkPursues ==
  ASSUME LInv, LinkChanges
  PROVE  WantedInv' /\ ResumedInv'
<1>1. ASSUME wanted
      PROVE  driver' \in Started /\ (driver' \in Trying \/ LossUnhandled')
  <2>1. driver' \in Started
    BY DEF LinkChanges, Started, Trying
  <2>2. CASE driver' \notin Trying
    <3>1. Post("DISCONNECTED")
      BY <2>2 DEF LinkChanges, Trying
    <3>2. Len(events) + 1 \in 1 .. Len(events') /\ events'[Len(events) + 1] = "DISCONNECTED"
      BY <3>1 DEF Post, LInv, TypeOK
    <3> QED
      BY <2>1, <3>2 DEF LossUnhandled
  <2> QED
    BY <2>1, <2>2
<1> QED
  BY <1>1, WishStays DEF LinkChanges

LEMMA HandlePursues ==
  ASSUME LInv, HandleEvent, ~Restart
  PROVE  WantedInv' /\ ResumedInv'
<1>1. /\ events # <<>> /\ events \in Seq(Link) /\ firing = NoFiring
      /\ events' = Tail(events) /\ firing'.event = Head(events)
      /\ UNCHANGED <<driver, wanted, pc, autoReconnect>>
  BY DEF HandleEvent, LInv, TypeOK
<1>2. LossUnhandled => LossUnhandled'
  <2> SUFFICES ASSUME LossUnhandled
               PROVE  LossUnhandled'
    OBVIOUS
  <2>1. PICK i \in 1 .. Len(events) : events[i] = "DISCONNECTED"
    BY <1>1 DEF LossUnhandled, NoFiring
  <2>2. CASE i = 1
    BY <1>1, <2>1, <2>2 DEF LossUnhandled
  <2>3. CASE i # 1
    <3>1. i - 1 \in 1 .. Len(events') /\ events'[i - 1] = "DISCONNECTED"
      BY <1>1, <2>1, <2>3
    <3> QED
      BY <3>1 DEF LossUnhandled
  <2> QED
    BY <2>2, <2>3
<1> QED
  BY <1>1, <1>2, WishStays DEF LInv, WantedInv

LEMMA FirePursues ==
  ASSUME LInv, CheckSlot \/ FireSlot, ~Restart
  PROVE  WantedInv' /\ ResumedInv'
<1>1. UNCHANGED <<driver, events, wanted, pc, autoReconnect>>
  BY DEF CheckSlot, FireSlot
<1>2. firing \in [event : Link, slot : 1 .. SlotCount + 1, cb : Callbacks \cup {None}]
  BY DEF CheckSlot, FireSlot, LInv, TypeOK, NoFiring
<1>3. firing'.event = firing.event
  <2>1. CASE CheckSlot
    <3>1. PICK c \in Callbacks \cup {None} :
            firing' = IF c = None THEN [firing EXCEPT !.slot = @ + 1] ELSE [firing EXCEPT !.cb = c]
      BY <2>1 DEF CheckSlot
    <3> QED
      BY <1>2, <3>1
  <2>2. CASE FireSlot
    BY <1>2, <2>2 DEF FireSlot
  <2> QED
    BY <2>1, <2>2
<1>4. LossUnhandled => LossUnhandled'
  BY <1>1, <1>3 DEF LossUnhandled
<1> QED
  BY <1>1, <1>4, WishStays DEF LInv, WantedInv

LEMMA ReconnectPursues ==
  ASSUME LInv, Reconnect
  PROVE  WantedInv' /\ ResumedInv'
<1>1. UNCHANGED <<events, pc, autoReconnect>> /\ (wanted' => wanted)
  BY DEF Reconnect
<1>2. ASSUME wanted'
      PROVE  driver' \in Started /\ (driver' \in Trying \/ LossUnhandled')
  <2>1. autoReconnect /\ driver \in Started /\ (driver \in Trying \/ LossUnhandled)
    BY <1>1, <1>2 DEF LInv, WantedInv
  <2>2. CASE firing.event = "DISCONNECTED"
    BY <1>2, <2>1, <2>2 DEF Reconnect, Connecting, Started, Trying
  <2>3. CASE firing.event # "DISCONNECTED"
    BY <1>1, <2>1, <2>3 DEF Reconnect, LossUnhandled
  <2> QED
    BY <2>2, <2>3
<1> QED
  BY <1>1, <1>2, WishStays

(* The task in charge calls; nobody else is in a call. *)
LEMMA CallPursues ==
  ASSUME LInv, Alone, NEW t \in Tasks, Call(t)
  PROVE  WantedInv' /\ ResumedInv'
<1>0. pc \in [Tasks -> Places] /\ \A s \in Tasks : s = t
  BY DEF LInv, TypeOK, Alone
<1>1. CASE Restart
  BY <1>1, RestartPursues
<1>2. CASE NwkInit(t) /\ ~Restart
  <2>1. driver = "off" /\ UNCHANGED <<wanted, pc, autoReconnect>>
    BY <1>2 DEF NwkInit
  <2>2. ~wanted
    BY <2>1 DEF LInv, WantedInv, Started, Trying
  <2> QED
    BY <2>1, <2>2, WishStays
<1>3. CASE NwkDeinit(t) /\ ~Restart
  BY <1>0, <1>3 DEF NwkDeinit, LInv, WantedInv, ResumedInv
<1>4. CASE DeinitEnds(t)
  BY <1>0, <1>4 DEF DeinitEnds, LInv, WantedInv, ResumedInv
<1>5. CASE StartConnect(t) \/ StartDisconnect(t)
  BY <1>0, <1>5 DEF StartConnect, StartDisconnect, Goto, LInv, WantedInv, ResumedInv
<1>6. CASE DriverCall(t)
  <2>1. ~wanted /\ autoReconnect' = autoReconnect
    BY <1>6 DEF DriverCall, LInv, WantedInv
  <2>2. CASE pc[t] = "connect"
    <3>1. /\ driver' = Connecting /\ driver \in {"idle", "noip", "up"}
          /\ pc' = [pc EXCEPT ![t] = "ready"] /\ autoReconnect
      BY <1>6, <2>2 DEF DriverCall, Return, Goto, LInv, ResumedInv
    <3>2. driver' \in Trying /\ \A s \in Tasks : pc'[s] = "ready"
      BY <1>0, <3>1 DEF Connecting, Trying
    <3> QED
      BY <2>1, <3>1, <3>2 DEF WantedInv, ResumedInv, Started
  <2>3. CASE pc[t] # "connect"
    <3>1. PICK place \in {"stop", "config", "start", "resume"} : pc' = [pc EXCEPT ![t] = place]
      BY <1>6, <2>3 DEF DriverCall, Goto
    <3>2. ~wanted'
      BY <1>6, <2>1, <2>3 DEF DriverCall
    <3>3. \A s \in Tasks : pc'[s] # "connect"
      BY <1>0, <3>1
    <3> QED
      BY <3>2, <3>3 DEF WantedInv, ResumedInv
  <2> QED
    BY <2>2, <2>3
<1>7. CASE DriverCallFails(t) \/ DisconnectEnds(t)
  BY <1>0, <1>7 DEF DriverCallFails, DisconnectEnds, Return, Goto, LInv, WantedInv, ResumedInv
<1>8. CASE Resume(t)
  <2>1. ~wanted /\ UNCHANGED wanted /\ autoReconnect'
    BY <1>8 DEF Resume, LInv, WantedInv
  <2> QED
    BY <2>1 DEF WantedInv, ResumedInv
<1>9. ASSUME NEW b \in BOOLEAN, SetAutoReconnect(t, b)
      PROVE  WantedInv' /\ ResumedInv'
  BY <1>0, <1>9 DEF SetAutoReconnect, WantedInv, ResumedInv
<1>10. CASE ScanAborts(t)
  BY <1>1, <1>10 DEF ScanAborts
<1>11. CASE (DriverDeinit(t) \/ FreeCallbacks(t)) /\ ~Restart
  BY <1>0, <1>11 DEF DriverDeinit, FreeCallbacks, LInv, WantedInv, ResumedInv
<1>12. ASSUME NEW c \in Callbacks, NEW e \in NwkEvents, Register(t, c, e) \/ Unregister(t, c, e)
       PROVE  WantedInv' /\ ResumedInv'
  BY <1>12 DEF Register, Unregister, LInv, WantedInv, ResumedInv, LossUnhandled
<1> QED
  BY <1>1, <1>2, <1>3, <1>4, <1>5, <1>6, <1>7, <1>8, <1>9, <1>10, <1>11, <1>12 DEF Call

LEMMA LStep ==
  ASSUME LInv, Alone, [Next]_vars
  PROVE  LInv'
<1>1. TypeOK'
  BY TypeStep DEF LInv
<1>2. CASE LinkChanges
  BY <1>1, <1>2, LinkPursues DEF LInv
<1>3. CASE Restart
  BY <1>1, <1>3, RestartPursues DEF LInv
<1>4. CASE HandleEvent /\ ~Restart
  BY <1>1, <1>4, HandlePursues DEF LInv
<1>5. CASE (CheckSlot \/ FireSlot) /\ ~Restart
  BY <1>1, <1>5, FirePursues DEF LInv
<1>6. CASE Reconnect
  BY <1>1, <1>6, ReconnectPursues DEF LInv
<1>7. ASSUME NEW t \in Tasks, Call(t)
      PROVE  LInv'
  BY <1>1, <1>7, CallPursues DEF LInv
<1>8. CASE UNCHANGED vars
  BY <1>1, <1>8 DEF vars, LInv, WantedInv, ResumedInv, LossUnhandled
<1> QED
  BY <1>2, <1>3, <1>4, <1>5, <1>6, <1>7, <1>8 DEF Next

(* With one task in charge of the network, a connection that               *)
(* IOT_WifiConnect promised is up, being made, or about to be made again,   *)
(* whatever the driver loses and however late the events of the old one are, *)
(* as long as the driver does not refuse the handler's own connect, whose    *)
(* answer wifi.c ignores.                                                   *)
THEOREM ConnectionPursued == Spec => []NeverLeftAlone
<1>1. CASE Alone
  <2>1. Init => LInv
    BY InitTyped DEF Init, LInv, WantedInv, ResumedInv
  <2>2. LInv /\ [Next]_vars => LInv'
    BY <1>1, LStep
  <2>3. LInv => NeverLeftAlone
    BY DEF LInv, WantedInv, NeverLeftAlone, LossUnhandled
  <2> QED
    BY <2>1, <2>2, <2>3, PTL DEF Spec
<1>2. CASE ~Alone
  <2>1. TypeOK => NeverLeftAlone
    BY <1>2 DEF Alone, NeverLeftAlone
  <2> QED
    BY <2>1, NetworkTypeCorrect, PTL
<1> QED
  BY <1>1, <1>2
=============================================================================
