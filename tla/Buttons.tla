------------------------------ MODULE Buttons ------------------------------
(***************************************************************************)
(* button.cpp: every 10 ms the timer task scans the buttons, counts for    *)
(* how many scans each has been down, and answers a hold by its length:    *)
(* a press, a keep (pair, then on release the Wi-Fi configuration) or a     *)
(* long keep (pair, then on release the kick-out).  A press of the button   *)
(* kept last, soon after, deletes what is paired with it.                   *)
(*                                                                          *)
(* The names and the GPIO configuration are left out; so is the event loop  *)
(* (external), which may drop a post after 10 ms, unseen by this code.      *)
(***************************************************************************)
EXTENDS Naturals, Sequences, FiniteSetsExt

CONSTANTS
    ButtonCount,    \* BUTTON_NUM: the buttons are scanned in the order of their index
    NoButton,       \* 0xff
    PressTicks,     \* _pressTick: 10 scans
    KeepTicks,      \* _keepTick: 300 scans
    LongTicks,      \* _longKeepTick: 1000 scans
    TickMod,        \* ticks is a uint16_t: 65536
    PairTicks       \* CLOCK_TIME_OUT_MS_PAIR_K9B

ButtonIds == 1 .. ButtonCount

VARIABLES
    listening,      \* the timer runs
    buttons,        \* _buttons
    ticks,          \* _button_dev.ticks
    event,          \* _button_dev.event
    pair,           \* _btnIndexCheckPair
    sincePair,      \* the time since _tickStartPairK9b
    told,           \* history: what was posted for the present hold, or the last
    held,           \* history: the scans of the present hold, 0 when the button is up
    lastHold,       \* history: those of the hold that has just ended, 0 in the next one
    again,          \* history: the buttons whose last hold was a short press soon after their own keep
    lastKept,       \* history: the button kept last, if it was not pressed again soon after
    keptAgo,        \* history: the time since it was
    inTime          \* history: at the last scan that was not too long ago

buttonVars == <<listening, buttons, ticks, event, pair, sincePair, told,
                held, lastHold, again, lastKept, keptAgo, inTime>>
holdVars == <<held, lastHold, again, lastKept, keptAgo, inTime>>

ButtonEvents == {"none", "press", "keeping", "longKeeping"}
Ages == 0 .. PairTicks + 1

ButtonTypeOK ==
    /\ listening \in BOOLEAN /\ buttons \subseteq ButtonIds
    /\ ticks \in [ButtonIds -> 0 .. TickMod - 1] /\ event \in [ButtonIds -> ButtonEvents]
    /\ {pair, lastKept} \subseteq ButtonIds \cup {NoButton} /\ {sincePair, keptAgo} \subseteq Ages
    /\ held \in [ButtonIds -> 0 .. TickMod - 1] /\ lastHold \in [ButtonIds -> 0 .. TickMod]
    /\ again \subseteq ButtonIds /\ inTime \in BOOLEAN

ButtonStart ==
    /\ listening = FALSE /\ buttons = ButtonIds
    /\ ticks = [b \in ButtonIds |-> 0] /\ event = [b \in ButtonIds |-> "none"]
    /\ pair = NoButton /\ sincePair = 0 /\ told = [b \in ButtonIds |-> <<>>]
    /\ held = [b \in ButtonIds |-> 0] /\ lastHold = [b \in ButtonIds |-> 0]
    /\ again = {} /\ lastKept = NoButton /\ keptAgo = 0 /\ inTime = TRUE

-----------------------------------------------------------------------------
(* Button::handleEvent, for a button whose count is now t.                 *)

EventAfter(e, t) ==
    CASE e = "none" /\ t >= PressTicks        -> "press"
      [] e = "press" /\ t >= KeepTicks        -> "keeping"
      [] e = "keeping" /\ t >= LongTicks      -> "longKeeping"
      [] t = 0                                -> "none"
      [] OTHER                                -> e

\* What btnPostEvt posts for it (a long keep posts nothing before it ends).
Posts(e, t) ==
    CASE e = "press" /\ t >= KeepTicks        -> <<"pair">>
      [] t = 0 /\ e = "press"                 -> <<"press">>
      [] t = 0 /\ e = "keeping"               -> <<"configWifi">>
      [] t = 0 /\ e = "longKeeping"           -> <<"kickOut">>
      [] OTHER                                -> <<>>

Count(b, down) == IF b \in down THEN (ticks[b] + 1) % TickMod ELSE 0
Says(b, down) == Posts(event[b], Count(b, down))

Kept(down) == {b \in buttons : Says(b, down) = <<"pair">>}

\* The buttons are answered in the order of the scan: pair as button b finds it.
PairFoundBy(b, down) ==
    LET before == {k \in Kept(down) : k < b} IN IF before = {} THEN pair ELSE Max(before)

Deletes(down) == {b \in buttons : Says(b, down) = <<"press">> /\ PairFoundBy(b, down) = b}

(* Mutant: nothing forgets the pairing. *)
PairStays(p, age) == p

\* ButtonManager::handle: the pairing is forgotten after a while.
PairTimesOut(p, age) == IF p # NoButton /\ age > PairTicks THEN NoButton ELSE p

\* Histories, told by the scans in which each button was down alone.  A hold as long as
\* the counter counts as ended there, and another one begins.
Reaching(down) == {b \in buttons \cap down : held[b] + 1 = KeepTicks}
Ending(down) == {b \in ButtonIds : IF b \in down THEN held[b] + 1 = TickMod ELSE held[b] # 0}
Again(down) ==
    {b \in buttons \ down : /\ PressTicks <= held[b] /\ held[b] < KeepTicks
                            /\ lastKept = b /\ inTime /\ \A k \in Reaching(down) : k > b}

HoldsGoOn(down) ==
    /\ held' = [b \in ButtonIds |-> IF b \in down THEN (held[b] + 1) % TickMod ELSE 0]
    /\ lastHold' = [b \in ButtonIds |-> IF b \in Ending(down) THEN (IF b \in down THEN TickMod ELSE held[b])
                                        ELSE IF b \in down THEN 0 ELSE lastHold[b]]
    /\ again' = (again \ (down \cup Ending(down))) \cup Again(down)
    /\ lastKept' = IF Reaching(down) # {} THEN Max(Reaching(down))
                   ELSE IF Again(down) # {} THEN NoButton ELSE lastKept
    /\ keptAgo' = IF Reaching(down) # {} THEN 0 ELSE keptAgo
    /\ inTime' = (keptAgo' <= PairTicks)

Scan(down) ==
    /\ listening
    /\ ticks' = [b \in ButtonIds |-> IF b \in buttons THEN Count(b, down) ELSE ticks[b]]
    /\ event' = [b \in ButtonIds |->
                    IF b \in buttons THEN EventAfter(event[b], Count(b, down)) ELSE event[b]]
    /\ sincePair' = IF Kept(down) # {} THEN 0 ELSE sincePair
    /\ pair' = PairTimesOut(IF Kept(down) # {} THEN Max(Kept(down))
                            ELSE IF Deletes(down) # {} THEN NoButton ELSE pair, sincePair')
    /\ told' = [b \in ButtonIds |->
                   IF b \notin buttons THEN <<>>
                   ELSE (IF held[b] = 0 /\ b \in down THEN <<>> ELSE told[b]) \o Says(b, down)
                        \o (IF b \in Deletes(down) THEN <<"deleteAll">> ELSE <<>>)]
    /\ HoldsGoOn(down)
    /\ UNCHANGED <<listening, buttons>>

\* The tick count goes on, whether the buttons are scanned or not.
TimePasses ==
    /\ sincePair' = Min({sincePair + 1, PairTicks + 1})
    /\ keptAgo' = Min({keptAgo + 1, PairTicks + 1})
    /\ UNCHANGED <<listening, buttons, ticks, event, pair, told, held, lastHold, again, lastKept, inTime>>

StartListening ==
    /\ ~listening /\ listening' = TRUE
    /\ UNCHANGED <<buttons, ticks, event, pair, sincePair, told, holdVars>>

\* What the scans have counted stays.
StopListening ==
    /\ listening /\ listening' = FALSE
    /\ UNCHANGED <<buttons, ticks, event, pair, sincePair, told, holdVars>>

RemoveButton(b) ==
    /\ b \in buttons /\ buttons' = buttons \ {b}
    /\ UNCHANGED <<listening, ticks, event, pair, sincePair, told, holdVars>>

ButtonNext ==
    \/ StartListening \/ StopListening \/ TimePasses
    \/ \E down \in SUBSET ButtonIds : Scan(down)
    \/ \E b \in ButtonIds : RemoveButton(b)

ButtonSpec == ButtonStart /\ [][ButtonNext]_buttonVars

-----------------------------------------------------------------------------
\* What a hold of n scans is answered with; the second one of two, if soon.
Answer(n, soon) ==
    CASE n < PressTicks -> <<>>
      [] PressTicks <= n /\ n < KeepTicks -> IF soon THEN <<"press", "deleteAll">> ELSE <<"press">>
      [] KeepTicks <= n /\ n < LongTicks -> <<"pair", "configWifi">>
      [] OTHER -> <<"pair", "kickOut">>

\* A hold that has ended was answered once and by its length, whatever the other buttons
\* did meanwhile: only a long keep resets the device, and a short press deletes pairings
\* exactly if its button was the last one kept, no longer than PairTicks before the scan
\* that preceded the release, and was not pressed again since.  (A hold as long as the
\* counter is answered each time the counter wraps, as if the button had been let go.)
HoldAnsweredByLength ==
    \A b \in buttons :
        held[b] = 0 /\ lastHold[b] # 0 => told[b] = Answer(lastHold[b], b \in again)
=============================================================================
