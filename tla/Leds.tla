-------------------------------- MODULE Leds --------------------------------
(***************************************************************************)
(* led_mgmt.cpp on led_rmt.cpp: the lamps behind the buttons.  Every change *)
(* sets the state of the LEDs of a group, copies their colour to the frame  *)
(* _txBuffer and sends the frame to the strip.  A task of the application   *)
(* and the blink task do so side by side, without a lock.                   *)
(*                                                                          *)
(* A group stands for its two LEDs, a colour for on or off; colours that    *)
(* change with the state kept are a change to the same state.  The time     *)
(* between two blinks is left out: the blink task may find it over at once, *)
(* as it does when lastTime is an old one.  Bound: a group in which changes *)
(* have met is set before it is blinked again.                              *)
(***************************************************************************)
EXTENDS Naturals

CONSTANTS
    Groups,
    BlinkRoom       \* bound: the count a blink is asked for

VARIABLES
    lit,            \* _state of the LEDs of each group: on
    frame,          \* _txBuffer
    strip,          \* external: what the strip shows
    count,          \* blinkLedConfig[g].count
    oldState,       \* blinkLedConfig[g].oldState
    ledCall,        \* the application's call
    task,           \* the blink task: where it is, with which group and colour
    sendDue,        \* isSendFrame of the blink task
    wanted,         \* history: the state the application last asked for
    mixed           \* history: groups that two changes met in

ledVars == <<lit, frame, strip, count, oldState, ledCall, task, sendDue, wanted, mixed>>

Idle == [pc |-> "ready"]
States == [Groups -> BOOLEAN]
GroupSets == {{g} : g \in Groups} \cup {Groups}

LedTypeOK ==
    /\ lit \in States /\ frame \in States /\ strip \in States
    /\ count \in [Groups -> 0 .. 2 * BlinkRoom + 1] /\ oldState \in States
    /\ ledCall.pc \in {"ready", "write", "send", "next", "startBlink"}
    /\ task.pc \in {"ready", "write"} /\ sendDue \in BOOLEAN
    /\ wanted \in States /\ mixed \subseteq Groups

LedStart ==
    /\ lit = [g \in Groups |-> FALSE] /\ frame = lit /\ strip = lit
    /\ count = [g \in Groups |-> 0] /\ oldState = lit
    /\ ledCall = Idle /\ task = Idle /\ sendDue = FALSE
    /\ wanted = lit /\ mixed = {}

\* A group that the application's call, or a blink, is busy with.
InCall(g) == ledCall.pc # "ready" /\ g \in ledCall.groups
InBlink(g) == count[g] > 0 \/ (task.pc # "ready" /\ task.group = g)

\* f with the groups gs at value v.
With(f, gs, v) == [g \in Groups |-> IF g \in gs THEN v[g] ELSE f[g]]
Kept(gs, v) == [g \in gs |-> v[g]]
Same(v) == [g \in Groups |-> v]

-----------------------------------------------------------------------------
(* The application's task.                                                 *)

\* ledButtonSetState, or a colour or brightness (the state stays): the LEDs, with the
\* colour that updateFrame's copy of them has.
SetGroup(g, on) ==
    /\ ledCall.pc = "ready"
    /\ lit' = [lit EXCEPT ![g] = on] /\ wanted' = IF InBlink(g) THEN wanted ELSE [wanted EXCEPT ![g] = on]
    /\ mixed' = IF InBlink(g) THEN mixed \cup {g} ELSE mixed \ {g}
    /\ ledCall' = [pc |-> "write", groups |-> {g}, copy |-> Kept({g}, lit'), cycles |-> 0]
    /\ UNCHANGED <<frame, strip, count, oldState, task, sendDue>>

\* LedButtonBlink, blocking: the states are kept, and twice as many changes made.  One
\* group begins off, all of them on.
BlinkHere(gs, n) ==
    /\ ledCall.pc = "ready" /\ gs \cap mixed = {}
    /\ ledCall' = [pc |-> "next", groups |-> gs, old |-> Kept(gs, lit), cycles |-> 2 * n]
    /\ mixed' = mixed \cup {g \in gs : InBlink(g)}
    /\ UNCHANGED <<lit, frame, strip, count, oldState, task, sendDue, wanted>>

BlinkOn(gs, cycles) == IF gs = Groups THEN cycles % 2 = 0 ELSE cycles % 2 = 1

NextCycle ==
    /\ ledCall.pc = "next"
    /\ LET gs == ledCall.groups
       IN /\ lit' = With(lit, gs, IF ledCall.cycles > 0 THEN Same(BlinkOn(gs, ledCall.cycles))
                                  ELSE ledCall.old)
          /\ ledCall' = IF ledCall.cycles > 0
                        THEN [pc |-> "write", groups |-> gs, copy |-> Kept(gs, lit'), old |-> ledCall.old,
                              cycles |-> ledCall.cycles]
                        ELSE [pc |-> "write", groups |-> gs, copy |-> Kept(gs, lit'), cycles |-> 0]
          /\ mixed' = mixed \cup {g \in gs : InBlink(g)}
    /\ UNCHANGED <<frame, strip, count, oldState, task, sendDue, wanted>>

CallWrites ==
    /\ ledCall.pc = "write"
    /\ frame' = With(frame, ledCall.groups, ledCall.copy)
    /\ ledCall' = [ledCall EXCEPT !.pc = "send"]
    /\ UNCHANGED <<lit, strip, count, oldState, task, sendDue, wanted, mixed>>

\* sendData; the rest of a blocking blink.
CallSends ==
    /\ ledCall.pc = "send"
    /\ strip' = frame
    /\ ledCall' = IF ledCall.cycles = 0 THEN Idle
                  ELSE [pc |-> "next", groups |-> ledCall.groups, old |-> ledCall.old,
                        cycles |-> ledCall.cycles - 1]
    /\ UNCHANGED <<lit, frame, count, oldState, task, sendDue, wanted, mixed>>

\* LedButtonBlink, left to the blink task: the count first,
BlinkThere(gs, n) ==
    /\ ledCall.pc = "ready" /\ gs \cap mixed = {}
    /\ count' = With(count, gs, Same(2 * n + 1))
    /\ mixed' = mixed \cup {g \in gs : InBlink(g)}
    /\ ledCall' = [pc |-> "startBlink", groups |-> gs]
    /\ UNCHANGED <<lit, frame, strip, oldState, task, sendDue, wanted>>

\* then the state to come back to.
KeepOldState ==
    /\ ledCall.pc = "startBlink"
    /\ oldState' = With(oldState, ledCall.groups, lit)
    /\ ledCall' = Idle
    /\ UNCHANGED <<lit, frame, strip, count, task, sendDue, wanted, mixed>>

-----------------------------------------------------------------------------
(* The blink task, handleBlink.                                            *)

(* Mutant: the last change of a blink is one like the others. *)
TaskNeverRestores(g) ==
    /\ task.pc = "ready" /\ count[g] > 0
    /\ lit' = [lit EXCEPT ![g] = count[g] % 2 = 1]
    /\ task' = [pc |-> "write", group |-> g, copy |-> lit'[g]]
    /\ mixed' = IF InCall(g) THEN mixed \cup {g} ELSE mixed
    /\ UNCHANGED <<frame, strip, count, oldState, ledCall, sendDue, wanted>>

TaskSets(g) ==
    /\ task.pc = "ready" /\ count[g] > 0
    /\ lit' = [lit EXCEPT ![g] = IF count[g] = 1 THEN oldState[g] ELSE count[g] % 2 = 1]
    /\ task' = [pc |-> "write", group |-> g, copy |-> lit'[g]]
    /\ mixed' = IF InCall(g) THEN mixed \cup {g} ELSE mixed
    /\ UNCHANGED <<frame, strip, count, oldState, ledCall, sendDue, wanted>>

\* It counts down whatever the count is by now: the application may have begun another.
TaskWrites ==
    /\ task.pc = "write"
    /\ frame' = [frame EXCEPT ![task.group] = task.copy]
    /\ sendDue' = TRUE /\ task' = Idle
    /\ count' = [count EXCEPT ![task.group] = @ - 1]
    /\ UNCHANGED <<lit, strip, oldState, ledCall, wanted, mixed>>

TaskSends ==
    /\ task.pc = "ready" /\ sendDue
    /\ strip' = frame /\ sendDue' = FALSE
    /\ UNCHANGED <<lit, frame, count, oldState, ledCall, task, wanted, mixed>>

LedNext ==
    \/ \E g \in Groups : TaskSets(g) \/ SetGroup(g, lit[g]) \/ SetGroup(g, ~lit[g])
    \/ \E gs \in GroupSets, n \in 1 .. BlinkRoom : BlinkHere(gs, n) \/ BlinkThere(gs, n)
    \/ NextCycle \/ CallWrites \/ CallSends \/ KeepOldState
    \/ TaskWrites \/ TaskSends

LedSpec == LedStart /\ [][LedNext]_ledVars

-----------------------------------------------------------------------------
\* A group no change is under way in has the state the application last asked for, a
\* blink having restored it, and the strip shows it once nobody owes it a frame, whoever
\* sent the frames of the other groups; unless a change of the group met another one
\* that was under way.  (That may be a single blink: the blink task may begin it when
\* its count is set and the state to come back to is not, and it then restores its own.)
LedsRestored ==
    \A g \in Groups : ~InCall(g) /\ ~InBlink(g) /\ g \notin mixed =>
        /\ lit[g] = wanted[g]
        /\ ~sendDue => strip[g] = lit[g]
=============================================================================
