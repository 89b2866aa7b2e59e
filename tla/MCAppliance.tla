---------------------------- MODULE MCAppliance ----------------------------
(***************************************************************************)
(* The components of the appliance itself in one run: group records,       *)
(* buttons, LEDs, daily schedules, firmware updates and the start of the    *)
(* application.  They share no state that a property here is about, so a    *)
(* behaviour of the program projects on each of them alone: the run picks   *)
(* one and lets only it move.                                               *)
(***************************************************************************)
EXTENDS GroupStore, FiniteSets, TLC

CONSTANTS
    ButtonCount, NoButton, PressTicks, KeepTicks, LongTicks, TickMod, PairTicks,
    Groups, BlinkRoom,
    DayTimers, TimeOf, DaySeconds, QueueRoom,
    Updates, Hub, Caller, NoUpdate, Parts

\* The hub and who calls for a restart are no tasks of the platform; an image has something in it.
ASSUME UpdateAssumption ==
    /\ Hub \notin Updates /\ NoUpdate \notin Updates \cup {Hub} /\ Caller \notin Updates \cup {Hub}
    /\ Parts \in Nat \ {0}
ASSUME ScheduleAssumption ==
    /\ IsFiniteSet(DayTimers) /\ QueueRoom \in Nat
    /\ DaySeconds \in Nat /\ DaySeconds > 1
ASSUME ButtonAssumption ==
    /\ {ButtonCount, PressTicks, KeepTicks, LongTicks, TickMod, PairTicks} \subseteq Nat
    /\ NoButton \notin 1 .. ButtonCount
    /\ 1 <= PressTicks /\ PressTicks < KeepTicks /\ KeepTicks < LongTicks /\ LongTicks < TickMod
ASSUME LedAssumption == BlinkRoom \in Nat

VARIABLES
    part,
    listening, buttons, ticks, event, pair, sincePair, posted, held, lastHold, again, lastKept, keptAgo, inTime,
    lit, frame, strip, blinkCount, oldState, ledCall, task, sendDue, wanted, mixed,
    now, oldTimer, looked, timerList, freed, queue, due, queued, twice, late,
    updateStage, got, slot, bootSlot, otaStatus, told, dirty, excused, lost, met,
    asserts, stage, eventLoop, mode, hears, handler, provisioning, nvsUp, flash, ended, failed, taken

buttonVars == <<listening, buttons, ticks, event, pair, sincePair, posted,
                held, lastHold, again, lastKept, keptAgo, inTime>>
ledVars == <<lit, frame, strip, blinkCount, oldState, ledCall, task, sendDue, wanted, mixed>>
scheduleVars == <<now, oldTimer, looked, timerList, freed, queue, due, queued, twice, late>>
updateVars == <<updateStage, got, slot, bootSlot, otaStatus, told, dirty, excused, lost, met>>
appVars == <<asserts, stage, eventLoop, mode, hears, handler, provisioning, nvsUp, flash, ended, failed, taken>>

\* A group id cut down to the uint8_t of IOT_DaoGroupRemoveDeviceFromGroup.
MCLowByte == [g \in GroupIds |-> g % 256]
\* Timers registered for the same second, and for another.
MCTimeOf == 1 :> 0 @@ 2 :> 1 @@ 3 :> 1

Button == INSTANCE Buttons WITH told <- posted
Led == INSTANCE Leds WITH count <- blinkCount
Daily == INSTANCE Schedule
Firmware == INSTANCE Update WITH stage <- updateStage
App == INSTANCE Application

AllInit ==
    /\ GroupInit /\ Button!ButtonStart
    /\ Led!LedStart /\ Daily!ScheduleStart /\ Firmware!UpdateStart /\ App!AppStart
    /\ part \in {"groups", "buttons", "leds", "schedule", "update", "app"}
    /\ part = "app" \/ (~asserts /\ flash = {})
    /\ part = "schedule" \/ now = 0

GroupRecords == part = "groups" /\ GroupNext
    /\ UNCHANGED <<part, buttonVars, ledVars, scheduleVars, updateVars, appVars>>
ButtonScan == part = "buttons" /\ Button!ButtonNext
    /\ UNCHANGED <<part, groupVars, ledVars, scheduleVars, updateVars, appVars>>
LedGroups == part = "leds" /\ Led!LedNext
    /\ UNCHANGED <<part, groupVars, buttonVars, scheduleVars, updateVars, appVars>>
DailyTimers == part = "schedule" /\ Daily!ScheduleNext
    /\ UNCHANGED <<part, groupVars, buttonVars, ledVars, updateVars, appVars>>
FirmwareUpdates == part = "update" /\ Firmware!UpdateNext
    /\ UNCHANGED <<part, groupVars, buttonVars, ledVars, scheduleVars, appVars>>
AppStarts == part = "app" /\ App!AppNext
    /\ UNCHANGED <<part, groupVars, buttonVars, ledVars, scheduleVars, updateVars>>

AllNext ==
    \/ GroupRecords \/ ButtonScan \/ LedGroups \/ DailyTimers \/ FirmwareUpdates \/ AppStarts
AllSpec ==
    AllInit /\ [][AllNext]_<<part, groupVars, buttonVars, ledVars,
                             scheduleVars, updateVars, appVars>>

\* The types of all of them.
TypesOK ==
    /\ GroupTypeOK /\ Button!ButtonTypeOK /\ Led!LedTypeOK /\ Daily!ScheduleTypeOK /\ Firmware!UpdateTypeOK
    /\ App!AppTypeOK

\* The properties of the others, by the names their modules give them:
\* button.cpp, a hold is answered once, as its length and what came before it say;
HoldAnsweredByLength == Button!HoldAnsweredByLength
\* led_mgmt.cpp, when nothing blinks the LEDs show what was asked for last;
LedsRestored == Led!LedsRestored
\* TimerSchedule.cpp, a timer is queued once in its second;
NothingMissed == Daily!NothingMissed
\* IOT_AppManager.c, ota.c, a success is an image that is whole and no value lost;
SuccessIsWhole == Firmware!SuccessIsWhole
\* main.cpp, a reset that ran to its restart is complete.
ResetIsComplete == App!ResetIsComplete
=============================================================================
