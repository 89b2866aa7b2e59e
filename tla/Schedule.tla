------------------------------ MODULE Schedule ------------------------------
(***************************************************************************)
(* TimerSchedule.cpp: timers for a second of the day.  TimerThread looks at *)
(* the clock and, at a second it has not seen, queues the timers due, not   *)
(* waiting for room; TimerDoThread runs what it takes from the queue.  The   *)
(* list is under a mutex, the queue holds pointers into it.  The clock       *)
(* ticks, but SNTP (sntp.c) also sets it, and the time zone, at any moment.  *)
(***************************************************************************)
EXTENDS Naturals, Sequences, SequencesExt

CONSTANTS
    DayTimers,      \* timers that can be registered, by their index
    TimeOf,         \* the second of the day of each
    DaySeconds,     \* 24 * 3600
    QueueRoom       \* xQueueCreate(10, ...)

VARIABLES
    now,            \* external: the second of the day
    oldTimer,       \* oldTimer of TimerThread
    looked,         \* history: TimerThread has looked at this second
    timerList,      \* timerList
    freed,          \* history: timers unregistered: their memory is freed
    queue,          \* queue
    due,            \* history: timers registered when this second came, and for it
    queued,         \* history: timers queued since it came
    twice,          \* history: a timer was queued twice while one second lasted
    late            \* history: a second came before the last was looked at, or a timer found no room

scheduleVars == <<now, oldTimer, looked, timerList, freed, queue, due, queued, twice, late>>

ScheduleTypeOK ==
    /\ now \in 0 .. DaySeconds - 1 /\ oldTimer \in 0 .. DaySeconds - 1
    /\ timerList \subseteq DayTimers /\ freed \subseteq DayTimers \ timerList
    /\ queue \in Seq(DayTimers) /\ Len(queue) <= QueueRoom
    /\ due \subseteq DayTimers /\ queued \subseteq DayTimers
    /\ {looked, twice, late} \subseteq BOOLEAN

\* The first second of the day passes for one that was seen.
ScheduleStart ==
    /\ now \in 0 .. DaySeconds - 1 /\ oldTimer = 0 /\ looked = (now = 0)
    /\ timerList = {} /\ freed = {} /\ queue = <<>> /\ due = {} /\ queued = {}
    /\ twice = FALSE /\ late = FALSE

\* Another second comes.
ClockShows(s) ==
    /\ now' = s
    /\ late' = ~looked /\ looked' = FALSE
    /\ due' = {t \in timerList : TimeOf[t] = s} /\ queued' = {}
    /\ UNCHANGED <<oldTimer, timerList, freed, queue, twice>>

SecondPasses == ClockShows((now + 1) % DaySeconds)

\* A synchronisation sets the clock at once, forward or back, or its first one the zone.
ClockIsSet == \E s \in (0 .. DaySeconds - 1) \ {now} : ClockShows(s)

(* Mutant: a second is new when it is after the last. *)
IsLater == now > oldTimer

IsNew == now # oldTimer

\* TimerThread, under the mutex: the timers of this second, as far as there is room.
Look ==
    /\ IF IsNew
       THEN \E order \in SetToSeqs({t \in timerList : TimeOf[t] = now}) :
              LET fit == SubSeq(order, 1, Min({Len(order), QueueRoom - Len(queue)}))
              IN /\ queue' = queue \o fit
                 /\ queued' = queued \cup Range(fit)
                 /\ twice' = (twice \/ queued \cap Range(fit) # {})
                 /\ late' = (late \/ Len(fit) < Len(order))
                 /\ oldTimer' = now
       ELSE UNCHANGED <<queue, queued, twice, late, oldTimer>>
    /\ looked' = TRUE
    /\ UNCHANGED <<now, timerList, freed, due>>

\* TimerDoThread runs the rule or the callback, of a timer that may have been freed.
RunDue ==
    /\ queue # <<>> /\ queue' = Tail(queue)
    /\ UNCHANGED <<now, oldTimer, looked, timerList, freed, due, queued, twice, late>>

RegisterTimer(t) ==
    /\ t \notin timerList \cup freed
    /\ timerList' = timerList \cup {t}
    /\ UNCHANGED <<now, oldTimer, looked, freed, queue, due, queued, twice, late>>

UnregisterTimer(t) ==
    /\ t \in timerList
    /\ timerList' = timerList \ {t} /\ freed' = freed \cup {t}
    /\ UNCHANGED <<now, oldTimer, looked, queue, due, queued, twice, late>>

ScheduleNext ==
    \/ SecondPasses \/ ClockIsSet \/ Look \/ RunDue
    \/ \E t \in DayTimers : RegisterTimer(t) \/ UnregisterTimer(t)

ScheduleSpec == ScheduleStart /\ [][ScheduleNext]_scheduleVars

-----------------------------------------------------------------------------
\* Each time a second comes, ticking or because the clock was set, midnight included, a
\* timer is queued for it at most once, and once if it is its own and it is registered;
\* unless the thread had not looked at the second before, or the queue had no room.
\* (So a clock that is set back brings seconds again, and runs their timers again; the
\* seconds it is set forward over do not come.)
NothingMissed ==
    /\ ~twice
    /\ looked /\ ~late => (due \cap timerList) \subseteq queued
=============================================================================
