\* Of everything there are two, where a third is not needed; one group id that does not
\* fit a byte; hold times in scans of 1, 3 and 5 with a counter that wraps at 7.
CONSTANTS
    GroupTasks = {t1, t2}
    GroupIds = {1, 257}
    Narrow = {1}
    LowByte <- MCLowByte
    Eids = {e1, e2}
    CopyRoom = 1
    ButtonCount = 2
    NoButton = noButton
    PressTicks = 1
    KeepTicks = 3
    LongTicks = 5
    TickMod = 7
    PairTicks = 2
    Groups = {g1, g2}
    BlinkRoom = 1
    DayTimers = {1, 2, 3}
    TimeOf <- MCTimeOf
    DaySeconds = 3
    QueueRoom = 2
    Updates = {o1, o2}
    Hub = hub
    Caller = caller
    NoUpdate = noUpdate
    Parts = 2
SPECIFICATION AllSpec
INVARIANTS
    TypesOK
    HoldAnsweredByLength
    LedsRestored
    NothingMissed
    MembersKept
    SuccessIsWhole
    ResetIsComplete
