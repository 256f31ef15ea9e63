CONSTANTS
    idle = idle
    a = a
    b = b
    c = c
    Thread = {idle, a, b, c}
    sem = sem
    WaitList = {sem}
    RT_THREAD_PRIORITY_MAX = 3
    Idle = idle
    InitPrio <- MCInitPrio
    Flag = "PRIO"
    InitValue = 1
    ResetValue = {0, 2}
    ValueRange = 4
    ValueBound = 2
    Taker = {a, b, c}
    WaitTime <- MCAnyTime
    Releaser = {b, c}
    IsrReleases = TRUE
    Resetter = {c}
    Owner = {}
    Locker = {b}
    CarefulOwner = TRUE
    LockedTake = FALSE
SPECIFICATION Spec
INVARIANTS WaitersAgree NoneWaitsForNothing GrantsAreReal HighestPriorityRuns
PROPERTIES BestWaiterFirst ImplementsAbstract
