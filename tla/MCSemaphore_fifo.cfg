CONSTANTS
    idle = idle
    a = a
    b = b
    c = c
    Thread = {idle, a, b, c}
    sem = sem
    WaitList = {sem}
    RT_THREAD_PRIORITY_MAX = 2
    Idle = idle
    InitPrio <- MCEqualPrio
    Flag = "FIFO"
    InitValue = 1
    ResetValue = {}
    ValueRange = 2
    ValueBound = 1
    Taker = {a, b}
    WaitTime <- MCATimed
    Releaser = {c}
    IsrReleases = TRUE
    Resetter = {}
    Owner = {c}
    Locker = {}
    CarefulOwner = TRUE
    LockedTake = FALSE
SPECIFICATION FairSpec
PROPERTIES ImplementsAbstract TimedTakesEnd NoneStarves
