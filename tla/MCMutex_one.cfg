CONSTANTS
    idle = idle
    hi = hi
    mid = mid
    lo = lo
    Thread = {idle, hi, mid, lo}
    Mutex = {m1}
    WaitList = {m1}
    RT_NULL = RT_NULL
    RT_THREAD_PRIORITY_MAX = 4
    Idle = idle
    InitPrio <- MCInitPrio
    Flag = "PRIO"
    HoldRange = 4
    MaxTakes = 2
    Taker = {hi, mid, lo}
    WaitTime <- MCAnyTime
    Sleepers = {hi, mid, lo}
    Nested = FALSE
SPECIFICATION Spec
INVARIANTS OwnersAgree NoInversion PriorityRestored
