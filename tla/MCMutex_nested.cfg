CONSTANTS
    idle = idle
    hi = hi
    mid = mid
    lo = lo
    Thread = {idle, hi, mid, lo}
    Mutex = {m1, m2}
    WaitList = {m1, m2}
    RT_NULL = RT_NULL
    RT_THREAD_PRIORITY_MAX = 4
    Idle = idle
    InitPrio <- MCInitPrio
    Flag = "PRIO"
    HoldRange = 4
    MaxTakes = 1
    Taker = {hi, mid, lo}
    WaitTime <- MCForever
    Sleepers = {hi}
    Nested = TRUE
SPECIFICATION Spec
INVARIANTS PriorityRestored
