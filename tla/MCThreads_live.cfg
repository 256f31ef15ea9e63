CONSTANTS
    idle = idle
    main = main
    a = a
    b = b
    Thread = {idle, main, a, b}
    defunct = defunct
    WaitList = {defunct}
    rt_thread_defunct = defunct
    RT_THREAD_PRIORITY_MAX = 2
    Idle = idle
    Main = main
    InitPrio <- MCEqualPrio
    Owner <- MCOwner
    Controlled = {}
    Deletable = {}
    Sleepers = {main}
    Exiting = {a, b}
    IsrResumes = {}
    Static = {idle, main}
    MaxNest = 0
SPECIFICATION FairSpec
PROPERTIES SleepersWake EveryReadyThreadRuns DeadAreFreed
