CONSTANTS
    idle = idle
    main = main
    a = a
    b = b
    Thread = {idle, main, a, b}
    defunct = defunct
    WaitList = {defunct}
    rt_thread_defunct = defunct
    RT_THREAD_PRIORITY_MAX = 3
    Idle = idle
    Main = main
    InitPrio <- MCInitPrio
    Owner <- MCOwner
    Controlled = {}
    Deletable = {b}
    Sleepers = {b}
    Exiting = {a}
    IsrResumes = {}
    Static = {idle, main}
    MaxNest = 0
SPECIFICATION Spec
INVARIANTS ClosedIsOffQueues
