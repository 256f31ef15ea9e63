CONSTANTS
    idle = idle
    main = main
    a = a
    b = b
    Thread = {idle, main, a, b}
    defunct = defunct
    WaitList = {defunct}
    rt_thread_defunct = defunct
    RT_THREAD_PRIORITY_MAX = 3
    Idle = idle
    Main = main
    InitPrio <- MCInitPrio
    Owner <- MCOwner
    Controlled = {b}
    Deletable = {b}
    Sleepers = {a, main}
    Exiting = {a}
    IsrResumes = {a}
    Static = {idle, main, b}
    MaxNest = 1
SPECIFICATION Spec
INVARIANTS TypeOK ListsAgree CallsAgree HighestPriorityRuns OnlyRunnableRuns
PROPERTIES DeadStaysDead PreemptionJustified
