------------------------------ MODULE Threads -------------------------------
(***************************************************************************)
(* The life of the threads under the scheduler: thread.c, scheduler.c, the *)
(* reaping done by idle.c and the interrupts of clock.c and timer.c.       *)
(*                                                                         *)
(* A step is a section the code runs with interrupts disabled, or the code *)
(* between two of them.  The current thread takes the steps of the call it *)
(* is in; an interrupt may come between any two of them.  pc[t] is the     *)
(* place thread t has reached, and arg[t] the thread its call is about.    *)
(* late is a history variable: the threads that rt_thread_resume or a      *)
(* change of priority has dealt with since the last rt_schedule that was   *)
(* free to switch.  Neither call switches, it leaves that to its caller.   *)
(***************************************************************************)
EXTENDS RTKernel

CONSTANTS
    Idle, Main,          \* the threads that rt_system_scheduler_start finds
    rt_thread_defunct,   \* the list of the dead threads not yet freed
    InitPrio,            \* thread->init_priority
    Owner,               \* the one thread that starts and controls a thread
    Controlled,          \* threads their owner suspends, resumes, re-ranks
    Deletable,           \* threads their owner deletes or detaches
    Sleepers,            \* threads that call rt_thread_delay
    Exiting,             \* threads that return from their entry function
    IsrResumes,          \* suspended threads that an interrupt may resume
    Static,              \* threads made by rt_thread_init, not _create
    MaxNest              \* bound on the nesting of rt_enter_critical

VARIABLES k, pc, arg, late
vars == <<k, pc, arg, late>>

ASSUME ThreadsAssumption ==
    /\ {Idle, Main} \subseteq Static /\ Static \subseteq Thread /\ Idle # Main
    /\ rt_thread_defunct \in WaitList
    /\ InitPrio \in [Thread -> Prio]
    /\ InitPrio[Idle] = RT_THREAD_PRIORITY_MAX - 1
    /\ InitPrio[Main] < InitPrio[Idle]
    /\ Owner \in [Thread \ {Idle, Main} -> Thread \ {Idle}]
    /\ Controlled \cup Deletable \cup Exiting \cup IsrResumes \cup Sleepers
         \subseteq Thread \ {Idle}
    /\ MaxNest \in Nat

(* What the sections below need of the callers to be safe against one      *)
(* another: the passing runs and the theorems assume it, and the run       *)
(* delete_race, without the first clause, shows what happens.              *)
Discipline ==
    /\ Deletable \cap Sleepers = {}
    /\ Controlled \cap Sleepers = {}
    /\ Controlled \cap IsrResumes = {}
    /\ Deletable \cap IsrResumes = {}
    /\ Controlled \cap Exiting = {} /\ Deletable \cap Exiting = {}
    /\ \A u \in Deletable \cup Controlled : u # Main /\ Owner[u] # u
    \* a thread deleted half-way through a call on another would leave it there
    /\ \A u \in DOMAIN Owner : Owner[u] \notin Deletable

Label == {"user", "suspend", "resume", "insert", "startup", "started", "schedule",
          "yield", "sleep", "woken", "delete_timer", "delete_close", "free"}

-----------------------------------------------------------------------------
(* rt_system_scheduler_start: Main leaves its ready list and runs.         *)

Init ==
    /\ k = [cur   |-> Main,
            stat  |-> [t \in Thread |-> IF t = Main THEN "RUNNING"
                                        ELSE IF t = Idle THEN "READY" ELSE "NONE"],
            yield |-> [t \in Thread |-> FALSE],
            prio  |-> InitPrio,
            error |-> [t \in Thread |-> "EOK"],
            timer |-> {},
            list  |-> [l \in ListHead |-> IF l = InitPrio[Idle] THEN <<Idle>> ELSE << >>],
            group |-> {InitPrio[Idle]},
            nest  |-> 0]
    /\ pc  = [t \in Thread |-> "user"]
    /\ arg = [t \in Thread |-> t]
    /\ late = {}

\* the processor executes thread t, which has reached label
At(t, label) == k.cur = t /\ pc[t] = label

\* a call that blocks or ends the thread is made with the scheduler unlocked
MayBlock(t) == At(t, "user") /\ k.nest = 0

Owns(t, u) == u \in DOMAIN Owner /\ Owner[u] = t

\* the section changes the kernel state to kk, and t goes on at label
Goto(t, kk, label) ==
    k' = kk /\ pc' = [pc EXCEPT ![t] = label] /\ UNCHANGED <<arg, late>>

Enter(t, u, kk, label) ==
    /\ k' = kk /\ pc' = [pc EXCEPT ![t] = label] /\ arg' = [arg EXCEPT ![t] = u]
    /\ UNCHANGED late

\* rt_schedule leaves nobody behind, unless the scheduler is locked
Switched == late' = IF k.nest = 0 THEN {} ELSE late

\* the section ends with rt_schedule, and t goes on at label
Switch(t, kk, label) ==
    k' = rt_schedule(kk) /\ pc' = [pc EXCEPT ![t] = label] /\ UNCHANGED arg /\ Switched

-----------------------------------------------------------------------------
(* rt_thread_init and rt_thread_create: the object is new, or a static one *)
(* that is used again.                                                     *)

Create(t, u) ==
    /\ At(t, "user") /\ Owns(t, u)
    /\ k.stat[u] = "NONE" \/ (k.stat[u] = "CLOSE" /\ u \in Static)
    /\ k' = [k EXCEPT !.stat[u] = "INIT", !.yield[u] = FALSE,
                      !.prio[u] = InitPrio[u], !.error[u] = "EOK"]
    /\ pc' = [pc EXCEPT ![u] = "user"]
    /\ UNCHANGED <<arg, late>>

\* rt_thread_startup up to the check of rt_thread_resume, which it calls
Startup(t, u) ==
    /\ At(t, "user") /\ Owns(t, u) /\ k.stat[u] = "INIT"
    /\ Enter(t, u, [k EXCEPT !.prio[u] = InitPrio[u], !.yield[u] = FALSE,
                             !.stat[u] = "SUSPEND"], "startup")

\* rt_thread_resume: the state is read before interrupts are disabled ...
Resume(t, u) ==
    /\ At(t, "user") /\ Owns(t, u) /\ u \in Controlled
    /\ k.stat[u] = "SUSPEND"
    /\ Enter(t, u, k, "resume")

\* ... the thread is unlinked and its timer stopped with them disabled ...
ResumeUnlink(t) ==
    \/ At(t, "resume")  /\ Goto(t, rt_thread_unlink(k, arg[t]), "insert")
    \/ At(t, "startup") /\ Goto(t, rt_thread_unlink(k, arg[t]), "started")

\* ... and it is made ready in a section of its own.  rt_thread_startup goes on
\* to rt_schedule; rt_thread_resume returns to its caller.
ResumeInsert(t) ==
    \/ /\ At(t, "insert")
       /\ k' = rt_schedule_insert_thread(k, arg[t])
       /\ pc' = [pc EXCEPT ![t] = "user"] /\ UNCHANGED arg
       /\ late' = late \cup {arg[t]}
    \/ /\ At(t, "started")
       /\ Goto(t, rt_schedule_insert_thread(k, arg[t]), "schedule")

\* rt_thread_suspend of another thread: the state is read first
SuspendOther(t, u) ==
    /\ At(t, "user") /\ Owns(t, u) /\ u \in Controlled
    /\ k.stat[u] = "READY"
    /\ Enter(t, u, k, "suspend")

SuspendSection(t) ==
    At(t, "suspend") /\ Goto(t, rt_thread_suspend_section(k, arg[t]), "user")

\* rt_thread_suspend of the thread itself, which must be followed by rt_schedule
SuspendSelf(t) ==
    /\ MayBlock(t) /\ t \in Controlled \cup IsrResumes
    /\ Goto(t, rt_thread_suspend(k, t), "sleep")

Schedule(t) == At(t, "schedule") /\ Switch(t, k, "user")

\* rt_thread_yield is a call of rt_schedule and nothing else
Yield(t) == At(t, "user") /\ Goto(t, k, "yield")

YieldSchedule(t) == At(t, "yield") /\ Switch(t, k, "user")

\* mutant: the timer is started before rt_thread_suspend, which stops it
Sleep_TimerFirst(t) ==
    /\ MayBlock(t) /\ t \in Sleepers
    /\ Goto(t, rt_thread_suspend(rt_timer_start(k, t), t), "sleep")

\* rt_thread_sleep and rt_thread_delay
Sleep(t) ==
    /\ MayBlock(t) /\ t \in Sleepers
    /\ Goto(t, rt_timer_start(rt_thread_suspend(k, t), t), "sleep")

\* mutant: rt_schedule is forgotten
SleepSchedule_Forgotten(t) == At(t, "sleep") /\ Goto(t, k, "woken")

SleepSchedule(t) == At(t, "sleep") /\ Switch(t, k, "woken")

\* the sleeper executes again and clears the error of its time-out
Woken(t) ==
    /\ At(t, "woken")
    /\ Goto(t, [k EXCEPT !.error[t] = IF @ = "ETIMEOUT" THEN "EOK" ELSE @], "user")

\* rt_thread_control, the only call that changes a priority: a ready thread moves
\* to the list of its new priority, and the caller runs on
ChangePriority(t, u, p) ==
    /\ At(t, "user") /\ Owns(t, u) /\ u \in Controlled
    /\ k.stat[u] \in {"READY", "SUSPEND"}
    /\ k' = rt_thread_change_priority(k, u, p)
    /\ UNCHANGED <<pc, arg>>
    /\ late' = late \cup {u}

\* mutant: the thread is not removed from its ready list
Delete_LeavesQueue(t, u) ==
    /\ At(t, "user") /\ Owns(t, u) /\ u \in Deletable /\ u # t
    /\ k.stat[u] \in {"INIT", "READY", "SUSPEND"}
    /\ Enter(t, u, k, "delete_timer")

\* rt_thread_delete, or rt_thread_detach of a static thread: first the
\* thread leaves the list it is on ...
Delete(t, u) ==
    /\ At(t, "user") /\ Owns(t, u) /\ u \in Deletable /\ u # t
    /\ k.stat[u] \in {"INIT", "READY", "SUSPEND"}
    /\ Enter(t, u,
             IF k.stat[u] = "INIT" THEN k ELSE rt_schedule_remove_thread(k, u),
             "delete_timer")

\* ... then its timer is detached ...
DeleteTimer(t) ==
    At(t, "delete_timer") /\ Goto(t, rt_timer_stop(k, arg[t]), "delete_close")

\* ... then it is closed, and left to the idle thread unless it is static
DeleteClose(t) ==
    LET u      == arg[t]
        closed == [k EXCEPT !.stat[u] = "CLOSE", !.yield[u] = FALSE]
    IN  /\ At(t, "delete_close")
        /\ Goto(t, IF u \in Static THEN closed
                   ELSE rt_list_insert_after(closed, rt_thread_defunct, u),
                "user")

\* mutant: the dead thread is not handed to the idle thread
Exit_Leaks(t) ==
    /\ MayBlock(t) /\ t \in Exiting
    /\ Switch(t, [rt_schedule_remove_thread(k, t) EXCEPT
                      !.stat[t] = "CLOSE", !.yield[t] = FALSE], "user")

\* rt_thread_exit, one section
Exit(t) ==
    LET closed == rt_timer_stop([rt_schedule_remove_thread(k, t) EXCEPT
                                     !.stat[t] = "CLOSE", !.yield[t] = FALSE], t)
        left   == IF t \in Static THEN closed
                  ELSE rt_list_insert_after(closed, rt_thread_defunct, t)
    IN  MayBlock(t) /\ t \in Exiting /\ Switch(t, left, "user")

EnterCritical(t) ==
    /\ At(t, "user") /\ t # Idle /\ k.nest < MaxNest
    /\ Goto(t, [k EXCEPT !.nest = @ + 1], "user")

\* mutant: the level is not reset when it falls below 0
ExitCritical_Unclamped(t) ==
    /\ At(t, "user") /\ t # Idle
    /\ Goto(t, [k EXCEPT !.nest = @ - 1], IF k.nest <= 1 THEN "schedule" ELSE "user")

\* mutant: the scheduler is unlocked and not called
ExitCritical_NoSchedule(t) ==
    /\ At(t, "user") /\ t # Idle
    /\ Goto(t, [k EXCEPT !.nest = IF @ <= 1 THEN 0 ELSE @ - 1], "user")

\* an unbalanced rt_exit_critical leaves the level at 0
ExitCritical(t) ==
    /\ At(t, "user") /\ t # Idle
    /\ IF k.nest <= 1 THEN Goto(t, [k EXCEPT !.nest = 0], "schedule")
       ELSE Goto(t, [k EXCEPT !.nest = @ - 1], "user")

-----------------------------------------------------------------------------
(* rt_thread_idle_excute: take a dead thread off the list, then free it.   *)

IdleReap ==
    LET u == Head(k.list[rt_thread_defunct]) IN
    /\ At(Idle, "user") /\ k.list[rt_thread_defunct] # << >>
    /\ k' = rt_schedule(rt_list_remove(k, u)) /\ Switched
    /\ pc' = [pc EXCEPT ![Idle] = "free"] /\ arg' = [arg EXCEPT ![Idle] = u]

IdleFree ==
    /\ At(Idle, "free")
    /\ Goto(Idle, [k EXCEPT !.stat[arg[Idle]] = "NONE"], "user")

-----------------------------------------------------------------------------
(* The interrupts.                                                         *)

\* rt_tick_increase, when the slice of the running thread has run out
TickSlice == k' = rt_tick_slice_over(k) /\ UNCHANGED <<pc, arg>> /\ Switched

\* rt_timer_check, when the timer of a thread has expired
TimerExpires(t) ==
    t \in k.timer /\ k' = rt_thread_timeout(k, t) /\ UNCHANGED <<pc, arg>> /\ Switched

\* a driver resumes a thread that has suspended itself to wait for it
IsrResume(u) ==
    /\ u \in IsrResumes /\ k.stat[u] = "SUSPEND" /\ pc[u] \in {"sleep", "woken"}
    /\ k' = rt_schedule(rt_thread_resume(k, u))
    /\ UNCHANGED <<pc, arg>> /\ Switched

-----------------------------------------------------------------------------
(* What a thread does by itself, to another, and inside a call.            *)

Calls(t) ==
    \/ SuspendSelf(t) \/ Yield(t) \/ Sleep(t) \/ Exit(t)
    \/ EnterCritical(t) \/ ExitCritical(t)

Continues(t) ==
    \/ ResumeUnlink(t) \/ ResumeInsert(t) \/ Schedule(t)
    \/ SuspendSection(t) \/ YieldSchedule(t) \/ SleepSchedule(t) \/ Woken(t)
    \/ DeleteTimer(t) \/ DeleteClose(t)

CallsOn(t, u) ==
    \/ Create(t, u) \/ Startup(t, u) \/ Resume(t, u) \/ SuspendOther(t, u)
    \/ Delete(t, u) \/ \E p \in Prio : ChangePriority(t, u, p)

Interrupt ==
    TickSlice \/ \E t \in Thread : TimerExpires(t) \/ IsrResume(t)

Next ==
    \/ \E t \in Thread :
           Calls(t) \/ Continues(t) \/ \E u \in Thread : CallsOn(t, u)
    \/ IdleReap \/ IdleFree
    \/ Interrupt

Spec == Init /\ [][Next]_vars

-----------------------------------------------------------------------------
(* Fairness: a call that has begun goes on, critical sections end, ticks   *)
(* come, and a thread is not preempted so often that it never takes a step *)
(* (a slice is many cycles).  Nothing makes a thread begin a call.         *)

Fairness ==
    /\ \A t \in Thread : SF_vars(Continues(t)) /\ SF_vars(k.nest > 0 /\ ExitCritical(t))
    /\ \A t \in Thread : WF_vars(TimerExpires(t))
    /\ SF_vars(IdleReap) /\ SF_vars(IdleFree)
    /\ WF_vars(TickSlice)

FairSpec == Spec /\ Fairness

-----------------------------------------------------------------------------
(* Properties.                                                             *)

TypeOK ==
    /\ k \in KernelState
    /\ pc \in [Thread -> Label]
    /\ arg \in [Thread -> Thread]
    /\ late \subseteq Thread

\* the threads a deletion has taken off their list and not yet closed
Taken(p, a) == {a[t] : t \in {u \in Thread : p[u] \in {"delete_timer", "delete_close"}}}
Off == Taken(pc, arg)

\* The lists, the bitmap, the thread states and the timers agree between any
\* two sections: what _get_highest_priority_thread, rt_list_remove and the
\* assertion of rt_thread_timeout take for granted.
ListsAgree == KernelInv(k, Off)

\* The call of t about thread a[t], when it has reached p[t].
CallAgrees(j, p, a, t) ==
    LET u == a[t] IN
    /\ p[t] \in {"suspend", "resume", "insert", "startup", "started",
               "delete_timer", "delete_close"} =>
           Owns(t, u) /\ j.stat[t] \in {"READY", "RUNNING", "SUSPEND"}
    /\ p[t] \in {"resume", "insert", "startup", "started"} =>
           /\ j.stat[u] = "SUSPEND" /\ u \notin j.timer /\ u # j.cur
           /\ u \in IsrResumes => p[u] \notin {"sleep", "woken"}
    /\ p[t] = "suspend" =>
           u \in Controlled /\ j.stat[u] \in {"READY", "RUNNING", "SUSPEND"}
    /\ p[t] \in {"delete_timer", "delete_close"} =>
           /\ u \in Deletable /\ j.stat[u] \in {"INIT", "READY", "SUSPEND"}
           /\ OffLists(j, u) /\ u # j.cur
    /\ p[t] = "free" =>
           t = Idle /\ j.stat[u] = "CLOSE" /\ OffLists(j, u) /\ u \notin Static

\* Only the dead wait, to be freed; only sleepers have a timer; a new thread is
\* in no call; no thread goes to sleep with the scheduler locked; and there is
\* always the idle thread.
RestAgrees(j, p) ==
    /\ \A l \in WaitList : \A t \in ToSet(j.list[l]) :
           l = rt_thread_defunct /\ j.stat[t] = "CLOSE" /\ t \notin Static
    /\ j.timer \subseteq Sleepers
    /\ \A t \in Thread : j.stat[t] = "INIT" => p[t] = "user"
    /\ j.nest # 0 => p[j.cur] # "sleep"
    /\ p[Idle] \in {"user", "free", "yield"}
    /\ j.stat[Idle] \in {"READY", "RUNNING"}
    /\ j.prio[Idle] = RT_THREAD_PRIORITY_MAX - 1

\* What a call that has let interrupts in relies on: the thread it is about is
\* still as the last section of the call left it.
CallsAgree ==
    (\A t \in Thread : CallAgrees(k, pc, arg, t)) /\ RestAgrees(k, pc)

\* rt_thread_delete: the thread "will be removed from thread queue".
ClosedIsOffQueues ==
    \A t \in Thread : k.stat[t] = "CLOSE" => \A p \in Prio : ~OnList(k, t, p)

\* Fixed-priority preemption: unless a call still owes its rt_schedule or the
\* scheduler is locked, no READY thread outranks the current one, but one that
\* rt_thread_resume or a change of priority has left to its caller: the start of
\* a thread, its deletion and its exit, a time-out, a slice and a wake-up from an
\* interrupt all end in a switch that leaves nobody behind.
HighestPriorityRuns ==
    k.nest = 0 /\ pc[k.cur] \notin {"schedule", "sleep"} =>
        \A t \in Thread \ (Off \cup late) :
            k.stat[t] = "READY" => k.prio[k.cur] <= k.prio[t]

\* Outside the call that suspends it, the thread the processor executes is
\* RUNNING: a thread goes on from a sleep only after its timer or a resume.
OnlyRunnableRuns == pc[k.cur] # "sleep" => k.stat[k.cur] = "RUNNING"

\* A thread that has ended never runs again: it is freed, or made anew.
DeadStaysDead ==
    [][\A t \in Thread : k.stat[t] = "CLOSE" =>
           k'.stat[t] \in {"CLOSE", "NONE", "INIT"}]_vars

\* A running thread loses the processor only to a higher priority, or to its
\* own priority when a time slice of it has ended since it was switched to.
PreemptionJustified ==
    [][k.stat[k.cur] = "RUNNING" /\ k'.stat[k.cur] = "READY" =>
           \/ k'.prio[k'.cur] < k.prio[k.cur]
           \/ k'.prio[k'.cur] = k.prio[k.cur] /\ (TickSlice \/ k.yield[k.cur])]_vars

\* Time slices share the processor among the threads of one priority.
EveryReadyThreadRuns ==
    \A t \in Thread \ {Idle} : k.stat[t] = "READY" ~> k.cur = t

\* A thread that has gone to sleep returns from its sleep.
SleepersWake == \A t \in Sleepers : pc[t] \in {"sleep", "woken"} ~> pc[t] = "user"

\* If the idle thread keeps getting the processor and from some time on no
\* thread ends, the dead are freed.  (It takes the last of them first: while
\* threads keep ending, an earlier one may wait for ever.)
DeadAreFreed ==
    ([]<>(k.cur = Idle) /\ <>[][\A u \in Thread : ~Exit(u)]_vars) =>
        \A t \in Thread \ Static : k.stat[t] = "CLOSE" ~> k.stat[t] = "NONE"
=============================================================================
