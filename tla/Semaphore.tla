------------------------------ MODULE Semaphore ------------------------------
(***************************************************************************)
(* One semaphore of ipc.c: threads take it and wait for it, threads and    *)
(* interrupts release it, it is reset, detached and initialised again.     *)
(***************************************************************************)
EXTENDS Callers

CONSTANTS
    sem,           \* sem->parent.suspend_thread
    Flag,          \* sem->parent.parent.flag
    InitValue,     \* the value given to rt_sem_init
    ResetValue,    \* the values given to RT_IPC_CMD_RESET
    ValueRange,    \* sem->value is 0 .. ValueRange - 1 (2^16 in the code)
    ValueBound,    \* no release when the value has reached this bound
    Taker,         \* the threads that take the semaphore
    WaitTime,      \* the times each may give: "no", "ticks", "forever"
    Releaser,      \* the threads that release it
    IsrReleases,   \* TRUE if an interrupt releases it
    Resetter,      \* the threads that reset it
    Owner,         \* the threads that detach it and initialise it again
    CarefulOwner,  \* TRUE if it is not detached while timed takes wait
    Locker,        \* the threads that lock the scheduler around their calls
    LockedTake     \* TRUE if a take may wait with the scheduler locked

VARIABLES value, inuse
vars == <<k, pc, value, inuse>>

ASSUME SemaphoreAssumption ==
    /\ sem \in WaitList /\ Flag \in IPCFlag
    /\ ValueRange \in Nat /\ ValueBound \in Nat
    /\ {InitValue} \cup ResetValue \subseteq 0 .. ValueRange - 1
    /\ Taker \cup Releaser \cup Resetter \cup Owner \cup Locker
         \subseteq Thread \ {Idle}
    /\ WaitTime \in [Taker -> SUBSET {"no", "ticks", "forever"}]
    /\ {IsrReleases, CarefulOwner, LockedTake} \subseteq BOOLEAN

Label == {"user", "wait", "woken", "schedule", "got", "failed", "detach", "detach_one"}

Empty(kk) == kk.list[sem] = << >>

Init == CallersInit /\ value = InitValue /\ inuse = TRUE

-----------------------------------------------------------------------------
(* rt_sem_take                                                             *)

TakeToken(t) ==
    /\ At(t, "user") /\ t \in Taker /\ inuse /\ value > 0
    /\ value' = value - 1
    /\ Goto(t, k, "got") /\ UNCHANGED inuse

TakeNoWait(t) ==
    /\ At(t, "user") /\ t \in Taker /\ inuse /\ value = 0 /\ "no" \in WaitTime[t]
    /\ Goto(t, k, "failed") /\ UNCHANGED <<value, inuse>>

\* mutant: the timer is started before the suspension, which stops it
TakeWait_TimerFirst(t, time) ==
    LET ok    == [k EXCEPT !.error[t] = "EOK"]
        timed == IF time = "ticks" THEN rt_timer_start(ok, t) ELSE ok
    IN  /\ At(t, "user") /\ inuse /\ value = 0
        /\ t \in Taker /\ time \in WaitTime[t] /\ (k.nest = 0 \/ LockedTake)
        /\ Goto(t, rt_ipc_list_suspend(timed, sem, t, Flag), "wait")
        /\ UNCHANGED <<value, inuse>>

TakeWait(t, time) ==
    LET listed == rt_ipc_list_suspend([k EXCEPT !.error[t] = "EOK"], sem, t, Flag) IN
    /\ At(t, "user") /\ inuse /\ value = 0
    /\ t \in Taker /\ time \in WaitTime[t] /\ (k.nest = 0 \/ LockedTake)
    /\ Goto(t, IF time = "ticks" THEN rt_timer_start(listed, t) ELSE listed, "wait")
    /\ UNCHANGED <<value, inuse>>

\* mutant: the thread goes on without a switch
TakeSchedule_Forgotten(t) == At(t, "wait") /\ Goto(t, k, "woken") /\ UNCHANGED <<value, inuse>>

TakeSchedule(t) == Schedule(t, "wait", "woken") /\ UNCHANGED <<value, inuse>>

\* mutant: thread->error is not looked at
TakeReturn_NoError(t) ==
    At(t, "woken") /\ Goto(t, k, "got") /\ UNCHANGED <<value, inuse>>

TakeReturn(t) ==
    /\ At(t, "woken")
    /\ Goto(t, k, IF k.error[t] = "EOK" THEN "got" ELSE "failed")
    /\ UNCHANGED <<value, inuse>>

\* the caller has the result and goes on
Finish(t) ==
    /\ k.cur = t /\ pc[t] \in {"got", "failed"}
    /\ Goto(t, k, "user") /\ UNCHANGED <<value, inuse>>

-----------------------------------------------------------------------------
(* rt_sem_release                                                          *)

AfterRelease == IF Empty(k) THEN k ELSE rt_ipc_list_resume(k, sem)

\* mutant: the value goes up although a waiter has been given the token
ValueAfterRelease_Twice == (value + 1) % ValueRange

ValueAfterRelease == IF Empty(k) THEN (value + 1) % ValueRange ELSE value

\* mutant: rt_schedule is not called after a waiter was resumed
Release_NoSchedule(t) ==
    /\ At(t, "user") /\ t \in Releaser /\ inuse /\ value < ValueBound
    /\ Goto(t, AfterRelease, "user")
    /\ value' = ValueAfterRelease /\ UNCHANGED inuse

Release(t) ==
    /\ At(t, "user") /\ t \in Releaser /\ inuse /\ value < ValueBound
    /\ Goto(t, AfterRelease, IF Empty(k) THEN "user" ELSE "schedule")
    /\ value' = ValueAfterRelease /\ UNCHANGED inuse

\* the whole call in an interrupt
IsrRelease ==
    /\ IsrReleases /\ inuse /\ value < ValueBound
    /\ k' = IF Empty(k) THEN k ELSE rt_schedule(AfterRelease)
    /\ value' = ValueAfterRelease /\ UNCHANGED <<pc, inuse>>

-----------------------------------------------------------------------------
(* rt_sem_control(sem, RT_IPC_CMD_RESET, v): rt_ipc_list_resume_all runs   *)
(* with the interrupts already disabled.                                   *)

rt_ipc_list_resume_all(kk) ==
    LET n          == Len(kk.list[sem])
        after[i \in 0 .. n] == IF i = 0 THEN kk
                              ELSE rt_ipc_list_resume_error(after[i - 1], sem)
    IN  after[n]

Reset(t, v) ==
    /\ At(t, "user") /\ t \in Resetter /\ inuse
    /\ Goto(t, rt_ipc_list_resume_all(k), "schedule")
    /\ value' = v /\ UNCHANGED inuse

CallSchedule(t) == Schedule(t, "schedule", "user") /\ UNCHANGED <<value, inuse>>

-----------------------------------------------------------------------------
(* rt_sem_detach, and rt_sem_delete: rt_ipc_list_resume_all with a section *)
(* for each waiter, and no rt_schedule after it.  The program makes no new *)
(* call on a semaphore that it detaches.                                   *)

Detach(t) ==
    /\ At(t, "user") /\ t \in Owner /\ inuse /\ inuse' = FALSE
    /\ CarefulOwner => k.timer = {}
    /\ Goto(t, k, "detach") /\ UNCHANGED value

\* the list is looked at with interrupts enabled
DetachCheck(t) ==
    /\ At(t, "detach") /\ Goto(t, k, IF Empty(k) THEN "user" ELSE "detach_one")
    /\ UNCHANGED <<value, inuse>>

\* of an empty list the code takes the head for a thread: no step is defined
DetachOne(t) ==
    /\ At(t, "detach_one") /\ ~Empty(k)
    /\ Goto(t, rt_ipc_list_resume_error(k, sem), "detach")
    /\ UNCHANGED <<value, inuse>>

\* rt_sem_init, rt_ipc_object_init
Reinit(t) ==
    /\ At(t, "user") /\ t \in Owner /\ ~inuse /\ inuse' = TRUE
    /\ Goto(t, [k EXCEPT !.list[sem] = << >>], "user")
    /\ value' = InitValue

-----------------------------------------------------------------------------
(* rt_enter_critical and rt_exit_critical around a call, to one level.     *)

EnterCritical(t) ==
    /\ At(t, "user") /\ t \in Locker /\ k.nest = 0
    /\ Goto(t, [k EXCEPT !.nest = 1], "user") /\ UNCHANGED <<value, inuse>>

ExitCritical(t) ==
    /\ At(t, "user") /\ k.nest = 1
    /\ Goto(t, [k EXCEPT !.nest = 0], "schedule") /\ UNCHANGED <<value, inuse>>

-----------------------------------------------------------------------------

Begins(t) ==
    \/ TakeToken(t) \/ TakeNoWait(t) \/ Release(t) \/ Detach(t) \/ Reinit(t)
    \/ \E time \in {"ticks", "forever"} : TakeWait(t, time)
    \/ \E v \in ResetValue : Reset(t, v)
    \/ EnterCritical(t) \/ ExitCritical(t)

Continues(t) ==
    \/ TakeSchedule(t) \/ TakeReturn(t) \/ Finish(t) \/ CallSchedule(t)
    \/ DetachCheck(t) \/ DetachOne(t)

Interrupt ==
    \/ IsrRelease
    \/ /\ TickSlice \/ \E t \in Thread : TimerExpires(t)
       /\ UNCHANGED <<value, inuse>>

Next == (\E t \in Thread : Begins(t) \/ Continues(t)) \/ Interrupt

Spec == Init /\ [][Next]_vars

\* calls that have begun go on when they have the processor, critical sections
\* end, timers expire and slices run out
Fairness ==
    /\ \A t \in Thread : SF_vars(Continues(t))
    /\ \A t \in Thread : SF_vars(ExitCritical(t))
    /\ \A t \in Thread : WF_vars(TimerExpires(t) /\ UNCHANGED <<value, inuse>>)
    /\ WF_vars(TickSlice /\ UNCHANGED <<value, inuse>>)

FairSpec == Spec /\ Fairness

-----------------------------------------------------------------------------
(* What the program respects when it uses the semaphore: one thread owns   *)
(* the object and detaches it when no timed take waits, for the loop of    *)
(* rt_ipc_list_resume_all looks at the list with interrupts enabled; and   *)
(* no take waits in a critical section, where rt_schedule does nothing.    *)

Discipline ==
    /\ CarefulOwner /\ ~LockedTake
    /\ \A t, u \in Owner : t = u

-----------------------------------------------------------------------------
(* Properties.                                                             *)

TypeOK ==
    /\ k \in KernelState
    /\ pc \in [Thread -> Label]
    /\ value \in 0 .. ValueRange - 1
    /\ inuse \in BOOLEAN

\* The kernel's own agreement, and the semaphore's: the threads that sleep are
\* those in its list, inside rt_sem_take, so that whoever is resumed from the
\* list or by its timer is a taker, and a timer never outlives the wait.
WaitersAgree ==
    /\ TypeOK /\ KernelInv(k, {})
    /\ \A t \in Thread : k.stat[t] = "SUSPEND" <=> OnList(k, t, sem)
    /\ \A t \in Thread : OnList(k, t, sem) => InWait(t) /\ k.error[t] = "EOK"
    /\ k.timer \subseteq ToSet(k.list[sem])

\* No lost wakeup: nobody waits while there are tokens.
NoneWaitsForNothing == value > 0 => Empty(k)

\* rt_sem_take returns RT_EOK to a thread that has been given a token: one that
\* waits for it is not past the call.
GrantsAreReal == \A t \in Thread : pc[t] \in {"got", "user"} => ~OnList(k, t, sem)

\* A resumed waiter of a higher priority has the processor once the release or
\* the reset that resumed it is over, and the scheduler is not locked.
HighestPriorityRuns ==
    k.nest = 0 /\ pc[k.cur] \notin {"schedule", "wait"} =>
        \A t \in Thread : k.stat[t] = "READY" => k.prio[k.cur] <= k.prio[t]

\* rt_ipc_list_resume_all "will resume all suspended threads in a list": what
\* it takes from the list is a thread.  The code keeps it only for an owner that
\* is careful: the last waiter may time out between the look and the section.
ResumesAThread == \A t \in Thread : At(t, "detach_one") => ~Empty(k)

\* RT_IPC_FLAG_PRIO: a token goes to a waiter that no other waiter outranks.
BestWaiterFirst ==
    [][\A t, u \in Thread :
           OnList(k, t, sem) /\ OnList(k, u, sem) /\ OnList(k', u, sem)
               /\ ~OnList(k', t, sem) /\ k'.error[t] = "EOK"
           => k.prio[t] <= k.prio[u]]_vars

-----------------------------------------------------------------------------
(* The semaphore implements its promise.  A thread has got a token, or has *)
(* failed, when it is resumed, before it executes again.                   *)

StateOf(t) ==
    IF pc[t] \in {"got", "failed"} THEN pc[t]
    ELSE IF Waiting(t, sem) THEN "waiting"
    ELSE IF WokenWith(t, {"EOK"}) THEN "got"
    ELSE IF WokenWith(t, {"ERROR", "ETIMEOUT"}) THEN "failed"
    ELSE "idle"

Promise == INSTANCE AbstractSemaphore
               WITH tokens <- value, open <- inuse,
                    state <- [t \in Taker |-> StateOf(t)]

ImplementsAbstract == Promise!Spec

\* A take with a time-out ends, for the taker that no thread outranks.
TimedTakesEnd ==
    \A t \in Taker :
        /\ WaitTime[t] \subseteq {"no", "ticks"}
        /\ \A u \in Thread : InitPrio[t] <= InitPrio[u]
        => (InWait(t) ~> ~InWait(t))

\* a release gives its token to a waiter
TokenHanded ==
    \E t \in Taker : OnList(k, t, sem) /\ ~OnList(k', t, sem) /\ k'.error[t] = "EOK"

\* With RT_IPC_FLAG_FIFO, if tokens keep being handed to waiters, every waiter
\* has its turn.
NoneStarves ==
    ([]<><<TokenHanded>>_vars) =>
        \A t \in Taker : OnList(k, t, sem) ~> ~OnList(k, t, sem)
=============================================================================
