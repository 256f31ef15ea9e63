-------------------------------- MODULE Mutex --------------------------------
(***************************************************************************)
(* The mutexes of ipc.c: recursive, with an owner that inherits the        *)
(* priority of its waiters, and handed over by the release.                *)
(***************************************************************************)
EXTENDS Callers

CONSTANTS
    Mutex,      \* the mutexes, each named by its list of waiters
    Flag,       \* mutex->parent.parent.flag
    RT_NULL,    \* the owner of a free mutex
    HoldRange,  \* mutex->hold is 0 .. HoldRange - 1 (2^8 in the code)
    MaxTakes,   \* bound on the takes a thread has not released
    Taker,      \* the threads that take mutexes
    WaitTime,   \* the times each may give: "no", "ticks", "forever"
    Sleepers,   \* the threads that sleep, with or without a mutex
    Nested      \* TRUE if a thread may take one mutex while it has another

\* arg[t]      the mutex rt_mutex_take waits for
\* held[t][m]  the takes of m that have succeeded for t, less its releases:
\*             what the program goes by
VARIABLES mutex, arg, held
vars == <<k, pc, mutex, arg, held>>

ASSUME MutexAssumption ==
    /\ Mutex \subseteq WaitList /\ Mutex # {} /\ Flag \in IPCFlag
    /\ RT_NULL \notin Thread
    /\ HoldRange \in Nat /\ MaxTakes \in 1 .. HoldRange - 1
    /\ RT_THREAD_PRIORITY_MAX < 255
    /\ Taker \cup Sleepers \subseteq Thread \ {Idle}
    /\ WaitTime \in [Taker -> SUBSET {"no", "ticks", "forever"}]
    /\ Nested \in BOOLEAN

Label == {"user", "wait", "woken", "schedule", "sleep", "slept"}

MutexState ==
    [value : 0 .. 1, owner : Thread \cup {RT_NULL},
     original_priority : Prio \cup {255}, hold : 0 .. HoldRange - 1]

\* rt_mutex_init
Free == [value |-> 1, owner |-> RT_NULL, original_priority |-> 255, hold |-> 0]

Init ==
    /\ CallersInit
    /\ mutex = [m \in Mutex |-> Free]
    /\ arg   = [t \in Thread |-> CHOOSE m \in Mutex : TRUE]
    /\ held  = [t \in Thread |-> [m \in Mutex |-> 0]]

Owned(t, hold) ==
    [value |-> 0, owner |-> t, original_priority |-> k.prio[t], hold |-> hold]

Waiters(m) == ToSet(k.list[m])

-----------------------------------------------------------------------------
(* rt_mutex_take; it resets thread->error first.                           *)

MayTake(t, m) ==
    /\ At(t, "user") /\ t \in Taker /\ held[t][m] < MaxTakes
    /\ Nested \/ \A n \in Mutex \ {m} : held[t][n] = 0

Cleared(t) == [k EXCEPT !.error[t] = "EOK"]

Succeeds(t, m) == held' = [held EXCEPT ![t][m] = @ + 1]

TakeAgain(t, m) ==
    /\ MayTake(t, m) /\ mutex[m].owner = t
    /\ mutex' = [mutex EXCEPT ![m].hold = (@ + 1) % HoldRange]
    /\ Goto(t, Cleared(t), "user") /\ Succeeds(t, m) /\ UNCHANGED arg

TakeFree(t, m) ==
    /\ MayTake(t, m) /\ mutex[m].owner # t /\ mutex[m].value > 0
    /\ mutex' = [mutex EXCEPT ![m] = Owned(t, (@.hold + 1) % HoldRange)]
    /\ Goto(t, Cleared(t), "user") /\ Succeeds(t, m) /\ UNCHANGED arg

Taken(t, m) == MayTake(t, m) /\ mutex[m].owner # t /\ mutex[m].value = 0

TakeNoWait(t, m) ==
    /\ Taken(t, m) /\ "no" \in WaitTime[t]
    /\ Goto(t, [k EXCEPT !.error[t] = "ETIMEOUT"], "user")
    /\ UNCHANGED <<mutex, arg, held>>

\* mutant: the owner keeps its priority
Inherits_Never(kk, t, o) == kk

\* the owner gets the priority of a waiter that outranks it
Inherits(kk, t, o) ==
    IF kk.prio[t] < kk.prio[o] THEN rt_thread_change_priority(kk, o, kk.prio[t]) ELSE kk

TakeWait(t, m, time) ==
    LET boosted == Inherits(Cleared(t), t, mutex[m].owner)
        listed  == rt_ipc_list_suspend(boosted, m, t, Flag)
    IN  /\ Taken(t, m) /\ time \in WaitTime[t]
        /\ Goto(t, IF time = "ticks" THEN rt_timer_start(listed, t) ELSE listed, "wait")
        /\ arg' = [arg EXCEPT ![t] = m] /\ UNCHANGED <<mutex, held>>

TakeSchedule(t) == Schedule(t, "wait", "woken") /\ UNCHANGED <<mutex, arg, held>>

TakeReturn(t) ==
    /\ At(t, "woken") /\ Goto(t, k, "user")
    /\ IF k.error[t] = "EOK" THEN Succeeds(t, arg[t]) ELSE UNCHANGED held
    /\ UNCHANGED <<mutex, arg>>

-----------------------------------------------------------------------------
(* rt_mutex_release                                                        *)

ReleaseNotOwned(t, m) ==
    /\ At(t, "user") /\ t \in Taker /\ mutex[m].owner # t
    /\ Goto(t, [k EXCEPT !.error[t] = "ERROR"], "user")
    /\ UNCHANGED <<mutex, arg, held>>

Releases(t, m) ==
    /\ At(t, "user") /\ mutex[m].owner = t /\ held[t][m] > 0
    /\ held' = [held EXCEPT ![t][m] = @ - 1] /\ UNCHANGED arg

ReleaseInner(t, m) ==
    /\ Releases(t, m) /\ mutex[m].hold > 1
    /\ mutex' = [mutex EXCEPT ![m].hold = @ - 1]
    /\ UNCHANGED <<k, pc>>

\* mutant: the owner keeps the priority it has inherited
Restored_Never(t, m) == k

\* the owner gets back the priority it had when it took the mutex
Restored(t, m) ==
    IF mutex[m].original_priority = k.prio[t] THEN k
    ELSE rt_thread_change_priority(k, t, mutex[m].original_priority)

ReleaseFree(t, m) ==
    /\ Releases(t, m) /\ mutex[m].hold = 1 /\ k.list[m] = << >>
    /\ mutex' = [mutex EXCEPT ![m] = Free]
    /\ Goto(t, Restored(t, m), "user")

\* mutant: the new owner does not hold the mutex yet
ReleaseHandOver_NoHold(t, m) ==
    /\ Releases(t, m) /\ mutex[m].hold = 1 /\ k.list[m] # << >>
    /\ mutex' = [mutex EXCEPT ![m] = Owned(Head(k.list[m]), 0)]
    /\ Goto(t, rt_ipc_list_resume(Restored(t, m), m), "schedule")

\* the first waiter owns the mutex before it executes again
ReleaseHandOver(t, m) ==
    /\ Releases(t, m) /\ mutex[m].hold = 1 /\ k.list[m] # << >>
    /\ mutex' = [mutex EXCEPT ![m] = Owned(Head(k.list[m]), 1)]
    /\ Goto(t, rt_ipc_list_resume(Restored(t, m), m), "schedule")

ReleaseSchedule(t) == Schedule(t, "schedule", "user") /\ UNCHANGED <<mutex, arg, held>>

-----------------------------------------------------------------------------

Takes(t, m) ==
    \/ TakeAgain(t, m) \/ TakeFree(t, m) \/ TakeNoWait(t, m)
    \/ \E time \in {"ticks", "forever"} : TakeWait(t, m, time)

ReleaseLast(t, m) == ReleaseFree(t, m) \/ ReleaseHandOver(t, m)

Sleeps(t) == t \in Sleepers /\ Sleep(t) /\ UNCHANGED <<mutex, arg, held>>

Continues(t) ==
    \/ TakeSchedule(t) \/ TakeReturn(t) \/ ReleaseSchedule(t)
    \/ (SleepSchedule(t) \/ SleepReturn(t)) /\ UNCHANGED <<mutex, arg, held>>

Interrupt ==
    /\ TickSlice \/ \E t \in Thread : TimerExpires(t)
    /\ UNCHANGED <<mutex, arg, held>>

Next ==
    \/ \E t \in Thread :
           \/ Sleeps(t) \/ Continues(t)
           \/ \E m \in Mutex : Takes(t, m) \/ ReleaseNotOwned(t, m)
                               \/ ReleaseInner(t, m) \/ ReleaseLast(t, m)
    \/ Interrupt

Spec == Init /\ [][Next]_vars

\* calls that have begun go on when they have the processor, timers expire and
\* slices run out, and a thread that has a mutex, and the processor again and
\* again, gives it up
Fairness ==
    /\ WF_vars(TickSlice /\ UNCHANGED <<mutex, arg, held>>)
    /\ \A t \in Thread :
        /\ SF_vars(Continues(t))
        /\ WF_vars(TimerExpires(t) /\ UNCHANGED <<mutex, arg, held>>)
        /\ \A m \in Mutex : SF_vars(ReleaseInner(t, m)) /\ SF_vars(ReleaseLast(t, m))

FairSpec == Spec /\ Fairness

-----------------------------------------------------------------------------
(* Properties.                                                             *)

TypeOK ==
    /\ k \in KernelState
    /\ pc \in [Thread -> Label]
    /\ mutex \in [Mutex -> MutexState]
    /\ arg \in [Thread -> Mutex]
    /\ held \in [Thread -> [Mutex -> 0 .. MaxTakes]]

\* the hand-over to t that t does not know of yet
Granted(t, m) ==
    InWait(t) /\ arg[t] = m /\ ~OnList(k, t, m) /\ k.error[t] = "EOK"

\* A mutex has the owner that its program goes by, held as often as it has been
\* taken; a hand-over and a time-out exclude each other; and nobody waits for a
\* mutex that is free or its own.
OwnersAgree ==
    /\ TypeOK /\ KernelInv(k, {})
    /\ \A m \in Mutex, t \in Thread :
           LET grants == held[t][m] + IF Granted(t, m) THEN 1 ELSE 0 IN
           IF mutex[m].owner = t THEN mutex[m].hold = grants /\ grants > 0
           ELSE grants = 0
    /\ \A m \in Mutex : mutex[m].owner = RT_NULL => mutex[m] = Free
    /\ \A m \in Mutex : Waiters(m) # {} =>
           mutex[m].owner \in Thread \ Waiters(m) /\ mutex[m].value = 0
    /\ \A t \in Thread : k.stat[t] = "SUSPEND" =>
           (InWait(t) /\ OnList(k, t, arg[t])) \/ (pc[t] \in {"sleep", "slept"} /\ t \in k.timer)
    /\ \A m \in Mutex : \A t \in Waiters(m) : InWait(t) /\ arg[t] = m

\* Priority inheritance: an owner runs at the best priority of its waiters.
NoInversion ==
    \A m \in Mutex : \A w \in Waiters(m) : k.prio[mutex[m].owner] <= k.prio[w]

\* rt_mutex_release will "change the owner thread to original priority": who
\* owns no mutex has its own priority.
PriorityRestored ==
    \A t \in Thread :
        (\A m \in Mutex : mutex[m].owner # t) => k.prio[t] = InitPrio[t]

\* What inheritance is for: a waiter that no thread outranks has its turn,
\* although a thread that outranks the owner never gives up the processor.
UrgentIsServed ==
    \A t \in Taker :
        (\A u \in Thread : InitPrio[t] <= InitPrio[u]) => (InWait(t) ~> ~InWait(t))
=============================================================================
