------------------------------- MODULE Callers -------------------------------
(***************************************************************************)
(* Threads that run under rt_schedule, time slices and time-outs: what     *)
(* every module about an object that threads wait for has in common.  The  *)
(* modules that extend this one add the object and the calls on it; pc[t]  *)
(* is the place thread t has reached in its call.                          *)
(***************************************************************************)
EXTENDS RTKernel

CONSTANTS
    Idle,      \* the idle thread, which makes no call that waits
    InitPrio   \* thread->init_priority

VARIABLES k, pc

ASSUME CallersAssumption ==
    /\ Idle \in Thread /\ IsFiniteSet(Thread)
    /\ InitPrio \in [Thread -> Prio]
    /\ InitPrio[Idle] = RT_THREAD_PRIORITY_MAX - 1
    /\ \A t \in Thread \ {Idle} : InitPrio[t] < InitPrio[Idle]

-----------------------------------------------------------------------------
(* All the threads have been started, and rt_schedule has picked the best. *)

First == CHOOSE t \in Thread : \A u \in Thread : InitPrio[t] <= InitPrio[u]

ReadyAt(p) == SetToSeq({t \in Thread \ {First} : InitPrio[t] = p})

KernelInit ==
    [cur   |-> First,
     stat  |-> [t \in Thread |-> IF t = First THEN "RUNNING" ELSE "READY"],
     yield |-> [t \in Thread |-> FALSE],
     prio  |-> InitPrio,
     error |-> [t \in Thread |-> "EOK"],
     timer |-> {},
     list  |-> [l \in ListHead |-> IF l \in Prio THEN ReadyAt(l) ELSE << >>],
     group |-> {InitPrio[t] : t \in Thread \ {First}},
     nest  |-> 0]

CallersInit == k = KernelInit /\ pc = [t \in Thread |-> "user"]

\* the processor executes thread t, which has reached label
At(t, label) == k.cur = t /\ pc[t] = label

\* the section changes the kernel state to kk, and t goes on at label
Goto(t, kk, label) == k' = kk /\ pc' = [pc EXCEPT ![t] = label]

\* the rt_schedule a call ends with, or waits in
Schedule(t, from, to) == At(t, from) /\ Goto(t, rt_schedule(k), to)

\* rt_tick_increase, when the slice of the running thread has run out
TickSlice == k' = rt_tick_slice_over(k) /\ UNCHANGED pc

\* rt_timer_check, when the timer of a thread has expired
TimerExpires(t) == t \in k.timer /\ k' = rt_thread_timeout(k, t) /\ UNCHANGED pc

-----------------------------------------------------------------------------
(* rt_thread_delay: a thread waits for nothing but its timer.              *)

Sleep(t) ==
    At(t, "user") /\ Goto(t, rt_timer_start(rt_thread_suspend(k, t), t), "sleep")

SleepSchedule(t) == Schedule(t, "sleep", "slept")

SleepReturn(t) ==
    /\ At(t, "slept")
    /\ Goto(t, [k EXCEPT !.error[t] = IF @ = "ETIMEOUT" THEN "EOK" ELSE @], "user")

-----------------------------------------------------------------------------
(* The error a waiter reads when it executes again.                        *)

\* the thread waits for an object, or has been woken and not yet executed
InWait(t) == pc[t] \in {"wait", "woken"}

Waiting(t, l) == InWait(t) /\ OnList(k, t, l)

WokenWith(t, e) == InWait(t) /\ k.stat[t] # "SUSPEND" /\ k.error[t] \in e
=============================================================================
