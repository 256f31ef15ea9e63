------------------------------ MODULE RTKernel ------------------------------
(***************************************************************************)
(* The kernel services every RT-Thread object is built from: the thread    *)
(* lists, the bitmap scheduler, suspension, resumption, time-outs.         *)
(* src/rt-thread/src/scheduler.c, thread.c, and the list helpers of ipc.c, *)
(* as built for one core (no RT_USING_SMP, no RT_USING_SIGNALS).           *)
(*                                                                         *)
(* The module has no variables.  A kernel state is a record k, and a C     *)
(* function that changes it is an operator k |-> k', so that a section the *)
(* code runs with interrupts disabled is a composition of operators and    *)
(* one step of the specifications that extend this module.                 *)
(***************************************************************************)
EXTENDS Lists

CONSTANTS
    Thread,                  \* the thread objects
    WaitList,                \* every list head other than the ready lists
    RT_THREAD_PRIORITY_MAX   \* priorities are 0 (highest) .. this - 1

Prio     == 0 .. RT_THREAD_PRIORITY_MAX - 1
ListHead == Prio \cup WaitList

ASSUME KernelAssumption ==
    /\ RT_THREAD_PRIORITY_MAX \in Nat \ {0}
    /\ WaitList \cap Prio = {}

\* thread->stat & RT_THREAD_STAT_MASK; "NONE" is an object not yet allocated
Stat  == {"NONE", "INIT", "READY", "SUSPEND", "RUNNING", "CLOSE"}
Error == {"EOK", "ERROR", "ETIMEOUT"}

\* cur     rt_current_thread
\* stat    thread->stat without its flags
\* yield   RT_THREAD_STAT_YIELD in thread->stat
\* prio    thread->current_priority, and number_mask with it
\* error   thread->error
\* timer   the threads whose thread_timer is active
\* list    rt_thread_priority_table, the suspend lists, rt_thread_defunct
\* group   rt_thread_ready_priority_group, as the set of its bits
\* nest    rt_scheduler_lock_nest
KernelState ==
    [cur   : Thread,
     stat  : [Thread -> Stat],
     yield : [Thread -> BOOLEAN],
     prio  : [Thread -> Prio],
     error : [Thread -> Error],
     timer : SUBSET Thread,
     list  : [ListHead -> Seq(Thread)],
     group : SUBSET Prio,
     nest  : Nat]

-----------------------------------------------------------------------------
(* rtservice.h: a thread is linked through its one node, thread->tlist.    *)

OnList(k, t, l) == t \in ToSet(k.list[l])

OffLists(k, t) == \A l \in ListHead : ~OnList(k, t, l)

rt_list_remove(k, t) ==
    [k EXCEPT !.list = [l \in ListHead |-> Without(k.list[l], t)]]

\* before the head is the tail of the list
rt_list_insert_before(k, l, t) == [k EXCEPT !.list[l] = Append(@, t)]

rt_list_insert_after(k, l, t) == [k EXCEPT !.list[l] = <<t>> \o @]

-----------------------------------------------------------------------------
(* timer.c, seen from a thread: its one-shot timer is active or it is not. *)

rt_timer_start(k, t) == [k EXCEPT !.timer = @ \cup {t}]
rt_timer_stop(k, t)  == [k EXCEPT !.timer = @ \ {t}]

-----------------------------------------------------------------------------
(* scheduler.c                                                             *)

\* mutant: the thread is put at the head of its list, not at the tail
rt_schedule_insert_thread_AtHead(k, t) ==
    IF t = k.cur
    THEN [k EXCEPT !.stat[t] = "RUNNING"]
    ELSE [rt_list_insert_after(k, k.prio[t], t) EXCEPT
             !.stat[t] = "READY",
             !.group   = @ \cup {k.prio[t]}]

rt_schedule_insert_thread(k, t) ==
    IF t = k.cur
    THEN [k EXCEPT !.stat[t] = "RUNNING"]
    ELSE [rt_list_insert_before(k, k.prio[t], t) EXCEPT
             !.stat[t] = "READY",
             !.group   = @ \cup {k.prio[t]}]

\* mutant: the bit of a ready list that becomes empty is not cleared
rt_schedule_remove_thread_KeepsBit(k, t) == rt_list_remove(k, t)

rt_schedule_remove_thread(k, t) ==
    LET r == rt_list_remove(k, t) IN
    [r EXCEPT !.group = IF r.list[k.prio[t]] = << >> THEN @ \ {k.prio[t]} ELSE @]

\* __rt_ffs(rt_thread_ready_priority_group) - 1
HighestReadyPriority(k) == CHOOSE p \in k.group : \A q \in k.group : p <= q

\* mutant: an equal priority preempts without the end of the slice
KeepsRunning_IgnoresSlice(k) ==
    /\ k.stat[k.cur] = "RUNNING"
    /\ k.prio[k.cur] < HighestReadyPriority(k)

\* the running thread keeps the processor against the best ready priority
KeepsRunning(k) ==
    /\ k.stat[k.cur] = "RUNNING"
    /\ \/ k.prio[k.cur] < HighestReadyPriority(k)
       \/ k.prio[k.cur] = HighestReadyPriority(k) /\ ~k.yield[k.cur]

\* from_thread back to its ready list, to_thread off its own and running
SwitchTo(k, to) ==
    LET from     == k.cur
        running  == k.stat[from] = "RUNNING"
        switched == [k EXCEPT !.cur = to,
                              !.yield[from] = IF running THEN FALSE ELSE @]
        queued   == IF running THEN rt_schedule_insert_thread(switched, from)
                               ELSE switched
    IN  [rt_schedule_remove_thread(queued, to) EXCEPT !.stat[to] = "RUNNING"]

rt_schedule(k) ==
    IF k.nest # 0 \/ k.group = {} THEN k
    ELSE IF KeepsRunning(k) THEN rt_schedule_remove_thread(k, k.cur)
    ELSE SwitchTo(k, Head(k.list[HighestReadyPriority(k)]))

-----------------------------------------------------------------------------
(* thread.c                                                                *)

\* the part of rt_thread_suspend that runs with interrupts disabled
rt_thread_suspend_section(k, t) ==
    rt_timer_stop([rt_schedule_remove_thread(k, t) EXCEPT !.stat[t] = "SUSPEND"], t)

rt_thread_suspend(k, t) ==
    IF k.stat[t] \in {"READY", "RUNNING"} THEN rt_thread_suspend_section(k, t) ELSE k

\* mutant: the timer of the resumed thread goes on
rt_thread_unlink_KeepsTimer(k, t) == rt_list_remove(k, t)

\* the part of rt_thread_resume that runs with interrupts disabled; it leaves
\* the thread on no list until rt_schedule_insert_thread
rt_thread_unlink(k, t) == rt_timer_stop(rt_list_remove(k, t), t)

\* rt_thread_resume as its callers that have interrupts disabled see it
rt_thread_resume(k, t) ==
    IF k.stat[t] # "SUSPEND" THEN k
    ELSE rt_schedule_insert_thread(rt_thread_unlink(k, t), t)

\* rt_timer_check has taken the expired timer off its list
rt_thread_timeout(k, t) ==
    LET expired == [rt_timer_stop(k, t) EXCEPT !.error[t] = "ETIMEOUT"]
    IN  rt_schedule(rt_schedule_insert_thread(rt_list_remove(expired, t), t))

\* rt_thread_control(t, RT_THREAD_CTRL_CHANGE_PRIORITY, &p)
rt_thread_change_priority(k, t, p) ==
    IF k.stat[t] = "READY"
    THEN rt_schedule_insert_thread(
             [rt_schedule_remove_thread(k, t) EXCEPT !.prio[t] = p], t)
    ELSE [k EXCEPT !.prio[t] = p]

-----------------------------------------------------------------------------
(* clock.c: the running thread has used up its time slice.                 *)

rt_tick_slice_over(k) == rt_schedule([k EXCEPT !.yield[k.cur] = TRUE])

-----------------------------------------------------------------------------
(* ipc.c: the list of the threads waiting for an object.                   *)

IPCFlag == {"FIFO", "PRIO"}

\* before the first waiter of a lower priority, or at the tail
PrioPosition(k, s, t) ==
    CHOOSE i \in 1 .. Len(s) + 1 :
        /\ \A j \in 1 .. i - 1 : k.prio[s[j]] <= k.prio[t]
        /\ i <= Len(s) => k.prio[t] < k.prio[s[i]]

\* mutant: the waiter is put at the head of the list
rt_ipc_list_suspend_AtHead(k, l, t, flag) ==
    rt_list_insert_after(rt_thread_suspend(k, t), l, t)

rt_ipc_list_suspend(k, l, t, flag) ==
    LET s == rt_thread_suspend(k, t) IN
    IF flag = "FIFO" THEN rt_list_insert_before(s, l, t)
    ELSE [s EXCEPT !.list[l] = InsertAt(@, PrioPosition(s, @, t), t)]

rt_ipc_list_resume(k, l) == rt_thread_resume(k, Head(k.list[l]))

\* mutant: the waiter is not told
rt_ipc_list_resume_error_NoError(k, l) == rt_thread_resume(k, Head(k.list[l]))

\* one turn of the loop of rt_ipc_list_resume_all
rt_ipc_list_resume_error(k, l) ==
    LET t == Head(k.list[l])
    IN  rt_thread_resume([k EXCEPT !.error[t] = "ERROR"], t)

-----------------------------------------------------------------------------
(* What every operation must find and leave.  The threads of Off are in    *)
(* the hands of an operation that has taken them off their list.           *)

\* a node is linked into one place at most
LinkedOnce(k) ==
    /\ \A l \in ListHead : IsInjective(k.list[l])
    /\ \A l, m \in ListHead :
           l # m => ToSet(k.list[l]) \cap ToSet(k.list[m]) = {}

\* a ready list holds exactly the READY threads of its priority
ReadyListsAgree(k, Off) ==
    /\ \A p \in Prio : \A t \in ToSet(k.list[p]) :
           k.stat[t] = "READY" /\ k.prio[t] = p
    /\ \A t \in Thread \ Off : k.stat[t] = "READY" => OnList(k, t, k.prio[t])

\* a thread that waits, or is dead, is not in the hands of the scheduler
WaitListsAgree(k) ==
    \A l \in WaitList : \A t \in ToSet(k.list[l]) : k.stat[t] \in {"SUSPEND", "CLOSE"}

\* the bitmap has the bit of exactly the ready lists that hold a thread
GroupAgrees(k) == \A p \in Prio : p \in k.group <=> k.list[p] # << >>

\* one thread at most is RUNNING: the current one, which is on no ready list
OneRunning(k) ==
    /\ \A t \in Thread : k.stat[t] = "RUNNING" => t = k.cur
    /\ k.stat[k.cur] # "READY"

\* the assertion of rt_thread_timeout: a timer finds its thread suspended
TimersAgree(k) == \A t \in k.timer : k.stat[t] = "SUSPEND"

KernelInv(k, Off) ==
    /\ LinkedOnce(k)
    /\ ReadyListsAgree(k, Off)
    /\ WaitListsAgree(k)
    /\ GroupAgrees(k)
    /\ OneRunning(k)
    /\ TimersAgree(k)
=============================================================================
