------------------------------ MODULE Blocking ------------------------------
(***************************************************************************)
(* Threads that wait, without the scheduler.  A module about an object     *)
(* whose correctness must not depend on who is switched to when extends    *)
(* this module instead of Callers: any thread that is not asleep may take  *)
(* the next step, which is what threads of one priority whose time slices  *)
(* end anywhere can do, and more than any other threads can.  What a       *)
(* section does to the threads is what the operators of RTKernel of the    *)
(* same name do, seen without the ready lists:                             *)
(*   asleep = {t : k.stat[t] = "SUSPEND"}.                                 *)
(* With one priority RT_IPC_FLAG_PRIO inserts where RT_IPC_FLAG_FIFO does. *)
(***************************************************************************)
EXTENDS Lists

CONSTANTS
    Thread,
    WaitList,                \* the lists of suspended threads
    suspend_thread,          \* the list of those who take or receive
    suspend_sender_thread,   \* the list of those who send
    Sender, Receiver,        \* the threads that send and that receive
    Resetter,                \* the threads that reset or end the object
    Message,                 \* what is sent
    Nil                      \* no value

ASSUME BlockingAssumption ==
    /\ Sender \cup Receiver \cup Resetter \subseteq Thread
    /\ {suspend_thread, suspend_sender_thread} \subseteq WaitList
    /\ suspend_thread # suspend_sender_thread
    /\ Nil \notin Message /\ IsFiniteSet(Thread)

\* s.asleep  the threads whose state is RT_THREAD_SUSPEND
\* s.timer   the threads whose thread_timer is active
\* s.error   thread->error
\* s.list    the lists of suspended threads
\* pc[t]     the place thread t has reached in its call
\* loc[t]    the local variables of that call
VARIABLES s, pc, loc
threadVars == <<s, pc, loc>>

\* "no" is RT_WAITING_NO, "forever" RT_WAITING_FOREVER
Time == {"no", "ticks", "forever"}

NoLocals == [time |-> "no", val |-> Nil]

BlockingInit ==
    /\ s = [asleep |-> {}, timer |-> {},
            error |-> [t \in Thread |-> "EOK"],
            list |-> [l \in WaitList |-> << >>]]
    /\ pc = [t \in Thread |-> "user"]
    /\ loc = [t \in Thread |-> NoLocals]

-----------------------------------------------------------------------------
(* The kernel operations.                                                  *)

Unlinked(list, t) == [l \in WaitList |-> Without(list[l], t)]

rt_timer_start(ss, t) == [ss EXCEPT !.timer = @ \cup {t}]

\* rt_thread_suspend of the calling thread and its insertion into a list
rt_ipc_list_suspend(ss, l, t) ==
    [ss EXCEPT !.asleep = @ \cup {t}, !.timer = @ \ {t}, !.list[l] = Append(@, t)]

rt_thread_resume(ss, t) ==
    IF t \notin ss.asleep THEN ss
    ELSE [ss EXCEPT !.asleep = @ \ {t}, !.timer = @ \ {t}, !.list = Unlinked(@, t)]

rt_ipc_list_resume(ss, l) == rt_thread_resume(ss, Head(ss.list[l]))

\* "if the list is not empty, resume its first thread"
ResumeOne(ss, l) == IF ss.list[l] = << >> THEN ss ELSE rt_ipc_list_resume(ss, l)

\* one turn of the loop of rt_ipc_list_resume_all
rt_ipc_list_resume_error(ss, l) ==
    [rt_ipc_list_resume(ss, l) EXCEPT !.error[Head(ss.list[l])] = "ERROR"]

rt_ipc_list_resume_all(ss, l) ==
    LET n          == Len(ss.list[l])
        after[i \in 0 .. n] == IF i = 0 THEN ss
                              ELSE rt_ipc_list_resume_error(after[i - 1], l)
    IN  after[n]

rt_thread_timeout(ss, t) ==
    [rt_thread_resume(ss, t) EXCEPT !.timer = @ \ {t}, !.error[t] = "ETIMEOUT"]

\* rt_timer_check, when the timer of a thread has expired
TimerExpires(t) ==
    t \in s.timer /\ s' = rt_thread_timeout(s, t) /\ UNCHANGED <<pc, loc>>

-----------------------------------------------------------------------------
(* The shape of the calls that wait: a loop around a test, in which the    *)
(* caller suspends itself, and which it enters again when it is resumed    *)
(* without an error, with what is left of its time.                        *)

Runs(t, label) == pc[t] = label /\ t \notin s.asleep

Goto(t, label) == pc' = [pc EXCEPT ![t] = label]

Begin(t, label, time, val) ==
    /\ Runs(t, "user")
    /\ Goto(t, label) /\ loc' = [loc EXCEPT ![t] = [time |-> time, val |-> val]]
    /\ UNCHANGED s

\* The locals end with the call, and so does the meaning of thread->error:
\* the next wait resets it before it is read, and it is EOK until then here.
Return(t) == Goto(t, "user") /\ loc' = [loc EXCEPT ![t] = NoLocals]

\* resumed, and about to look at the object again
Woken(t, wait) == Runs(t, wait) /\ s.error[t] = "EOK"

WaitingAt(wait) == {t \in s.asleep : pc[t] = wait}

WokenAt(wait) == {t \in Thread : Woken(t, wait)}

AtTest(t, call, wait) == Runs(t, call) \/ Woken(t, wait)

\* the waiting time when the test is made: it may have run out meanwhile
TimeLeft(t, call) ==
    IF pc[t] # call /\ loc[t].time = "ticks" THEN {"ticks", "no"} ELSE {loc[t].time}

\* the caller puts itself into list l, starts its timer, and waits
SuspendSelf(t, l, time, wait) ==
    LET listed == rt_ipc_list_suspend([s EXCEPT !.error[t] = "EOK"], l, t) IN
    /\ s' = IF time = "ticks" THEN rt_timer_start(listed, t) ELSE listed
    /\ Goto(t, wait) /\ loc' = [loc EXCEPT ![t].time = time]

\* resumed by the timer, or by the end or the reset of the object
WaitFails(t, wait) ==
    /\ Runs(t, wait) /\ s.error[t] # "EOK"
    /\ Return(t) /\ s' = [s EXCEPT !.error[t] = "EOK"]

-----------------------------------------------------------------------------

\* A thread is linked into one list at most and once, only while it is asleep,
\* and only a thread that is asleep can be timed out: what every hand-over
\* (rt_ipc_list_resume against rt_thread_timeout) relies on.
SleepersAgree ==
    /\ s.timer \subseteq s.asleep
    /\ \A l \in WaitList : IsInjective(s.list[l]) /\ ToSet(s.list[l]) \subseteq s.asleep
    /\ \A l, m \in WaitList : l # m => ToSet(s.list[l]) \cap ToSet(s.list[m]) = {}
=============================================================================
