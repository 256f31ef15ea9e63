----------------------------- MODULE Completion -----------------------------
(***************************************************************************)
(* components/drivers/src/completion.c: one thread waits until a thread or *)
(* an interrupt says that something is done.                               *)
(***************************************************************************)
EXTENDS Blocking

CONSTANT CompletionTime   \* the times given to rt_completion_wait

VARIABLE completed   \* completion->flag = RT_COMPLETED
completionVars == <<threadVars, completed>>

\* "only one thread can suspend on complete"
Waiter == CHOOSE t \in Receiver : TRUE

CpInit == completed = FALSE

CpWaitNow(t) ==
    /\ Runs(t, "user") /\ completed
    /\ completed' = FALSE /\ UNCHANGED threadVars

CpWaitNoTime(t) ==
    /\ Runs(t, "user") /\ ~completed /\ "no" \in CompletionTime
    /\ UNCHANGED completionVars

CpWaitSleep(t) ==
    /\ Runs(t, "user") /\ ~completed
    /\ \E time \in CompletionTime \ {"no"} :
           SuspendSelf(t, suspend_thread, time, "cp_wait")
    /\ UNCHANGED completed

\* resumed or timed out, the thread clears the flag
CpWaitReturn(t) ==
    /\ Runs(t, "cp_wait") /\ Return(t)
    /\ s' = [s EXCEPT !.error[t] = "EOK"] /\ completed' = FALSE

\* rt_completion_done looks at the flag before it masks interrupts
CpDone(t) ==
    /\ Runs(t, "user")
    /\ IF completed THEN UNCHANGED pc ELSE Goto(t, "cp_done")
    /\ UNCHANGED <<s, loc, completed>>

CpDoneSection(t) ==
    /\ Runs(t, "cp_done")
    /\ completed' = TRUE /\ s' = ResumeOne(s, suspend_thread) /\ Return(t)

IsrCpDone ==
    IF completed THEN UNCHANGED completionVars
    ELSE completed' = TRUE /\ s' = ResumeOne(s, suspend_thread) /\ UNCHANGED <<pc, loc>>

CompletionNext ==
    \/ CpWaitNow(Waiter) \/ CpWaitNoTime(Waiter)
    \/ CpWaitSleep(Waiter) \/ CpWaitReturn(Waiter)
    \/ \E t \in Sender \ {Waiter} : CpDone(t) \/ CpDoneSection(t)
    \/ IsrCpDone
    \/ \E t \in Thread : TimerExpires(t) /\ UNCHANGED completed

CompletionSpec == BlockingInit /\ CpInit /\ [][CompletionNext]_completionVars

-----------------------------------------------------------------------------

\* The thread that waits is asleep only while the flag is not set, although
\* rt_completion_done reads the flag before it masks interrupts: a done that
\* another one has overtaken resumes a thread that has begun to wait again.
CpNoSleeperWhenDone == completed => WaitingAt("cp_wait") = {}
=============================================================================
