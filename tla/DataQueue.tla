------------------------------ MODULE DataQueue ------------------------------
(***************************************************************************)
(* components/drivers/src/dataqueue.c: a ring of pointers between threads  *)
(* and interrupts.  Its indices count up for ever in 16 bits, and pushers  *)
(* are resumed only once the fill has gone down to the low-water mark.     *)
(***************************************************************************)
EXTENDS Blocking

CONSTANTS
    dq_size, dq_lwm,   \* queue->size, queue->lwm
    IndexRange         \* put_index and get_index are 0 .. IndexRange - 1 (2^16)

\* the fields put_index, get_index and queue; overwritten says that an item has been
\* stored over one that nobody had popped, as the queue was not taken for full
VARIABLE dq
dataQueueVars == <<threadVars, dq>>

ASSUME DataQueueAssumption ==
    /\ dq_size \in Nat \ {0} /\ dq_lwm \in 0 .. dq_size - 1
    /\ IndexRange \in Nat /\ IndexRange > dq_size /\ IndexRange % dq_size = 0

DqInit ==
    dq = [put_index |-> 0, get_index |-> 0, queue |-> [i \in 0 .. dq_size - 1 |-> Nil],
          overwritten |-> FALSE]

\* the items that are pending, one index being the other modulo its width
DqCount == (dq.put_index - dq.get_index) % IndexRange

\* the operands are promoted to int: the difference of two indices is negative
\* when put_index has wrapped and get_index has not
DqFull == dq.put_index - dq.get_index = dq_size

DqEmpty == dq.put_index = dq.get_index

-----------------------------------------------------------------------------

DqPush(t) ==
    /\ \E v \in Message, time \in Time : Begin(t, "dq_push", time, v)
    /\ UNCHANGED dq

DqStored(v) ==
    [dq EXCEPT !.queue[dq.put_index % dq_size] = v, !.put_index = (@ + 1) % IndexRange,
               !.overwritten = @ \/ (DqCount = dq_size /\ ~DqFull)]

\* mutant: a resumed pusher does not look again whether the queue is full
DqStore_NoLoop(t) ==
    /\ Woken(t, "dq_push_wait") \/ (Runs(t, "dq_push") /\ ~DqFull)
    /\ dq' = DqStored(loc[t].val) /\ s' = ResumeOne(s, suspend_thread) /\ Return(t)

DqStore(t) ==
    /\ AtTest(t, "dq_push", "dq_push_wait") /\ ~DqFull
    /\ dq' = DqStored(loc[t].val) /\ s' = ResumeOne(s, suspend_thread) /\ Return(t)

DqPushFull(t) ==
    /\ Runs(t, "dq_push") /\ DqFull /\ loc[t].time = "no"
    /\ Return(t) /\ UNCHANGED <<s, dq>>

\* a pusher that finds the queue full again waits for its whole time once more
DqPushWait(t) ==
    /\ AtTest(t, "dq_push", "dq_push_wait") /\ DqFull /\ loc[t].time # "no"
    /\ SuspendSelf(t, suspend_sender_thread, loc[t].time, "dq_push_wait")
    /\ UNCHANGED dq

DqPushFails(t) == WaitFails(t, "dq_push_wait") /\ UNCHANGED dq

\* rt_data_queue_push in an interrupt
IsrDqPush ==
    \/ DqFull /\ UNCHANGED dataQueueVars
    \/ /\ ~DqFull /\ \E v \in Message : dq' = DqStored(v)
       /\ s' = ResumeOne(s, suspend_thread) /\ UNCHANGED <<pc, loc>>

-----------------------------------------------------------------------------

DqPop(t) == \E time \in Time : Begin(t, "dq_pop", time, Nil) /\ UNCHANGED dq

\* mutant: pushers are resumed at the low-water mark only, not below it
AfterPop_AtMark(ss) ==
    IF dq.put_index - (dq.get_index + 1) = dq_lwm
    THEN ResumeOne(ss, suspend_sender_thread) ELSE ss

AfterPop(ss) ==
    IF dq.put_index - ((dq.get_index + 1) % IndexRange) <= dq_lwm
    THEN ResumeOne(ss, suspend_sender_thread) ELSE ss

DqTake(t) ==
    /\ AtTest(t, "dq_pop", "dq_pop_wait") /\ ~DqEmpty
    /\ loc' = [loc EXCEPT ![t].val = dq.queue[dq.get_index % dq_size]]
    /\ dq' = [dq EXCEPT !.get_index = (@ + 1) % IndexRange]
    /\ s' = AfterPop(s) /\ Goto(t, "dq_popped")

DqPopped(t) == Runs(t, "dq_popped") /\ Return(t) /\ UNCHANGED <<s, dq>>

DqPopEmpty(t) ==
    /\ Runs(t, "dq_pop") /\ DqEmpty /\ loc[t].time = "no"
    /\ Return(t) /\ UNCHANGED <<s, dq>>

DqPopWait(t) ==
    /\ AtTest(t, "dq_pop", "dq_pop_wait") /\ DqEmpty /\ loc[t].time # "no"
    /\ SuspendSelf(t, suspend_thread, loc[t].time, "dq_pop_wait")
    /\ UNCHANGED dq

DqPopFails(t) == WaitFails(t, "dq_pop_wait") /\ UNCHANGED dq

(* rt_data_queue_reset: with the scheduler locked and interrupts enabled,   *)
(* the waiters are resumed, those who pop first; the items stay.           *)

DqReset(t) == Runs(t, "user") /\ Goto(t, "dq_reset_pop") /\ UNCHANGED <<s, loc, dq>>

\* the test of a list, with interrupts enabled
DqResetTest(t) ==
    /\ \/ /\ Runs(t, "dq_reset_pop")
          /\ Goto(t, IF s.list[suspend_thread] = << >> THEN "dq_reset_push" ELSE "dq_reset_popper")
       \/ /\ Runs(t, "dq_reset_push")
          /\ Goto(t, IF s.list[suspend_sender_thread] = << >> THEN "user" ELSE "dq_reset_pusher")
    /\ UNCHANGED <<s, loc, dq>>

\* The section after it.  If the last waiter has gone in between, the code takes
\* the list itself for a thread: here only the resumption fails, and what the
\* write to the error of that "thread" overwrites is left out.
ResumedWithError(l) ==
    IF s.list[l] = << >> THEN s
    ELSE [rt_ipc_list_resume(s, l) EXCEPT !.error[Head(s.list[l])] = "ERROR"]

DqResetOne(t) ==
    /\ \/ /\ Runs(t, "dq_reset_popper") /\ Goto(t, "dq_reset_pop")
          /\ s' = ResumedWithError(suspend_thread)
       \/ /\ Runs(t, "dq_reset_pusher") /\ Goto(t, "dq_reset_push")
          /\ s' = ResumedWithError(suspend_sender_thread)
    /\ UNCHANGED <<loc, dq>>

InReset == \E t \in Resetter :
    pc[t] \in {"dq_reset_pop", "dq_reset_popper", "dq_reset_push", "dq_reset_pusher"}

DataQueueNext ==
    \/ /\ ~InReset
       /\ \/ \E t \in Sender :
                DqPush(t) \/ DqStore(t) \/ DqPushFull(t) \/ DqPushWait(t) \/ DqPushFails(t)
          \/ \E t \in Receiver :
                DqPop(t) \/ DqTake(t) \/ DqPopped(t) \/ DqPopEmpty(t) \/ DqPopWait(t)
                \/ DqPopFails(t)
          \/ \E t \in Resetter : DqReset(t)
    \/ \E t \in Resetter : DqResetTest(t) \/ DqResetOne(t)
    \/ IsrDqPush
    \/ \E t \in Thread : TimerExpires(t) /\ UNCHANGED dq

DataQueueSpec == BlockingInit /\ DqInit /\ [][DataQueueNext]_dataQueueVars

-----------------------------------------------------------------------------

\* What the code does not keep: the queue is taken for full while it is, and what is
\* pushed goes where nothing is that nobody has popped (the test at the head of
\* rt_data_queue_push).
DqKeepsItems == ~dq.overwritten

\* The first item is overwritten when put_index has come round and get_index has not.
DqOverwrites == dq.overwritten' /\ (dq.overwritten \/ dq.put_index < dq.get_index)

\* Nobody waits to pop beside an item that no resumed popper is on its way
\* to; and while no item has been overwritten and pushers wait, the fill is above
\* the low-water mark, or will be when the resumed ones have pushed: the next pop
\* that reaches the mark resumes the next one, so no pusher is forgotten.
DqNoLostWakeup ==
    \/ dq.overwritten
    \/ /\ WaitingAt("dq_pop_wait") # {} => DqCount <= Cardinality(WokenAt("dq_pop_wait"))
       /\ WaitingAt("dq_push_wait") # {} =>
              DqCount + Cardinality(WokenAt("dq_push_wait")) > dq_lwm

DqChannel == INSTANCE AbstractChannel WITH
    Urgent <- {}, Capacity <- dq_size, Nothing <- Nil,
    chan <- [i \in 1 .. DqCount |-> dq.queue[(dq.get_index + i - 1) % dq_size]],
    inbox <- [t \in Receiver |-> IF pc[t] = "dq_popped" THEN loc[t].val ELSE Nil]

\* What is popped is what was pushed, in order and across the wrap of the indices,
\* until a push after the wrap of put_index overwrites an item: no other step may.
DqImplementsChannel ==
    DqChannel!Init /\ [][DqChannel!Next \/ DqOverwrites]_(DqChannel!vars)
=============================================================================
