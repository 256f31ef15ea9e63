---------------------------- MODULE MessageQueue ----------------------------
(***************************************************************************)
(* rt_messagequeue of ipc.c: messages are copied into items taken from a   *)
(* free list and back out of them with interrupts enabled, so an item is   *)
(* in the free list, in the queue, or in the hands of a caller.            *)
(***************************************************************************)
EXTENDS Blocking

CONSTANTS
    MqItem,   \* the items of mq->msg_pool
    Urgent    \* the messages that are sent by rt_mq_urgent

ASSUME MessageQueueAssumption ==
    Urgent \subseteq Message /\ IsFiniteSet(MqItem) /\ Nil \notin MqItem

\* mq.free   the list msg_queue_free
\* mq.queue  the list from msg_queue_head to msg_queue_tail
\* mq.entry  mq->entry
\* mq.data   the message copied into each item
\* hand[t]   the item a caller holds between its two sections
VARIABLES mq, hand
queueVars == <<threadVars, mq, hand>>

mq_max_msgs == Cardinality(MqItem)

MqInit ==
    /\ mq = [free |-> SetToSeq(MqItem), queue |-> << >>, entry |-> 0,
             data |-> [i \in MqItem |-> Nil]]
    /\ hand = [t \in Thread |-> Nil]

-----------------------------------------------------------------------------
(* rt_mq_send_wait and rt_mq_urgent.                                       *)

MqSend(t) ==
    \E v \in Message \ Urgent, time \in Time : Begin(t, "mq_send", time, v) /\ UNCHANGED <<mq, hand>>

MqUrgent(t) ==
    \E v \in Urgent : Begin(t, "mq_urgent", "no", v) /\ UNCHANGED <<mq, hand>>

\* an item is taken from the free list, and interrupts are enabled for the copy
MqAllocate(t) ==
    /\ AtTest(t, "mq_send", "mq_send_wait") \/ Runs(t, "mq_urgent")
    /\ mq.free # << >>
    /\ mq' = [mq EXCEPT !.free = Tail(@), !.data[Head(mq.free)] = loc[t].val]
    /\ hand' = [hand EXCEPT ![t] = Head(mq.free)]
    /\ Goto(t, IF pc[t] = "mq_urgent" THEN "mq_link_head" ELSE "mq_link_tail")
    /\ UNCHANGED <<s, loc>>

MqSendFull(t) ==
    /\ AtTest(t, "mq_send", "mq_send_wait") \/ Runs(t, "mq_urgent")
    /\ mq.free = << >> /\ "no" \in TimeLeft(t, "mq_send")
    /\ Return(t) /\ UNCHANGED <<s, mq, hand>>

MqSendWait(t) ==
    /\ AtTest(t, "mq_send", "mq_send_wait") /\ mq.free = << >>
    /\ \E time \in TimeLeft(t, "mq_send") \ {"no"} :
           SuspendSelf(t, suspend_sender_thread, time, "mq_send_wait")
    /\ UNCHANGED <<mq, hand>>

MqSendFails(t) == WaitFails(t, "mq_send_wait") /\ UNCHANGED <<mq, hand>>

\* mutant: an urgent message goes to the tail while others are pending
MqLinked_Tail(t) == Append(mq.queue, hand[t])

MqLinked(t) ==
    IF pc[t] = "mq_link_head" THEN <<hand[t]>> \o mq.queue ELSE Append(mq.queue, hand[t])

MqLink(t) ==
    /\ Runs(t, "mq_link_head") \/ Runs(t, "mq_link_tail")
    /\ mq' = [mq EXCEPT !.queue = MqLinked(t), !.entry = @ + 1]
    /\ hand' = [hand EXCEPT ![t] = Nil]
    /\ s' = ResumeOne(s, suspend_thread)
    /\ Return(t)

\* rt_mq_send in an interrupt: no thread comes between its sections
IsrMqSend ==
    \/ /\ mq.free # << >>
       /\ \E v \in Message \ Urgent :
              mq' = [mq EXCEPT !.free = Tail(@), !.data[Head(mq.free)] = v,
                               !.queue = Append(@, Head(mq.free)), !.entry = @ + 1]
       /\ s' = ResumeOne(s, suspend_thread) /\ UNCHANGED <<pc, loc, hand>>
    \/ mq.free = << >> /\ UNCHANGED queueVars

-----------------------------------------------------------------------------
(* rt_mq_recv                                                              *)

MqRecv(t) == \E time \in Time : Begin(t, "mq_recv", time, Nil) /\ UNCHANGED <<mq, hand>>

\* the head is unlinked, and interrupts are enabled for the copy
MqUnlink(t) ==
    /\ AtTest(t, "mq_recv", "mq_recv_wait") /\ mq.entry > 0
    /\ hand' = [hand EXCEPT ![t] = Head(mq.queue)]
    /\ mq' = [mq EXCEPT !.queue = Tail(@), !.entry = @ - 1]
    /\ Goto(t, "mq_copy") /\ UNCHANGED <<s, loc>>

MqRecvEmpty(t) ==
    /\ AtTest(t, "mq_recv", "mq_recv_wait") /\ mq.entry = 0 /\ "no" \in TimeLeft(t, "mq_recv")
    /\ Return(t) /\ UNCHANGED <<s, mq, hand>>

MqRecvWait(t) ==
    /\ AtTest(t, "mq_recv", "mq_recv_wait") /\ mq.entry = 0
    /\ \E time \in TimeLeft(t, "mq_recv") \ {"no"} :
           SuspendSelf(t, suspend_thread, time, "mq_recv_wait")
    /\ UNCHANGED <<mq, hand>>

MqRecvFails(t) == WaitFails(t, "mq_recv_wait") /\ UNCHANGED <<mq, hand>>

\* the end of the copy
MqCopied(t) ==
    /\ Runs(t, "mq_copy") /\ loc' = [loc EXCEPT ![t].val = mq.data[hand[t]]]
    /\ Goto(t, "mq_free") /\ UNCHANGED <<s, mq, hand>>

AfterMqFree(ss) == ResumeOne(ss, suspend_sender_thread)

MqFree(t) ==
    /\ Runs(t, "mq_free")
    /\ mq' = [mq EXCEPT !.free = <<hand[t]>> \o @]
    /\ hand' = [hand EXCEPT ![t] = Nil]
    /\ s' = AfterMqFree(s)
    /\ Return(t)

-----------------------------------------------------------------------------

\* mutant: the pool is handed out anew, as rt_mq_init does
MqReset_AllFree(t) ==
    /\ Runs(t, "user")
    /\ s' = rt_ipc_list_resume_all(rt_ipc_list_resume_all(s, suspend_thread),
                                   suspend_sender_thread)
    /\ mq' = [mq EXCEPT !.free = SetToSeq(MqItem), !.queue = << >>, !.entry = 0]
    /\ UNCHANGED <<pc, loc, hand>>

\* rt_mq_control with RT_IPC_CMD_RESET: item by item the queue goes to the
\* head of the free list
MqReset(t) ==
    /\ Runs(t, "user")
    /\ s' = rt_ipc_list_resume_all(rt_ipc_list_resume_all(s, suspend_thread),
                                   suspend_sender_thread)
    /\ mq' = [mq EXCEPT !.free = Reverse(mq.queue) \o @, !.queue = << >>, !.entry = 0]
    /\ UNCHANGED <<pc, loc, hand>>

MessageQueueNext ==
    \/ \E t \in Sender :
          MqSend(t) \/ MqUrgent(t) \/ MqAllocate(t) \/ MqSendFull(t)
          \/ MqSendWait(t) \/ MqSendFails(t) \/ MqLink(t)
    \/ \E t \in Receiver :
          MqRecv(t) \/ MqUnlink(t) \/ MqRecvEmpty(t) \/ MqRecvWait(t)
          \/ MqRecvFails(t) \/ MqCopied(t) \/ MqFree(t)
    \/ \E t \in Resetter : MqReset(t)
    \/ IsrMqSend
    \/ \E t \in Thread : TimerExpires(t) /\ UNCHANGED <<mq, hand>>

MessageQueueSpec == BlockingInit /\ MqInit /\ [][MessageQueueNext]_queueVars

-----------------------------------------------------------------------------

Held == {hand[t] : t \in Thread} \ {Nil}

\* No item is lost or in two places: the free list, the queue and the callers
\* that are copying share the pool, also when the queue is reset under them,
\* and the count is the length of the queue.
MqItemsConserved ==
    /\ mq.entry = Len(mq.queue)
    /\ IsInjective(mq.free \o mq.queue)
    /\ ToSet(mq.free \o mq.queue) = MqItem \ Held
    /\ \A t, u \in Thread : t # u /\ hand[t] # Nil => hand[t] # hand[u]

\* Nobody sleeps beside a message or a free item that no resumed thread is on
\* its way to.
MqNoLostWakeup ==
    /\ WaitingAt("mq_recv_wait") # {} => mq.entry <= Cardinality(WokenAt("mq_recv_wait"))
    /\ WaitingAt("mq_send_wait") # {} =>
           Len(mq.free) <= Cardinality(WokenAt("mq_send_wait"))

MqInbox(t) ==
    CASE pc[t] = "mq_copy" -> mq.data[hand[t]]
      [] pc[t] = "mq_free" -> loc[t].val
      [] OTHER -> Nil

MqChannel == INSTANCE AbstractChannel WITH
    Capacity <- mq_max_msgs, Nothing <- Nil,
    chan <- [i \in DOMAIN mq.queue |-> mq.data[mq.queue[i]]],
    inbox <- [t \in Receiver |-> MqInbox(t)]

\* Although messages are copied with interrupts enabled, what is received is
\* what was sent, in order, urgent messages first.
MqImplementsChannel == MqChannel!Spec
=============================================================================
