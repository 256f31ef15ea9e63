------------------------------- MODULE Mailbox -------------------------------
(***************************************************************************)
(* rt_mailbox of ipc.c: a ring of words, with threads that wait to send    *)
(* and to receive, an interrupt that sends, time-outs and resets.          *)
(***************************************************************************)
EXTENDS Blocking

CONSTANT mb_size   \* mb->size

VARIABLE mb   \* the fields entry, in_offset, out_offset and msg_pool
mailboxVars == <<threadVars, mb>>

ASSUME MailboxAssumption == mb_size \in Nat \ {0}

MbInit ==
    mb = [entry |-> 0, in_offset |-> 0, out_offset |-> 0,
          msg_pool |-> [i \in 0 .. mb_size - 1 |-> Nil]]

MbNextSlot(i) == IF i + 1 >= mb_size THEN 0 ELSE i + 1

MbFull == mb.entry = mb_size

-----------------------------------------------------------------------------
(* rt_mb_send_wait                                                         *)

MbStored(v) ==
    [mb EXCEPT !.msg_pool[mb.in_offset] = v,
               !.in_offset = MbNextSlot(@), !.entry = @ + 1]

\* mutant: a receiver is resumed only when the mailbox was empty
AfterMbPut_IfEmpty(ss) ==
    IF mb.entry = 0 THEN ResumeOne(ss, suspend_thread) ELSE ss

AfterMbPut(ss) == ResumeOne(ss, suspend_thread)

MbSend(t) == \E v \in Message, time \in Time : Begin(t, "mb_send", time, v) /\ UNCHANGED mb

MbPut(t) ==
    /\ AtTest(t, "mb_send", "mb_send_wait") /\ ~MbFull
    /\ mb' = MbStored(loc[t].val) /\ s' = AfterMbPut(s) /\ Return(t)

\* -RT_EFULL
MbSendFull(t) ==
    /\ AtTest(t, "mb_send", "mb_send_wait") /\ MbFull /\ "no" \in TimeLeft(t, "mb_send")
    /\ Return(t) /\ UNCHANGED <<s, mb>>

MbSendWait(t) ==
    /\ AtTest(t, "mb_send", "mb_send_wait") /\ MbFull
    /\ \E time \in TimeLeft(t, "mb_send") \ {"no"} :
           SuspendSelf(t, suspend_sender_thread, time, "mb_send_wait")
    /\ UNCHANGED mb

MbSendFails(t) == WaitFails(t, "mb_send_wait") /\ UNCHANGED mb

\* rt_mb_send in an interrupt
IsrMbSend ==
    \/ \E v \in Message : ~MbFull /\ mb' = MbStored(v) /\ s' = AfterMbPut(s) /\ UNCHANGED <<pc, loc>>
    \/ MbFull /\ UNCHANGED mailboxVars

-----------------------------------------------------------------------------
(* rt_mb_recv                                                              *)

MbRecv(t) == \E time \in Time : Begin(t, "mb_recv", time, Nil) /\ UNCHANGED mb

\* mutant: the ring is read where it was written last
MbGet_Newest(t) ==
    /\ AtTest(t, "mb_recv", "mb_recv_wait") /\ mb.entry > 0
    /\ loc' = [loc EXCEPT ![t].val = mb.msg_pool[(mb.in_offset + mb_size - 1) % mb_size]]
    /\ mb' = [mb EXCEPT !.out_offset = MbNextSlot(@), !.entry = @ - 1]
    /\ s' = ResumeOne(s, suspend_sender_thread) /\ Goto(t, "mb_received")

MbGet(t) ==
    /\ AtTest(t, "mb_recv", "mb_recv_wait") /\ mb.entry > 0
    /\ loc' = [loc EXCEPT ![t].val = mb.msg_pool[mb.out_offset]]
    /\ mb' = [mb EXCEPT !.out_offset = MbNextSlot(@), !.entry = @ - 1]
    /\ s' = ResumeOne(s, suspend_sender_thread) /\ Goto(t, "mb_received")

MbReceived(t) == Runs(t, "mb_received") /\ Return(t) /\ UNCHANGED <<s, mb>>

MbRecvEmpty(t) ==
    /\ AtTest(t, "mb_recv", "mb_recv_wait") /\ mb.entry = 0 /\ "no" \in TimeLeft(t, "mb_recv")
    /\ Return(t) /\ UNCHANGED <<s, mb>>

MbRecvWait(t) ==
    /\ AtTest(t, "mb_recv", "mb_recv_wait") /\ mb.entry = 0
    /\ \E time \in TimeLeft(t, "mb_recv") \ {"no"} :
           SuspendSelf(t, suspend_thread, time, "mb_recv_wait")
    /\ UNCHANGED mb

MbRecvFails(t) == WaitFails(t, "mb_recv_wait") /\ UNCHANGED mb

-----------------------------------------------------------------------------

\* rt_mb_control with RT_IPC_CMD_RESET
MbReset(t) ==
    /\ Runs(t, "user")
    /\ s' = rt_ipc_list_resume_all(rt_ipc_list_resume_all(s, suspend_thread),
                                   suspend_sender_thread)
    /\ mb' = [mb EXCEPT !.entry = 0, !.in_offset = 0, !.out_offset = 0]
    /\ UNCHANGED <<pc, loc>>

MailboxNext ==
    \/ \E t \in Sender :
          MbSend(t) \/ MbPut(t) \/ MbSendFull(t) \/ MbSendWait(t) \/ MbSendFails(t)
    \/ \E t \in Receiver :
          MbRecv(t) \/ MbGet(t) \/ MbReceived(t)
          \/ MbRecvEmpty(t) \/ MbRecvWait(t) \/ MbRecvFails(t)
    \/ \E t \in Resetter : MbReset(t)
    \/ IsrMbSend
    \/ \E t \in Thread : TimerExpires(t) /\ UNCHANGED mb

MailboxSpec == BlockingInit /\ MbInit /\ [][MailboxNext]_mailboxVars

-----------------------------------------------------------------------------

\* The ring agrees with its count, whatever sends, receptions and resets of
\* threads and interrupts came between: the slots from out_offset on hold the
\* pending messages and in_offset is where the next one goes.
MbIndicesAgree ==
    /\ mb.entry \in 0 .. mb_size
    /\ mb.in_offset = (mb.out_offset + mb.entry) % mb_size
    /\ \A i \in 0 .. mb.entry - 1 :
           mb.msg_pool[(mb.out_offset + i) % mb_size] \in Message

\* Nobody sleeps beside a message or a free slot that no resumed thread is on
\* its way to: a resumption per message and per slot is enough, although a
\* resumed thread can be overtaken by one that did not wait.
MbNoLostWakeup ==
    /\ WaitingAt("mb_recv_wait") # {} => mb.entry <= Cardinality(WokenAt("mb_recv_wait"))
    /\ WaitingAt("mb_send_wait") # {} =>
           mb_size - mb.entry <= Cardinality(WokenAt("mb_send_wait"))

MbPending == [i \in 1 .. mb.entry |-> mb.msg_pool[(mb.out_offset + i - 1) % mb_size]]

MbChannel == INSTANCE AbstractChannel WITH
    Urgent <- {}, Capacity <- mb_size, Nothing <- Nil, chan <- MbPending,
    inbox <- [t \in Receiver |-> IF pc[t] = "mb_received" THEN loc[t].val ELSE Nil]

\* rt_mb_send_wait, rt_mb_send, rt_mb_recv and the reset are those of a
\* bounded first-in first-out channel.
MbImplementsChannel == MbChannel!Spec
=============================================================================
