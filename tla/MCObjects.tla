----------------------------- MODULE MCObjects ------------------------------
(* Small instances for TLC of the objects of src/: one object of the kind   *)
(* chosen in the initial state, and the threads and interrupts that use it. *)
EXTENDS Mailbox, MessageQueue, Event, MemPool, MemHeap, Timers

CONSTANT System   \* the kinds of objects

VARIABLE system

\* what the system in question does not use keeps its first value
MCInit ==
    /\ system \in System
    /\ BlockingInit /\ MbInit /\ MqInit /\ EvInit /\ MpInit /\ HeapInit /\ TimersInit
    /\ system # "timers" =>
          timers.tick = 0 /\ timers.init = [t \in Timer |-> CHOOSE i \in InitTick : TRUE]

MCNext ==
    /\ UNCHANGED system
    /\ \/ /\ system \in {"mailbox", "queue", "event", "pool"} /\ UNCHANGED <<heap, timers>>
          /\ \/ system = "mailbox" /\ MailboxNext /\ UNCHANGED <<mq, hand, event, pool>>
             \/ system = "queue"   /\ MessageQueueNext /\ UNCHANGED <<mb, event, pool>>
             \/ system = "event"   /\ EventNext /\ UNCHANGED <<mb, mq, hand, pool>>
             \/ system = "pool"    /\ MemPoolNext /\ UNCHANGED <<mb, mq, hand, event>>
       \/ /\ UNCHANGED <<threadVars, mb, mq, hand, event, pool>>
          /\ \/ system = "heap"   /\ HeapNext /\ UNCHANGED timers
             \/ system = "timers" /\ TimersNext /\ UNCHANGED heap

MCSpec ==
    MCInit /\ [][MCNext]_<<system, threadVars, mb, mq, hand, event, pool, heap, timers>>

-----------------------------------------------------------------------------

\* The objects are in one piece: whoever is linked into a list of waiters
\* sleeps, the indices of a mailbox enclose its messages, and an item of a
\* queue or a block of a pool is free, in use or in a thread's hands, once.
ObjectsAgree ==
    SleepersAgree /\ MbIndicesAgree /\ MqItemsConserved /\ MpBlocksConserved

\* Nobody waits for what there is: no receiver while there is a message that
\* nobody is on the way to, no sender while there is room, no thread whose
\* events have been sent, and none for a block while one is free.
WaitersAreServed ==
    MbNoLostWakeup /\ MqNoLostWakeup /\ NoneWaitsSatisfied /\ MpNoLostWakeup
=============================================================================
