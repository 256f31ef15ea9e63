------------------------------ MODULE MCLibrary ------------------------------
(* Small instances for TLC of the driver library: one of its objects, and   *)
(* the threads and interrupts that use it.                                  *)
EXTENDS Completion, DataQueue, Poll, WorkQueue, RingBuffer, RingBlk, Serial,
        Descriptors

CONSTANT System   \* the kinds of objects

\* how the work queue is used
Use(calls, clients, work) == [calls |-> calls, clients |-> clients, work |-> work]
ImmediateCalls == {"submit", "cancel", "cancel sync"}
AllCalls == ImmediateCalls \cup {"delayed", "critical", "cancel all"}
Some(n, set) == CHOOSE part \in SUBSET set : Cardinality(part) = n
AllUses == {Use(ImmediateCalls, Client, Work), Use({"submit", "critical", "cancel all"}, Client, Work),
            Use(AllCalls, Client, Some(1, Work)), Use(AllCalls, Some(1, Client), Some(2, Work))}

VARIABLE system

\* what the system in question does not use keeps its first value
MCInit ==
    /\ system \in System
    /\ BlockingInit /\ CpInit /\ DqInit /\ PipeInit /\ WqInit
    /\ RbInit /\ RbbInit /\ RxInit /\ TxInit /\ FdInit
    /\ system # "work queue" => queue.use.calls = ImmediateCalls
    /\ system # "ring buffer" => rb.buf[0] = CHOOSE b \in Byte : TRUE
    /\ system # "serial rx" => fifo.mode = "int" /\ fifo.buf[0] = CHOOSE b \in RxByte : TRUE

\* A poll that got no node waits for ever, and the writers for it; a call of the
\* work queue that follows a null pointer does not come back.  The system stops.
Stopped ==
    /\ \/ system = "pipe" /\ ~PollLinked
       \/ system = "work queue" /\ WqFaults
    /\ UNCHANGED <<threadVars, completed, dq, pipe, wq, queue, rb, rbb, fifo, tx, fdt, fdcall>>

MCNext ==
    /\ UNCHANGED system
    /\ \/ Stopped
       \/ /\ system \in {"completion", "data queue", "pipe", "work queue"}
          /\ UNCHANGED <<rb, rbb, fifo, tx, fdt, fdcall>>
          /\ \/ system = "completion" /\ CompletionNext /\ UNCHANGED <<dq, pipe, wq, queue>>
             \/ system = "data queue" /\ DataQueueNext /\ UNCHANGED <<completed, pipe, wq, queue>>
             \/ system = "pipe" /\ PollNext /\ UNCHANGED <<completed, dq, queue>>
             \/ system = "work queue" /\ WorkQueueNext /\ UNCHANGED <<completed, dq, pipe, wq>>
       \/ /\ UNCHANGED <<threadVars, completed, dq, pipe, wq, queue>>
          /\ \/ system = "ring buffer" /\ RingBufferNext /\ UNCHANGED <<rbb, fifo, tx, fdt, fdcall>>
             \/ system = "ring blocks" /\ RingBlkNext /\ UNCHANGED <<rb, fifo, tx, fdt, fdcall>>
             \/ system = "serial rx" /\ RxNext /\ UNCHANGED <<rb, rbb, tx, fdt, fdcall>>
             \/ system = "serial tx" /\ TxNext /\ UNCHANGED <<rb, rbb, fifo, fdt, fdcall>>
             \/ system = "descriptors" /\ DescriptorsNext /\ UNCHANGED <<rb, rbb, fifo, tx>>

MCSpec ==
    MCInit /\ [][MCNext]_<<system, threadVars, completed, dq, pipe, wq, queue, rb, rbb, fifo, tx,
                           fdt, fdcall>>

-----------------------------------------------------------------------------

\* Nobody who waits for an object of the library is forgotten: not by a
\* completion that is done, a data queue with room or with data, a pipe with
\* bytes or without writers, nor by the worker that ends the work a synchronous
\* cancellation waits for.  (The worker is a matter of its own: NoWorkIsLost.)
LibraryWaitersServed ==
    /\ SleepersAgree
    /\ CpNoSleeperWhenDone
    /\ DqNoLostWakeup
    /\ PipeReadersServed /\ PipeNotStuck /\ PollersServed
    /\ SyncWaitersAgree
=============================================================================
