-------------------------------- MODULE Pipe --------------------------------
(***************************************************************************)
(* components/drivers/src/pipe.c and waitqueue.c: a ring of bytes between  *)
(* the readers and the writers of a pipe, who wait in two wait queues.  A  *)
(* wait queue keeps nodes of its own, not the thread nodes of the kernel,  *)
(* and remembers in a flag a wakeup that nobody waited for.                *)
(***************************************************************************)
EXTENDS Blocking

CONSTANTS
    PipeReader, PipeWriter,   \* the threads that open one end
    PipeSize,                 \* pipe->bufsz
    WriteSize                 \* the counts given to write

\* pipe.fifo      how many bytes the ring holds
\* pipe.readers, pipe.writers   the ends that are open
\* pipe.lock      the owner of pipe->lock, or Nil
\* pipe.left[t]   the bytes thread t has still to write
\* wq[q].flag     RT_WQ_FLAG_WAKEUP of queue q
\* wq[q].nodes    its waiting_list
\* wq.triggered   the threads whose poll table has been triggered
VARIABLES pipe, wq
pipeVars == <<threadVars, pipe, wq>>

ASSUME PipeAssumption ==
    /\ PipeReader \cup PipeWriter \subseteq Thread /\ PipeReader \cap PipeWriter = {}
    /\ PipeSize \in Nat \ {0} /\ WriteSize \subseteq Nat \ {0}

PipeInit ==
    /\ pipe = [fifo |-> 0, readers |-> {}, writers |-> {}, lock |-> Nil,
               left |-> [t \in Thread |-> 0]]
    /\ wq = [reader |-> [flag |-> FALSE, nodes |-> << >>],
             writer |-> [flag |-> FALSE, nodes |-> << >>], triggered |-> {}]

-----------------------------------------------------------------------------
(* waitqueue.c                                                             *)

\* a node has the thread to resume and, if poll has added it, the events it is for
Node(t, key) == [thread |-> t, key |-> key]

\* the place of the node that rt_wqueue_wakeup serves, or 0: the first one whose
\* wakeup function accepts the events
Served(q, key) ==
    SelectInSeq(wq[q].nodes, LAMBDA n : n.key = {} \/ n.key \cap key # {})

\* the queues after rt_wqueue_wakeup
wqueue_woken(w, q, key) ==
    LET i == Served(q, key)
        n == wq[q].nodes[i]
    IN  IF i = 0 THEN [w EXCEPT ![q].flag = TRUE]
        ELSE [w EXCEPT ![q] = [flag |-> TRUE, nodes |-> Without(@.nodes, n)],
                       !.triggered = IF n.key = {} THEN @ ELSE @ \cup {n.thread}]

\* the threads after rt_wqueue_wakeup
wqueue_resumed(ss, q, key) ==
    IF Served(q, key) = 0 THEN ss ELSE rt_thread_resume(ss, wq[q].nodes[Served(q, key)].thread)

\* rt_wqueue_wait: a wakeup that came before the call ends the wait at once
WqWaitNot(t, q, from, to) ==
    /\ Runs(t, from) /\ wq[q].flag
    /\ wq' = [wq EXCEPT ![q].flag = FALSE] /\ Goto(t, to) /\ UNCHANGED <<s, loc, pipe>>

WqWaitSleep(t, q, from, asleep) ==
    /\ Runs(t, from) /\ ~wq[q].flag
    /\ wq' = [wq EXCEPT ![q].nodes = Append(@, Node(t, {}))]
    /\ s' = [s EXCEPT !.asleep = @ \cup {t}]
    /\ Goto(t, asleep) /\ UNCHANGED <<loc, pipe>>

\* resumed, the thread clears the flag, whoever set it, and unlinks its node
WqWaitReturn(t, q, asleep, to) ==
    /\ Runs(t, asleep)
    /\ wq' = [wq EXCEPT ![q] = [flag |-> FALSE, nodes |-> Without(@.nodes, Node(t, {}))]]
    /\ Goto(t, to) /\ UNCHANGED <<s, loc, pipe>>

-----------------------------------------------------------------------------
(* pipe_fops_read                                                          *)

\* whether there are writers is asked before the lock is taken
PipeRead(t) ==
    /\ Runs(t, "user") /\ t \in pipe.readers /\ pipe.writers # {}
    /\ Goto(t, "rd_lock") /\ UNCHANGED <<s, loc, pipe, wq>>

\* end-of-file
PipeReadEof(t) ==
    /\ Runs(t, "rd_lock") /\ pipe.lock = Nil /\ pipe.writers = {}
    /\ Goto(t, "user") /\ UNCHANGED <<s, loc, pipe, wq>>

PipeGet(t) ==
    /\ Runs(t, "rd_lock") /\ pipe.lock = Nil /\ pipe.writers # {} /\ pipe.fifo > 0
    /\ \E n \in {1, pipe.fifo} : pipe' = [pipe EXCEPT !.fifo = @ - n, !.lock = t]
    /\ Goto(t, "rd_wake") /\ UNCHANGED <<s, loc, wq>>

\* "wakeup writer", and the lock is released
PipeGetWake(t) ==
    /\ Runs(t, "rd_wake")
    /\ s' = wqueue_resumed(s, "writer", {"OUT"}) /\ wq' = wqueue_woken(wq, "writer", {"OUT"})
    /\ pipe' = [pipe EXCEPT !.lock = Nil] /\ Goto(t, "user") /\ UNCHANGED loc

\* -EAGAIN, or the way to sleep
PipeEmpty(t) ==
    /\ Runs(t, "rd_lock") /\ pipe.lock = Nil /\ pipe.writers # {} /\ pipe.fifo = 0
    /\ \E next \in {"user", "rd_wake_writer"} : Goto(t, next)
    /\ UNCHANGED <<s, loc, pipe, wq>>

PipeEmptyWake(t) ==
    /\ Runs(t, "rd_wake_writer")
    /\ s' = wqueue_resumed(s, "writer", {"OUT"}) /\ wq' = wqueue_woken(wq, "writer", {"OUT"})
    /\ Goto(t, "rd_wait") /\ UNCHANGED <<loc, pipe>>

PipeReadWait(t) ==
    \/ WqWaitNot(t, "reader", "rd_wait", "rd_lock")
    \/ WqWaitSleep(t, "reader", "rd_wait", "rd_asleep")
    \/ WqWaitReturn(t, "reader", "rd_asleep", "rd_lock")

-----------------------------------------------------------------------------
(* pipe_fops_write                                                         *)

PipeWrite(t, n) ==
    /\ Runs(t, "user") /\ t \in pipe.writers /\ pipe.readers # {}
    /\ pipe' = [pipe EXCEPT !.left[t] = n]
    /\ Goto(t, "wr_lock") /\ UNCHANGED <<s, loc, wq>>

\* -EPIPE, or what has been written: readers are woken if a put has been tried (wakeup)
PipeBroken(t) ==
    /\ Runs(t, "wr_lock") \/ Runs(t, "wr_again")
    /\ pipe.lock = Nil /\ pipe.readers = {}
    /\ pipe' = [pipe EXCEPT !.left[t] = 0]
    /\ Goto(t, IF pc[t] = "wr_lock" THEN "user" ELSE "wr_end") /\ UNCHANGED <<s, loc, wq>>

Fits(t) ==
    IF pipe.left[t] <= PipeSize - pipe.fifo THEN pipe.left[t] ELSE PipeSize - pipe.fifo

PipePut(t) ==
    /\ Runs(t, "wr_lock") \/ Runs(t, "wr_again")
    /\ pipe.lock = Nil /\ pipe.readers # {}
    /\ \E blocks \in BOOLEAN :   \* FALSE with O_NONBLOCK
          LET left == pipe.left[t] - Fits(t)
              ends == left = 0 \/ ~blocks
          IN  /\ pipe' = [pipe EXCEPT !.fifo = @ + Fits(t),
                                      !.left[t] = IF ends THEN 0 ELSE left]
              /\ Goto(t, IF ends THEN "wr_end" ELSE "wr_wake_reader")
    /\ UNCHANGED <<s, loc, wq>>

PipePutWake(t) ==
    /\ Runs(t, "wr_wake_reader") \/ Runs(t, "wr_end")
    /\ s' = wqueue_resumed(s, "reader", {"IN"}) /\ wq' = wqueue_woken(wq, "reader", {"IN"})
    /\ Goto(t, IF pc[t] = "wr_end" THEN "user" ELSE "wr_wait")
    /\ UNCHANGED <<loc, pipe>>

PipeWriteWait(t) ==
    \/ WqWaitNot(t, "writer", "wr_wait", "wr_again")
    \/ WqWaitSleep(t, "writer", "wr_wait", "wr_asleep")
    \/ WqWaitReturn(t, "writer", "wr_asleep", "wr_again")

-----------------------------------------------------------------------------
(* pipe_fops_open and pipe_fops_close; the ring lives while an end is open *)

PipeOpen(t) ==
    /\ Runs(t, "user") /\ pipe.lock = Nil /\ t \notin pipe.readers \cup pipe.writers
    /\ pipe' = IF t \in PipeReader THEN [pipe EXCEPT !.readers = @ \cup {t}]
               ELSE [pipe EXCEPT !.writers = @ \cup {t}]
    /\ UNCHANGED <<s, pc, loc, wq>>

\* whoever is left is woken when the other end has no one any more; a close
\* with no readers and no writers left wakes one of each
PipeClose(t) ==
    LET gone   == [pipe EXCEPT !.readers = @ \ {t}, !.writers = @ \ {t}]
        noW    == gone.writers = {}
        noR    == gone.readers = {}
        toR    == {"IN", "ERR", "HUP"}
        toW    == {"OUT", "ERR", "HUP"}
        first  == IF noW THEN wqueue_resumed(s, "reader", toR) ELSE s
        queues == IF noW THEN wqueue_woken(wq, "reader", toR) ELSE wq
    IN  /\ Runs(t, "user") /\ pipe.lock = Nil /\ t \in pipe.readers \cup pipe.writers
        /\ s' = IF noR THEN wqueue_resumed(first, "writer", toW) ELSE first
        /\ wq' = IF noR THEN wqueue_woken(queues, "writer", toW) ELSE queues
        /\ pipe' = IF noR /\ noW THEN [gone EXCEPT !.fifo = 0] ELSE gone
        /\ UNCHANGED <<pc, loc>>

PipeNext ==
    \/ \E t \in PipeReader :
          PipeRead(t) \/ PipeReadEof(t) \/ PipeGet(t) \/ PipeGetWake(t)
          \/ PipeEmpty(t) \/ PipeEmptyWake(t) \/ PipeReadWait(t)
    \/ \E t \in PipeWriter :
          PipeBroken(t) \/ PipePut(t) \/ PipePutWake(t) \/ PipeWriteWait(t)
          \/ \E n \in WriteSize : PipeWrite(t, n)
    \/ \E t \in PipeReader \cup PipeWriter : PipeOpen(t) \/ PipeClose(t)

-----------------------------------------------------------------------------

WakeIsDue == \E t \in PipeWriter : pc[t] \in {"wr_wake_reader", "wr_end"}

\* A reader sleeps only while there is nothing to read and somebody may still
\* write, or a writer is about to wake it: no byte is left behind with a
\* sleeping reader, and the last writer to close ends its wait.
PipeReadersServed ==
    WaitingAt("rd_asleep") # {} =>
        (pipe.fifo = 0 /\ pipe.writers # {}) \/ WakeIsDue

\* Writers and the reader never all sleep: when one of each sleeps, some
\* thread is in a call that goes on.
PipeNotStuck ==
    WaitingAt("rd_asleep") # {} /\ WaitingAt("wr_asleep") # {} =>
        \E t \in PipeReader \cup PipeWriter : pc[t] # "user" /\ t \notin s.asleep

\* What the code does not keep when a pipe has two readers, for the close of
\* the last writer wakes one: "no process has the pipe open for writing, return
\* end-of-file" (pipe.c:147), no reader sleeps when there is no writer.
PipeEndOfFile == pipe.writers = {} => WaitingAt("rd_asleep") = {}
=============================================================================
