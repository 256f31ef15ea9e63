-------------------------------- MODULE Poll --------------------------------
(***************************************************************************)
(* components/dfs/src/poll.c over the pipe: poll puts a node into both     *)
(* wait queues of the pipe, looks at what there is, and sleeps until a     *)
(* wakeup for its events has triggered its table.                          *)
(***************************************************************************)
EXTENDS Pipe

CONSTANT Poller   \* the readers that call poll, on their end of the pipe

ASSUME PollAssumption == Poller \subseteq PipeReader

\* POLLIN | POLLERR | POLLHUP
PollKey == {"IN", "ERR", "HUP"}

-----------------------------------------------------------------------------
(* do_pollfd and pipe_fops_poll                                            *)

\* _poll_add: the queue's nodes with the one of thread t, or without it when the
\* allocation fails, of which nobody is told
WithPollNode(nodes, t) == {nodes, Append(nodes, Node(t, PollKey))}

\* the locals of the call remember whether the readers' queue has been told
PollAddReader(t) ==
    /\ t \in pipe.readers
    /\ \E time \in Time \ {"no"}, nodes \in WithPollNode(wq.reader.nodes, t) :
          /\ wq' = [wq EXCEPT !.reader.nodes = nodes, !.triggered = @ \ {t}]
          /\ Begin(t, "poll_add", time, IF nodes = wq.reader.nodes THEN "no memory" ELSE "linked")
    /\ UNCHANGED pipe

PollAddWriter(t) ==
    /\ Runs(t, "poll_add")
    /\ \E nodes \in WithPollNode(wq.writer.nodes, t) : wq' = [wq EXCEPT !.writer.nodes = nodes]
    /\ Goto(t, "poll_test") /\ UNCHANGED <<s, loc, pipe>>

Linked(t) == loc[t].val = "linked"

\* POLLIN or POLLHUP
Readable == pipe.fifo > 0 \/ pipe.writers = {}

\* the pipe is looked at without its lock
PollTest(t) ==
    /\ Runs(t, "poll_test")
    /\ Goto(t, IF Readable THEN "poll_unlink" ELSE "poll_wait")
    /\ UNCHANGED <<s, loc, pipe, wq>>

-----------------------------------------------------------------------------
(* poll_wait_timeout                                                       *)

\* once triggered, the table stays so: there is no more waiting
PollTriggered(t) ==
    /\ Runs(t, "poll_wait") /\ t \in wq.triggered
    /\ Goto(t, "poll_test") /\ UNCHANGED <<s, loc, pipe, wq>>

PollSleep(t) ==
    /\ Runs(t, "poll_wait") /\ t \notin wq.triggered
    /\ s' = [s EXCEPT !.asleep = @ \cup {t},
                      !.timer = IF loc[t].time = "ticks" THEN @ \cup {t} ELSE @]
    /\ Goto(t, "poll_asleep") /\ UNCHANGED <<loc, pipe, wq>>

\* a poll that has timed out looks once more and ends
PollWoken(t) ==
    /\ Runs(t, "poll_asleep")
    /\ Goto(t, IF t \in wq.triggered THEN "poll_test" ELSE "poll_unlink")
    /\ s' = [s EXCEPT !.error[t] = "EOK"] /\ UNCHANGED <<loc, pipe, wq>>

\* poll_teardown, a node at a time: the last that was added goes first
PollTeardown(t) ==
    \/ /\ Runs(t, "poll_unlink") /\ Goto(t, "poll_unlink_reader")
       /\ wq' = [wq EXCEPT !.writer.nodes = Without(@, Node(t, PollKey))] /\ UNCHANGED <<s, loc, pipe>>
    \/ /\ Runs(t, "poll_unlink_reader") /\ Return(t)
       /\ wq' = [wq EXCEPT !.reader.nodes = Without(@, Node(t, PollKey)), !.triggered = @ \ {t}]
       /\ UNCHANGED <<s, pipe>>

PollNext ==
    \/ PipeNext
    \/ \E t \in Poller :
          \/ PollAddReader(t) \/ PollAddWriter(t) \/ PollTest(t)
          \/ PollTriggered(t) \/ PollSleep(t) \/ PollWoken(t) \/ PollTeardown(t)
          \/ TimerExpires(t) /\ UNCHANGED <<pipe, wq>>

PollSpec == BlockingInit /\ PipeInit /\ [][PollNext]_pipeVars

-----------------------------------------------------------------------------

\* A poll that has got its node sleeps only while there is nothing to read and
\* somebody may still write, or a writer is about to wake it: whatever wakes the
\* queue between the two insertions, the look at the pipe and the suspension is
\* remembered.
PollersServed ==
    (\E t \in WaitingAt("poll_asleep") : Linked(t)) =>
        (pipe.fifo = 0 /\ pipe.writers # {}) \/ WakeIsDue

\* What the code does not keep when _poll_add gets no memory (poll.c:60): the call
\* goes on without a node, and whoever waits for ever then does so whatever comes.
PollLinked == \A t \in WaitingAt("poll_asleep") : Linked(t)

\* What the code does not keep: a poll that finds nothing after a wakeup waits
\* again.  Its table is still triggered, so it spins until there is something,
\* and its time-out is never looked at.
PollWaits == \A t \in Poller : pc[t] = "poll_wait" => t \notin wq.triggered
=============================================================================
