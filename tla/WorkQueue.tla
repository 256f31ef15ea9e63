------------------------------ MODULE WorkQueue ------------------------------
(***************************************************************************)
(* components/drivers/src/workqueue.c: a thread that carries out work      *)
(* items which threads submit, at once or after a delay, and cancel.  The  *)
(* timers of delayed work expire in the tick interrupt, as without         *)
(* RT_USING_TIMER_SOFT every timer does.                                   *)
(***************************************************************************)
EXTENDS Blocking

CONSTANTS
    Worker,        \* queue->work_thread
    Client,        \* the threads that submit and cancel
    Work,          \* the work items
    ListHead,      \* the work item that a wrong cast makes of queue->work_list
    Uses           \* the ways in which a system uses the queue (queue.use)

\* queue.use          the calls of this module that the system makes, the clients
\*                    that make them, as the work functions do, and the work items
\* queue.list         queue->work_list
\* queue.current      queue->work_current, or Nil
\* queue.pending      the items with RT_WORK_STATE_PENDING
\* queue.submitting   the items with RT_WORK_STATE_SUBMITTING
\* queue.delayed      the items with RT_WORK_TYPE_DELAYED
\* queue.attached     the items whose work->workqueue is not null
\* queue.timer        the items whose timer is active
VARIABLE queue
workVars == <<threadVars, queue>>

ASSUME WorkQueueAssumption ==
    /\ {Worker} \cup Client \subseteq Thread /\ Worker \notin Client
    /\ \A use \in Uses : use.clients \subseteq Client /\ use.work \subseteq Work
    /\ Nil \notin Work /\ ListHead \notin Work \cup {Nil}

WqInit ==
    \E use \in Uses :
        queue = [use |-> use, list |-> << >>, current |-> Nil, pending |-> {},
                 submitting |-> {}, delayed |-> {}, attached |-> {}, timer |-> {}]

\* rt_enter_critical: of the others only interrupts run
LocksScheduler(t) == pc[t] \in {"wq_next", "wq_unlink"}

Executes(t, label) == Runs(t, label) /\ \A u \in Thread \ {t} : ~LocksScheduler(u)

\* what a call is for, and about which item
Purpose(t) == loc[t].val[1]
Item(t)    == loc[t].val[2]

Dequeued(list, w) == Without(list, w)

-----------------------------------------------------------------------------
(* _workqueue_thread_entry                                                 *)

WqTest ==
    /\ Executes(Worker, "user")
    /\ Goto(Worker, IF queue.list = << >> THEN "wq_suspend" ELSE "wq_take")
    /\ UNCHANGED <<s, loc, queue>>

\* there is no second look at the list
WqSuspend ==
    /\ Executes(Worker, "wq_suspend")
    /\ s' = [s EXCEPT !.asleep = @ \cup {Worker}]
    /\ Goto(Worker, "wq_take") /\ UNCHANGED <<loc, queue>>

\* mutant: the item keeps its PENDING flag while it is carried out
WqTake_KeepsFlag ==
    /\ Executes(Worker, "wq_take")
    /\ LET w == IF queue.list = << >> THEN ListHead ELSE queue.list[1] IN
       queue' = [queue EXCEPT !.list = Dequeued(@, w), !.current = w,
                              !.attached = @ \ {w}]
    /\ Goto(Worker, "wq_work") /\ UNCHANGED <<s, loc>>

\* the first node of the list, which is the list itself when it is empty
WqTake ==
    /\ Executes(Worker, "wq_take")
    /\ LET w == IF queue.list = << >> THEN ListHead ELSE queue.list[1] IN
       queue' = [queue EXCEPT !.list = Dequeued(@, w), !.current = w,
                              !.pending = @ \ {w}, !.attached = @ \ {w}]
    /\ Goto(Worker, "wq_work") /\ UNCHANGED <<s, loc>>

\* the work function has returned
WqDone ==
    /\ Executes(Worker, "wq_work") /\ queue.current # ListHead
    /\ queue' = [queue EXCEPT !.current = Nil]
    /\ Goto(Worker, "wq_ack") /\ UNCHANGED <<s, loc>>

\* _workqueue_work_completion: queue->sem is released until nobody waits for
\* it, and its value is taken back to 0
WqAck ==
    /\ Executes(Worker, "wq_ack")
    /\ LET waiters == ToSet(s.list[suspend_thread]) IN
       s' = [s EXCEPT !.asleep = @ \ waiters, !.timer = @ \ waiters,
                      !.list[suspend_thread] = << >>]
    /\ Goto(Worker, "user") /\ UNCHANGED <<loc, queue>>

-----------------------------------------------------------------------------
(* _workqueue_submit_work and rt_workqueue_critical_work                   *)

Calls(t, call) ==
    /\ call \in queue.use.calls
    /\ \/ t \in queue.use.clients /\ Executes(t, "user")
       \/ t = Worker /\ Executes(t, "wq_work") /\ queue.current # ListHead

\* where a thread is when it makes no call of this module
Home(t) == IF t = Worker THEN "wq_work" ELSE "user"

Ends(t) == Goto(t, Home(t)) /\ loc' = [loc EXCEPT ![t] = NoLocals]

Submitted(q, w) == [q EXCEPT !.list = Append(Dequeued(@, w), w), !.pending = @ \cup {w}]

\* -RT_EBUSY
Busy(w) == w \in queue.pending \/ queue.current = w

SubmitSection(t, w) ==
    /\ loc' = [loc EXCEPT ![t] = NoLocals] /\ UNCHANGED s
    /\ IF Busy(w) THEN Goto(t, Home(t)) /\ UNCHANGED queue
       ELSE /\ queue' = Submitted(queue, w)
            /\ Goto(t, IF queue.current = Nil THEN "wq_resume" ELSE Home(t))

WqSubmit(t, w) == Calls(t, "submit") /\ SubmitSection(t, w)

\* the node moves to the tail, and no flag is set
WqCritical(t, w) ==
    /\ Calls(t, "critical") /\ queue.current # w
    /\ queue' = [queue EXCEPT !.list = Append(Dequeued(@, w), w)]
    /\ Goto(t, IF queue.current = Nil THEN "wq_resume" ELSE Home(t))
    /\ UNCHANGED <<s, loc>>

\* rt_thread_resume(queue->work_thread), with interrupts enabled before it
WqResume(t) ==
    /\ Executes(t, "wq_resume")
    /\ s' = rt_thread_resume(s, Worker) /\ Goto(t, Home(t)) /\ UNCHANGED <<loc, queue>>

-----------------------------------------------------------------------------
(* _workqueue_submit_delayed_work and _workqueue_cancel_delayed_work       *)

\* where the cancellation goes on: the flags are read with interrupts enabled
CancelBranch(w) ==
    IF w \in queue.pending THEN "wq_unlist"
    ELSE IF w \in queue.submitting THEN "wq_stop" ELSE "wq_detach"

\* With a number of ticks, or without for an item that is still of the delayed
\* type.  A submission cancels what is left of the previous one.
WqDelayed(t, w, purpose) ==
    /\ Calls(t, "delayed") /\ (purpose = "at once" => w \in queue.delayed)
    /\ loc' = [loc EXCEPT ![t].val = <<purpose, w>>]
    /\ queue' = [queue EXCEPT !.delayed = @ \cup {w}]
    /\ Goto(t, IF w \in queue.attached THEN CancelBranch(w) ELSE "wq_attach")
    /\ UNCHANGED s

WqCancelDelayed(t, w) ==
    /\ Calls(t, "cancel") /\ w \in queue.delayed \cap queue.attached
    /\ loc' = [loc EXCEPT ![t].val = <<"cancel", w>>]
    /\ Goto(t, CancelBranch(w)) /\ UNCHANGED <<s, queue>>

Unlisted(q, w) == [q EXCEPT !.list = Dequeued(@, w), !.pending = @ \ {w}]

\* work->workqueue is read again: it may be null, and what is at the address of
\* work_current is then no work item
WqUnlist(t) ==
    /\ Executes(t, "wq_unlist") /\ UNCHANGED s
    /\ IF Item(t) \in queue.attached /\ queue.current = Item(t)
       THEN Ends(t) /\ UNCHANGED queue
       ELSE /\ queue' = Unlisted(queue, Item(t))
            /\ Goto(t, "wq_detach") /\ UNCHANGED loc

WqStop(t) ==
    /\ Executes(t, "wq_stop") /\ UNCHANGED <<s, loc>>
    /\ queue' = [queue EXCEPT !.timer = @ \ {Item(t)}, !.submitting = @ \ {Item(t)}]
    /\ Goto(t, "wq_detach")

WqDetach(t) ==
    /\ Executes(t, "wq_detach") /\ UNCHANGED s
    /\ queue' = [queue EXCEPT !.attached = @ \ {Item(t)}, !.pending = @ \ {Item(t)}]
    /\ IF Purpose(t) = "cancel" THEN Ends(t) ELSE Goto(t, "wq_attach") /\ UNCHANGED loc

WqAttach(t) ==
    /\ Executes(t, "wq_attach")
    /\ queue' = [queue EXCEPT !.attached = @ \cup {Item(t)}]
    /\ Goto(t, IF Purpose(t) = "delayed" THEN "wq_arm" ELSE "wq_submit")
    /\ UNCHANGED <<s, loc>>

\* where work->workqueue is read again and null, a submission writes through what
\* is at the address of the list, and does not come back
QueueIsThere(w) == w \in queue.attached \cup queue.pending

WqSubmitAtOnce(t) ==
    /\ Executes(t, "wq_submit") /\ QueueIsThere(Item(t)) /\ SubmitSection(t, Item(t))

\* rt_timer_init of a timer that is active: the list of timers still leads to it,
\* or no longer
WqArm(t) ==
    /\ Executes(t, "wq_arm")
    /\ \E timer \in {queue.timer, queue.timer \ {Item(t)}} :
          queue' = [queue EXCEPT !.submitting = @ \cup {Item(t)}, !.timer = timer]
    /\ Goto(t, "wq_start") /\ UNCHANGED <<s, loc>>

WqStart(t) ==
    /\ Executes(t, "wq_start") /\ Ends(t) /\ UNCHANGED s
    /\ queue' = [queue EXCEPT !.timer = @ \cup {Item(t)}]

\* somebody unlinks the last node of the list (rt_workqueue_cancel_all_work)
LastIsUnlinked ==
    \E t \in Client \cup {Worker} :
        pc[t] = "wq_unlink" /\ queue.list # << >> /\ Item(t) = Last(queue.list)

\* mutant: the handler submits the item and leaves the worker asleep
WqExpires_NoResume(w) ==
    /\ w \in queue.timer \cap queue.attached /\ ~Busy(w)
    /\ queue' = Submitted([queue EXCEPT !.timer = @ \ {w}, !.submitting = @ \ {w},
                                        !.delayed = @ \ {w}], w)
    /\ UNCHANGED threadVars

\* _delayed_work_timeout_handler.  What it appends in the middle of rt_list_remove
\* of the last node is not always linked in.
WqExpires(w) ==
    LET stopped   == [queue EXCEPT !.timer = @ \ {w}, !.submitting = @ \ {w},
                                   !.delayed = @ \ {w}]
        submitted == Submitted(stopped, w)
    IN  /\ w \in queue.timer /\ QueueIsThere(w)
        /\ IF Busy(w) THEN queue' = stopped
           ELSE \/ queue' = submitted
                \/ /\ LastIsUnlinked
                   /\ queue' = [submitted EXCEPT !.list = Dequeued(@, w)]
        /\ s' = IF ~Busy(w) /\ queue.current = Nil THEN rt_thread_resume(s, Worker) ELSE s
        /\ UNCHANGED <<pc, loc>>

\* who follows the null pointer
WqFaults ==
    \/ \E w \in queue.timer : ~QueueIsThere(w)
    \/ \E t \in Client \cup {Worker} : pc[t] = "wq_submit" /\ ~QueueIsThere(Item(t))

-----------------------------------------------------------------------------
(* Cancellation.                                                           *)

WqCancel(t, w) ==
    /\ Calls(t, "cancel") /\ w \notin queue.delayed /\ queue.current # w
    /\ queue' = Unlisted(queue, w)
    /\ UNCHANGED threadVars

\* rt_sem_take is called with interrupts disabled: the thread goes on, clears
\* the flag, and is switched away when it enables them.  No work function waits
\* for its own end.
WqCancelSync(t, w) ==
    /\ Calls(t, "cancel sync") /\ (t = Worker => queue.current # w)
    /\ queue' = IF queue.current = w THEN [queue EXCEPT !.pending = @ \ {w}]
                                     ELSE Unlisted(queue, w)
    /\ s' = IF queue.current = w THEN rt_ipc_list_suspend(s, suspend_thread, t) ELSE s
    /\ loc' = [loc EXCEPT ![t].val = <<"cancel sync", w>>]
    /\ Goto(t, "wq_synced")

WqSynced(t) == Executes(t, "wq_synced") /\ Ends(t) /\ UNCHANGED <<s, queue>>

\* rt_workqueue_cancel_all_work, from node to node with the scheduler locked; the
\* flags stay
NodeAfter(w) ==
    LET i == SelectInSeq(queue.list, LAMBDA x : x = w) IN
    IF i \in 1..Len(queue.list) - 1 THEN queue.list[i + 1] ELSE ListHead

WqCancelAll(t) ==
    /\ Calls(t, "cancel all") /\ UNCHANGED <<s, queue>>
    /\ LET first == IF queue.list = << >> THEN ListHead ELSE Head(queue.list) IN
       loc' = [loc EXCEPT ![t].val = <<"cancel all", first>>]
    /\ Goto(t, "wq_next")

WqNextNode(t) ==
    /\ Executes(t, "wq_next") /\ UNCHANGED <<s, queue>>
    /\ IF Item(t) = ListHead THEN Ends(t)
       ELSE /\ loc' = [loc EXCEPT ![t].val = <<"cancel all", Item(t), NodeAfter(Item(t))>>]
            /\ Goto(t, "wq_unlink")

WqUnlinkNode(t) ==
    /\ Executes(t, "wq_unlink") /\ UNCHANGED s
    /\ queue' = [queue EXCEPT !.list = Dequeued(@, Item(t))]
    /\ loc' = [loc EXCEPT ![t].val = <<"cancel all", loc[t].val[3]>>]
    /\ Goto(t, "wq_next")

WorkQueueNext ==
    \/ WqTest \/ WqSuspend \/ WqTake \/ WqDone \/ WqAck
    \/ \E t \in Client \cup {Worker} :
          \/ WqResume(t) \/ WqUnlist(t) \/ WqStop(t) \/ WqDetach(t) \/ WqAttach(t)
          \/ WqSubmitAtOnce(t) \/ WqArm(t) \/ WqStart(t) \/ WqSynced(t)
          \/ WqCancelAll(t) \/ WqNextNode(t) \/ WqUnlinkNode(t)
          \/ \E w \in queue.use.work :
                \/ WqSubmit(t, w) \/ WqCritical(t, w) \/ WqCancelDelayed(t, w)
                \/ WqCancel(t, w) \/ WqCancelSync(t, w)
                \/ \E purpose \in {"delayed", "at once"} : WqDelayed(t, w, purpose)
    \/ \E w \in Work : WqExpires(w)

WorkQueueSpec == BlockingInit /\ WqInit /\ [][WorkQueueNext]_workVars

-----------------------------------------------------------------------------

WorkerForgotten ==
    /\ queue.list # << >> /\ Worker \in s.asleep
    /\ \A t \in Client : pc[t] # "wq_resume"

\* Nobody who submits, critically or by a timer, leaves the worker asleep.  It is
\* the worker itself that goes to sleep on work, between its look at the list and
\* rt_thread_suspend.
WorkerForgetsItself == [][WorkerForgotten' => WorkerForgotten \/ WqSuspend]_workVars

\* What the code does not keep: a submission resumes the worker, which is to carry
\* out the work.
NoWorkIsLost == ~WorkerForgotten

\* "we have work to do with" (workqueue.c:68): when the worker has been woken,
\* or has found the list not empty, there is an item in it.
WorkToDo ==
    pc[Worker] = "wq_take" /\ Worker \notin s.asleep => queue.list # << >>

\* "Attach workqueue so the timeout callback can submit it" (workqueue.c:211): the
\* handler follows work->workqueue without a test.
TimersAttached == queue.timer \subseteq queue.attached

\* The flags tell where an item is.  PENDING: it is in the list, save that
\* cancel_all does not clear the flag, and that rt_workqueue_critical_work does not
\* set it and the cancellation of delayed work clears it too late.  SUBMITTING: its
\* timer will submit it.
WorkFlagsAgree ==
    /\ IsInjective(queue.list) /\ queue.current \notin ToSet(queue.list)
    /\ "cancel all" \notin queue.use.calls => queue.pending \subseteq ToSet(queue.list)
    /\ {"critical", "delayed"} \cap queue.use.calls = {} =>
          ToSet(queue.list) \subseteq queue.pending
    /\ \A w \in queue.submitting \ queue.timer :
          \E t \in Client \cup {Worker} : pc[t] = "wq_start" /\ Item(t) = w

\* Every thread that sleeps in rt_workqueue_cancel_work_sync sleeps for an item
\* that is being carried out: all of them are woken when it is over.
SyncWaitersAgree ==
    \A t \in Client : pc[t] = "wq_synced" /\ t \in s.asleep =>
        queue.current = Item(t) \/ pc[Worker] = "wq_ack"
=============================================================================
