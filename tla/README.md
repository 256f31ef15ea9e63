# RT-Thread 4.0.2 on an STM32F429: a TLA+ development

The repository is a board support package: the RT-Thread 4.0.2 kernel
(`src/rt-thread`), configured by `src/rtconfig.h` for one Cortex-M4 core, with
drivers over the vendor HAL, file systems, lwIP and a demonstration program.
What the repository contributes as a program with a logic of its own is the
kernel and the driver-framework library on top of it; the HAL, CubeMX projects,
CMSIS, the file systems' back ends and lwIP are vendored, and stay out.

The build matters to what is modelled. `rtconfig.h` defines 32 priorities, a
tick of 1 kHz, semaphores, mutexes, events, mailboxes, message queues, memory
pools, the memheap as system heap, the system work queue, and hooks. It does
*not* define `RT_USING_SMP`, `RT_USING_TIMER_SOFT`, `RT_USING_SIGNALS` or
`RT_USING_MODULE`. All threads share one core, timers expire in the tick
interrupt, and a section between `rt_hw_interrupt_disable` and `_enable` is
indivisible. Everything that follows is about that build.

## Inventory

| Component | State | Operations | Interacts by | Hard part |
|---|---|---|---|---|
| scheduler (`scheduler.c`) | ready list per priority, bitmap of the non-empty ones, current thread, lock nesting, YIELD flag | `rt_schedule`, insert, remove, enter/exit critical | called at the end of every operation that makes a thread ready, and from interrupts | bitmap and lists must agree whenever interrupts are enabled; who keeps the processor against an equal; a switch owed while the scheduler is locked |
| thread (`thread.c`) | `stat`, priority, `error`, the one list node, the thread timer | init/create, startup, suspend, resume, control, sleep, yield, timeout, detach/delete, exit | owns the node by which it is in a ready list, in an object's wait list or among the dead | several operations are two or three sections; time-outs and other threads come in between |
| idle thread (`idle.c`) | list of dead threads | reaping | `rt_thread_exit`/`delete` hand the dead over | a dead thread is taken and freed in two steps |
| clock, timer (`clock.c`, `timer.c`) | tick, sorted list of deadlines, slice counter | `rt_tick_increase`, start, stop, check | thread time-outs, user callbacks in interrupt context | wrap of the tick, callbacks that start or stop timers |
| IPC (`ipc.c`) | value/owner/set/ring and a list of waiters, per object | take/release, send/recv, control, detach/delete | `rt_thread_suspend`, `rt_thread_resume`, the thread timer, `rt_schedule` | hand-over against time-out, lost or overtaken wakeups, priority inheritance |
| memory pool (`mempool.c`) | free list and count, waiters | alloc with a waiting time, free | threads wait, threads and interrupts free | a waiter that is overtaken between a free and its turn |
| memory heap (`memheap.c`) | headers that link neighbours, free list, available size | alloc, realloc, free | one semaphore around each call | splitting and merging keep four links and a sum |
| completion (`completion.c`) | one flag, one waiter | wait, done | threads and interrupts complete | the flag is read before interrupts are masked, and races the time-out |
| data queue (`dataqueue.c`) | two 16-bit indices, two lists of waiters, low-water mark | push, pop, reset | interrupts push, drivers pop | pushers are resumed late on purpose; the reset tests with interrupts enabled |
| wait queue, pipe, poll (`waitqueue.c`, `pipe.c`, `poll.c`) | flag and nodes; ring, open ends, a mutex; a table per poll | wait, wakeup; open, read, write, close; poll | the pipe sleeps in two wait queues, poll in both at once | a wakeup before the wait; who is woken when an end closes |
| work queue (`workqueue.c`) | list, current item, three flags per item, timers of delayed items | submit, delay, cancel, cancel_sync, cancel_all | a worker thread, timers, a semaphore for those who wait for an item | calls of several sections on one item |
| ring buffers (`ringbuffer.c`, `ringblk_buf.c`) | indices with mirror bits; a table and a list of blocks | put, forced put, get; alloc, put, get, queue, free | their users' locks | wrap-around, overwriting, blocks freed out of order |
| serial (`serial.c`) | software FIFO, DMA queue and its `activated` flag | read, write, interrupts of reception and of DMA | interrupts fill and continue, threads drain and start | overrun; the flag against the interrupt |
| DFS (`dfs.c`, `dfs_posix.c`, `dfs_file.c`) | table of descriptors, references, mount table | open, close, read, ... | `fslock` per look-up, file operations without it | a close while others use the descriptor |
| device registry, netdev/SAL | registries, open counts, tables | open/close/find | a mutex or masked interrupts per call | counts and look-ups under one lock |

What makes each correct:

- **scheduler** - the highest-priority ready thread runs whenever no call owes a
  switch; lists, bitmap and states agree; equals share by slices.
- **thread** - a thread is in one place at a time; an operation that lets
  interrupts in finds the thread as it left it; the dead never run; sleepers wake.
- **idle** - what died is freed once, and only after it has left every list.
- **IPC** - nothing is granted twice or lost; nobody waits for what is there; a
  time-out and a grant exclude each other; detaching frees every waiter; a mutex
  owner runs at the best priority of its waiters, and only as long.
- **timers** - the list is in the order of the deadlines, no timer fires early
  and none that is due is left behind, across the wrap.
- **memory** - blocks partition the heap, free neighbours are merged, the sizes
  add up; a block of a pool is in one pair of hands.
- **driver library** - no wakeup is lost, what goes into a buffer comes out in
  order, overwriting drops the oldest and no more, a flag tells where an item is.

## How the code becomes TLA+

`RTKernel` has no variables. A *kernel state* is a record `k` (current thread,
states, YIELD flags, priorities, errors, active timers, all lists, bitmap, lock
nesting), and a C function that changes it is an operator `k |-> k'` of the same
name. A section with interrupts disabled is then a composition of operators and
**one step** of a specification. Between two sections anything an interrupt or,
after a switch, another thread can do may happen.

`pc[t]` is the place thread `t` has reached in its call. Only `k.cur` takes
steps of threads: a switch is the assignment of `k.cur`, and PendSV happens when
the section that asked for it enables interrupts. A thread that is switched away
inside `rt_schedule` goes on from its label when it is current again. What the
code checks *before* it disables interrupts is a step of its own when an
interrupt or a preempting thread could change the answer (`Resume`,
`SuspendOther`, `DetachCheck`), and so is a call of `rt_schedule` that follows a
section (label `schedule`). Not everything that makes a thread ready calls
`rt_schedule`: `rt_thread_resume` and `rt_thread_control` (a change of priority)
leave the switch to their caller, and a thread they have made ready or better waits
for the next `rt_schedule` of anybody, the next tick at the latest. The history
variable `late` of `Threads` holds these threads until then.

Data that the properties do not tell apart is left out: stacks, names, hooks,
log lines, object types. In the modules over `RTKernel` the tick has no value: a
thread timer is active or not, an active one may expire in any step, and so every
order of deadlines is covered; a slice may end in any step. `Timers` has ticks.

There are two layers of threads. Where it matters who has the processor (threads,
semaphore, mutex), modules extend `RTKernel`, through `Callers` for objects one
waits for. Where the object has to be right whoever is switched to when, they
extend `Blocking`: any thread that is not asleep may take the next step, the
kernel operations are those of `RTKernel` of the same name without the ready
lists, and `TimerExpires` times out any sleeper with a timer. That is more than
threads of one priority with slices that end anywhere can do, hence more than any
threads can; a section with interrupts disabled is one step in both layers. The
calls that wait are one shape in `Blocking`: `AtTest` (at the test of the loop, at
first or after a resumption), `SuspendSelf`, `Woken`, `WaitFails`, with the time
that is left after a wait (`TimeLeft`). A wait in which the code starts again with
its whole time (`DqPushWait`) says so. `loc[t]` holds what the call was given.

Code without threads of its own is a set of operators over one record and an
action per call (`RingBuffer`, `RingBlk`, `MemHeap`): its users hold a lock over
the call, or the call masks interrupts.

| Module | Models |
|---|---|
| `RTKernel` | lists of `rtservice.h`, `scheduler.c`, the sections of `thread.c`, wait-list helpers of `ipc.c`, and `KernelInv`, the agreement of all of it |
| `Threads` | the life of threads: one action per section of `rt_thread_init/startup/suspend/resume/control/sleep/yield/delete/detach/exit`, `rt_enter/exit_critical`, `rt_thread_idle_excute`, tick, timer and device interrupts |
| `Callers` | what modules about objects that threads wait for have in common: threads already started, places, ticks, time-outs |
| `Semaphore` | one semaphore: take with no, limited or unlimited waiting, release from threads and interrupts, reset, detach/delete, initialisation again |
| `Mutex` | any number of mutexes: recursive take with no, limited or unlimited waiting, inheritance, release by the owner and by others, hand-over; threads sleep between their calls |
| `AbstractSemaphore` | what a semaphore promises, without lists, threads' states or the scheduler |
| `Blocking` | threads that wait, without the scheduler; `SleepersAgree` |
| `Mailbox` | `rt_mb_send_wait`, `rt_mb_send` of an interrupt, `rt_mb_recv`, reset; the ring of words |
| `MessageQueue` | send, urgent send, receive, reset; an item is taken, copied and linked in three steps, as the code enables interrupts for the copy |
| `Event` | send with its walk over the waiters, receive with AND/OR/CLEAR, reset |
| `AbstractChannel` | a bounded first-in first-out channel with urgent messages: `Mailbox`, `MessageQueue` and `DataQueue` implement it |
| `MemPool` | allocation that waits, release, blocks passed between threads and interrupts |
| `MemHeap` | the headers and the free list through allocation, reallocation (in place, moving, shrinking) and release |
| `Timers` | `rt_timer_start` in three steps, `rt_timer_stop` in two, the tick and `rt_timer_check` timer by timer, timeout functions that start or stop any timer |
| `Completion` | wait and done |
| `DataQueue` | push, pop, the low-water mark, reset step by step |
| `Pipe` | `waitqueue.c` and the file operations of `pipe.c` on it |
| `Poll` | `poll` on the reading end of a pipe: a node in each wait queue, if there is memory for it, the look at the pipe, the wait with or without a time-out, the tear-down |
| `WorkQueue` | the worker, submission at once, delayed (with and without ticks) and critical, the timers of delayed items, the four cancellations, `cancel_all` node by node, section by section |
| `RingBuffer`, `RingBlk`, `Serial` | the byte ring; the ring of blocks; reception into the FIFO, where the DMA controller writes ahead of its interrupts, and transmission by DMA |
| `Descriptors` | the table of file descriptors: `fd_new`, `fd_get`, `fd_put`, and open, close and read around them |
| `Rings` | what memcpy does around the end of a circular buffer, and the record of a call, for the two byte rings and their promise |
| `AbstractRing` | a queue of bytes, with the bytes given to a call or taken by it, that refuses what does not fit, or drops the oldest bytes: `RingBuffer` and both modes of `Serial` implement it |
| `MCThreads`, `MCSemaphore`, `MCMutex` | values of the constants for TLC |
| `MCObjects`, `MCLibrary` | one object per behaviour, chosen in the initial state (`system`), and the conjunctions of like properties of all of them |
| `Lists` | removal from a linked list, for every module that has one |
| `ListsProofs` | lemmas about lists: what removal and insertion in order do to members, length and order |
| `RTKernelProofs` | lemmas: what each operator of the kernel keeps and leaves alone; the initial state; `rt_schedule` picks the best thread |
| `BlockingProofs` | lemmas: what each operator of `Blocking` does to those who sleep, and to the balance of sleepers and things |
| `ThreadsProofs`, `SemaphoreProofs`, `MutexProofs`, `ObjectsProofs`, `LibraryProofs` | the theorems |

A constant names what the program does with the kernel (who is deleted, who
sleeps, who resumes whom, whom an interrupt resumes). `Threads!Discipline` is the
part of it that the code *needs*: a thread that another one deletes or
resumes does not sleep on a timer and is not resumed by an interrupt, each thread
is controlled by one owner, and an owner is not itself deleted half-way through a
call. The run `delete_race` drops the first clause and shows what happens. `Semaphore!Discipline`
is its counterpart for a semaphore: a semaphore is not detached under waiters with
time-outs (`CarefulOwner`), no take waits while the scheduler is locked (`LockedTake`; what
happens otherwise is below, under "What else the code does not keep"), and one thread at
most detaches it and initialises it again. A mutex needs less: its program releases what
it has taken (`Releases`), and for the two properties about priorities a thread
has one mutex at a time (`Nested` FALSE).

## Runs

Passing runs (deadlock is checked in all of them):

| Run | Instance | Shows |
|---|---|---|
| `threads_safety` | idle, main, a, b on three priorities; b controlled and deleted, a and main sleep, a exits and is resumed by an interrupt; b is static: it is detached, initialised and started again; lock nesting to 1 | `TypeOK`, `ListsAgree`, `CallsAgree` (these two are the inductive invariant of the proofs), `HighestPriorityRuns`, `OnlyRunnableRuns`, `DeadStaysDead`, `PreemptionJustified` |
| `threads_live` | main, a and b share one priority, so that two of them wait in one ready list; main sleeps; a and b exit, both dead at times, and are created anew | under fair ticks each ready thread runs again (`EveryReadyThreadRuns`), and a sleeper returns (`SleepersWake`); the dead are freed if the idle thread keeps getting the processor and no more threads end (`DeadAreFreed`; the idle thread takes the last of the dead first, and while threads keep ending an earlier one may wait for ever) |
| `semaphore_prio` | three takers on two priorities, PRIO waiting, every kind of wait, releases by two threads and an interrupt, reset to 0 and 2, scheduler lock | `WaitersAgree`, `NoneWaitsForNothing` (no lost wakeup), `GrantsAreReal`, `HighestPriorityRuns`, `BestWaiterFirst`, `ImplementsAbstract` |
| `semaphore_fifo` | FIFO waiting, a timed taker and one that waits for ever, releases by an interrupt and by the owner, who also detaches and initialises again | every waiter of a detached semaphore is resumed with an error, and nobody waits when it is initialised (`ImplementsAbstract`); `TimedTakesEnd`; `NoneStarves` if tokens keep being handed out |
| `mutex_one` | one mutex, PRIO waiting; hi, mid and lo take it twice over with every kind of wait, and sleep | `OwnersAgree` (owner, count and what the program holds agree; a hand-over and a time-out exclude each other), `NoInversion`, `PriorityRestored` |
| `mutex_live` | the same mutex, taken by hi, whose waits may be timed, and lo; mid may never give up the processor | `UrgentIsServed`: what inheritance is for, also when hi has lent its priority and timed out |
| `kernel_objects` | one mailbox of two words, one queue of two items, an event of two bits, a pool of two blocks, a heap of 20 units, or three timers; threads a and b send, b and c receive, a resets; an interrupt sends, frees or ticks | `ObjectsAgree`, `WaitersAreServed` (no lost wakeup of any of the four), `HeapAgrees`, `TimersInOrder`, `TimersFireOnTime`, `EvGrantsExclusive`, and that mailbox and queue implement the channel |
| `driver_library` | the objects of the driver library, likewise | `LibraryWaitersServed` (completion, data queue, pipe, poll, and those who wait for a work item), `WorkFlagsAgree`, `WorkerForgetsItself` (nobody who submits leaves the worker asleep on work), `DescriptorsAgree` (a file descriptor's struct lives as long as its references), `RbbBlocksDisjoint`, `DmaNotIdle`, and that the data queue implements the channel through the wraps of its indices, until it overwrites, the byte ring and the serial FIFO the ring |

Runs that show the code disagreeing with what it says (`findings` of
`PROJECT.json` quotes the line):

| Run | What happens |
|---|---|
| `delete_race` | `rt_thread_delete` of a sleeping thread: its timer expires between removal and `rt_timer_detach`, and the closed thread is on a ready list |
| `mutex_nested` | a thread inherits a priority through m1, takes m2, and releases m1 first: the release of m2 leaves it with the inherited priority for ever |
| `work_taken` | work that has woken the worker is cancelled before the worker runs: the worker takes the list head for a work item |
| `ring_force` | a forced put that wraps and passes the reader flips both mirror bits: the ring looks empty |

### What else the code does not keep

Met while modelling. The passing runs keep away from it by a constant, or have it and say
what holds all the same. Where a property is named, it states what the code does not keep,
and TLC has found it violated on the instance of the passing run (with the constant
changed, where one is named):

- `rt_thread_yield` keeps the processor although an equal is ready: the flag
  `rt_schedule` looks at is set by the tick only (`Yield`, `YieldSchedule`).
- `rt_thread_resume` of a thread whose timer expires between the check and the
  section (`Discipline`), and `rt_data_queue_reset` whose last waiter times out between
  test and section: the code then writes through the list head taken for a thread,
  into fields of the queue, which `ResumedWithError` leaves alone.
- `rt_ipc_list_resume_all` tests its list with interrupts enabled and takes the head with
  them disabled: if the last waiter of a semaphore that is detached times out in between,
  the list head is taken for a thread (`Semaphore!ResumesAThread`, with `CarefulOwner`
  FALSE and a detaching owner as in `semaphore_fifo`).
- A take that waits with the scheduler locked is not switched away, and returns RT_EOK
  without a token (`GrantsAreReal`, with `LockedTake` TRUE).
- Work submitted between the worker's look at its list and its suspension: the worker
  sleeps on it until the next submission (`NoWorkIsLost`; `WorkerForgetsItself` says that
  nothing else has this effect).
- An item is submitted at once while its timer runs: the worker clears its queue, and the
  handler of the timer follows a null pointer (`TimersAttached`).
- In a data queue whose `put_index` has wrapped and whose `get_index` has not, their
  difference, an int, is never the size, and a push into the full queue writes over an
  item (`DqKeepsItems`; `DqImplementsChannel` says that it happens in no other state).
- When the DMA controller has come round and its interrupt has not, a read returns new
  bytes for the oldest (`RxReadsOldest`; by `RxImplementsRing` only the oldest are
  replaced, and the rest is read in order).
- A one-shot timer that its own function starts again is listed without the flag
  that `rt_timer_stop` looks at (`Timers!ListedAreActive`).
- A delayed submission that races the timer of the one before initialises a timer
  that may be active: the list of timers leads to it or no longer does, and both are
  taken (`WqArm`). A null `work->workqueue` is followed: by the handler of the timer, or by
  a submission without ticks. `WqFaults` says when; the queue then stops, since
  what the processor finds there is not modelled.
- `rt_workqueue_cancel_all_work` leaves PENDING set, so that the items can never be
  submitted again; and as it unlinks with interrupts enabled, an item that a timer appends
  while the last node is half unlinked may be linked in nowhere (`WqExpires`).
- `rt_workqueue_critical_work` does not set PENDING and the cancellation of delayed work
  clears it late, so that an item may be in the list without (the clauses of
  `WorkFlagsAgree`).
- A poll for which `_poll_add` gets no memory goes on without a node and nothing wakes it
  but its time-out (`PollLinked`).
- A block queue of `ringblk_buf.c` walks the array although the blocks were taken
  from the list (`RbbQueueContinuous`); and because they have left the list, the next
  allocation may use their bytes while the consumer still has them, so
  `RbbBlocksDisjoint` speaks of the blocks in the list.
- `rt_rbb_blk_alloc` does not compare the size with that of the buffer when its list is
  empty: a block larger than the buffer is granted (the hypothesis of
  `RbbBlocksAlwaysDisjoint`).
- A writer by DMA that is preempted between its push and its look at `activated`
  may find the flag cleared and start its own buffer out of turn, or one that has
  been sent already (`DmaSendsInOrder`).
- The close of the last writer of a pipe wakes one of two sleeping readers
  (`PipeEndOfFile`, with `PipeReader` of two threads).
- The table of a poll stays triggered: after a wakeup that finds nothing (what was
  written has been read), poll spins, and its time-out is not looked at (`PollWaits`).
- A reference to a `struct dfs_fd` keeps the struct, not the file: a read that has its
  reference when another thread closes works on a closed file (`FdUsesOpenFile`).

### Bounds

Four threads are the idle thread, one that acts, one that is acted on, and one
that interferes; two or three priorities give a higher, an equal and a lower
one. The prio-ordered insertion needs two waiters before and behind: three takers
on two priorities have them. Nesting to 1 shows a locked scheduler; deeper levels
differ only in the count, and the proofs have any. `ValueBound` 2 is one token
more than the tokens a take and a release can exchange; `ValueRange` is above it,
so that the 16-bit value does not wrap: a program that releases 65536 times
without a take loses its tokens, and nothing in the code prevents that. `HoldRange`
and `MaxTakes` of the mutex are related in the same way (two takes show recursion;
256 would wrap the 8-bit count). Three threads of three priorities are the smallest
case of priority inversion.

In `kernel_objects` and `driver_library` two messages tell an order from its
reverse, two slots or items make "full" and "partly full" differ, and three threads
with overlapping roles give two senders, two receivers and one that is both; so one
waiter can be overtaken by another, or by an interrupt. Twelve ticks (`TickRange`)
with periods of 1 and 3 wrap within a few periods; `MaxLate` bounds how long a thread may
be kept between reading the tick and inserting its timer, and must stay below
half the range as in the code. A heap of 20 units with headers of 2 holds four or
five blocks: enough for a block with used and free neighbours on either side, for
splitting with and without a remainder, and for each branch of the reallocation.
A data queue of size 2 with mark 1 is between "at the mark" and "above it"; its
indices wrap at 4 (`IndexRange`; 65536 in the code), which the size divides, as the sizes
of the build do: with one that does not, the slot of an index would jump. The ring buffer has 4 bytes and lengths
1, 3 and 5 (more than fits); three blocks in 4 bytes wrap and leave fragments; the
serial FIFO has 4 bytes, and the DMA controller, which goes round it, is ahead of the
interrupts by its size at most (they come at its middle and at its end). A table of three descriptors
that grows by two is extended twice, the second time to its limit; three threads open,
close and use one at once. The work queue is used in four ways
(`Uses`): submission and cancellation of three items by two threads and the work functions;
the same with critical work and `cancel_all`; and every call, delayed work included, on one item
of two threads or on two items of one. Between any two sections of a call any other thread
or timer may come: the system worker has priority 23, below that of main.

### Fairness

Safety properties assume none. The liveness runs assume that a call that has begun
goes on when its thread has the processor, strongly, because it has the processor
in turns (`SF` of the continuations: a slice is many instructions, so a thread that
is current again and again executes again and again); that interrupts come (`WF`
of the end of a slice and of a timer that stays active); that a locked scheduler is
unlocked; and, for `UrgentIsServed`, that a program gives up a mutex it has when it
has the processor again and again. `UrgentIsServed` and `TimedTakesEnd` need the
slices: `rt_mutex_release` after a waiter has timed out, and `rt_sem_detach`, make a
better thread the best choice without calling `rt_schedule`, and only the next tick
does; both runs have the case. Nothing is assumed to begin a call: `DeadAreFreed` and `NoneStarves`
state what the program must do for them as a premise.

## Proofs

The prover shows for every value of the constants (any threads, priorities, lists,
depths of nesting, mutexes, sizes) what the runs show on an instance. In each
module a lemma per action says that the step keeps an inductive invariant; the
theorems follow from it. The runs check the same properties, and TLC has checked
every inductive invariant before it was proved, so a lemma is about something to
which no small instance is a counterexample. `RTKernelProofs` has a lemma per
kernel operator: from a state that satisfies `KernelInv` it leads to one that does,
with what it leaves alone. Everything over `RTKernel` is put together from those.

| Theorem | Says | Under |
|---|---|---|
| `ThreadsProofs!TypeCorrect`, `ListsAlwaysAgree`, `CallsAlwaysAgree`, `HighestPriorityAlwaysRuns`, `OnlyRunnableAlwaysRuns` | the five invariants of `threads_safety` | `Discipline` |
| `DeadAlwaysStayDead`, `PreemptionAlwaysJustified` | its two action properties | `Discipline` |
| `SemaphoreProofs!WaitersAgreeAlways`, `NoLostWakeup`, `GrantsAreRealAlways` | the invariants of the semaphore runs | `Discipline` |
| `HighestPriorityRunsAlways` | the same for `HighestPriorityRuns` | also `Owner = {}` |
| `BestWaiterFirstAlways` | no step hands a token over a better waiter | also `Flag = "PRIO"` |
| `Refinement` | `Spec => ImplementsAbstract` | also `ValueBound < ValueRange` |
| `MutexProofs!OwnersAlwaysAgree` | `OwnersAgree`, nested takes included | nothing |
| `NoInversionWithoutNesting` | `NoInversion` | `~Nested`, `Flag = "PRIO"` |
| `PriorityRestoredWithoutNesting` | `PriorityRestored` | `~Nested` |
| `ObjectsProofs!TimersAlwaysInOrder` | `TimersSpec => []TimersInOrder` | nothing |
| `TimersAlwaysFireOnTime` | `TimersSpec => TimersFireOnTime` | nothing |
| `HeapAlwaysAgrees` | `HeapSpec => []HeapAgrees` | nothing |
| `ObjectsAlwaysAgree`, `WaitersAreAlwaysServed`, `EventsAreExclusive` | `ObjectsAgree`, `WaitersAreServed` and `EvGrantsExclusive` of `kernel_objects` | nothing |
| `MailboxIsAChannel`, `MessageQueueIsAChannel` | `MailboxSpec => MbImplementsChannel`, `MessageQueueSpec => MqImplementsChannel` | nothing |
| `LibraryProofs!RbbBlocksAlwaysDisjoint` | `RbbSpec => []RbbBlocksDisjoint` | no block larger than the buffer |
| `DescriptorsAlwaysAgree` | `DescriptorsSpec => []DescriptorsAgree` | nothing |
| `DmaNeverIdle` | `TxSpec => []DmaNotIdle` | nothing |
| `RingBufferIsAQueue` | `RbSpec => RbImplementsRing` | `ForceLength \subseteq {0, 1}`: forced puts of one byte |
| `ReceptionIsAQueue` | `RxSpec => RxImplementsRing` | nothing |
| `WorkFlagsAlwaysAgree` | `WorkQueueSpec => []WorkFlagsAgree` | nothing |
| `WorkerForgetsOnlyItself` | `WorkerForgetsItself`, `SyncWaitersAgree` and `SleepersAgree` of the work queue | nothing |
| `CompletionServes` | `CpNoSleeperWhenDone` and `SleepersAgree` of a completion | somebody waits for it (`Receiver # {}`) |
| `DataQueueIsAChannel` | `DataQueueSpec => DqImplementsChannel` | nothing |
| `DataQueueServes` | `DqNoLostWakeup` and `SleepersAgree` of a data queue | nothing |
| `PipeServes` | `PipeReadersServed`, `PipeNotStuck`, `PollersServed` and `SleepersAgree` of pipe and poll | `OneReader`: one thread reads the pipe |
| `LibraryWaitersAlwaysServed` | `LibraryWaitersServed` of `driver_library` | `Receiver # {}`, `OneReader` |

All rest on the assumptions of the modules: priorities are `0 .. MAX-1`, the idle
thread has the lowest, lists other than the ready lists are not priorities, there
are finitely many threads, items of a queue and blocks of a pool, `Nil` is neither a
message nor an item, the size of a data queue divides the range of its indices (those of the
build, 8 and 4, do; with another one the slot of an index jumps at the wrap), and a mutex is taken fewer times at once than its 8-bit
count can hold (`MaxTakes`). Each hypothesis is there because the code fails without
it, as a run or a sentence above shows: `rt_sem_detach` resumes the waiters and
never calls `rt_schedule` (`Owner = {}`), the 16-bit value wraps (`ValueBound`), a
FIFO list is in no order (`Flag`), a second mutex breaks restoration (`~Nested`; the
run `mutex_nested`), a longer forced put may flip the wrong mirror bit (`ForceLength`;
the run `ring_force`), and the close of a pipe wakes one of its readers (`OneReader`).

**Threads.** `ListsAgree` is not inductive, because a call that is between two
sections holds a thread that the lists do not show; the next section relies on the
state its predecessor left. `CallsAgree` says, for every place, what that state is
(a thread to be inserted is suspended, without a timer and not current; a thread
being deleted is on no list and closed by nobody else; ...), and that only one
call is about a thread at a time, which follows from ownership. The inductive
invariant is the conjunction of types, lists, calls and the two scheduling
properties. `HighestPriorityRuns` excepts `late`: that a switch takes the best thread makes
everybody a thread that is not outranked, and only `rt_thread_resume` and a change of priority add an
exception without a switch. The action properties need it too: that a step leaves a closed thread
closed holds because no list, timer or call can reach it, and that an equal takes
over only after a slice because `rt_schedule` puts the running thread back at the
head of its list unless the flag is set.

**Semaphore.** The invariant `IInv` of `SemaphoreProofs` adds to `WaitersAgree`: the
kernel state agrees (`KernelInv`); what each place in a call means for the thread
that is at it (`CallAgrees`: a waiter is in the list with error `EOK`, or has been
told, or has the token); a timer that runs is a waiter's; the list is in order of
priority if it should be (`Base`); a thread that is suspended executes only until
the `rt_schedule` of its own call (`Executes`); with waiters there are no tokens, and
in a detachment none is left (`ObjectAgrees`); and the best thread runs, unless a
call owes its `rt_schedule` or the scheduler is locked. Lost wakeups are excluded by
`ObjectAgrees`, but a time-out keeps it only because of `Base`: that a timer is a
waiter's and that the waiter leaves the list with an error. `rt_ipc_list_resume_all`
enables interrupts between its turns (`DetachOne`, one step each); as one section, in
the reset, it is a recursive function over the turns, whose invariant is proved turn
by turn. The refinement maps each place of a call to the view that
`AbstractSemaphore` has of it; a lemma per action shows that it is a step of the
abstract semaphore or a stutter: taking leaves the value one lower, a release with
waiters grants, without adds, a time-out tells one waiter, a detachment all.

**Mutex.** Owner and count of a mutex are compared with what the program goes by,
the takes that have returned. They differ between a hand-over and the moment the
new owner executes again, so the inductive form counts `Grants`: takes that have
returned, and one more for a waiter that has left the list without an error. A
time-out keeps it because the thread leaves the list *with* an error. `NoInversion`
is not inductive by itself: that raising an owner's priority leaves other
lists in order needs to know that an owner waits for nothing (`OwnerDoesNotWait`, from
`OneEach`), that the owner is restored to the right priority needs what
`original_priority` is (`PrioritiesAgree`), and that a new owner is at least as good
as the waiters it leaves behind needs the order of the list.

**Mailbox, queue, pool and event.** What is said of one object has the shape of all
(`BlockingProofs`). `Waits` says of each place where a call sleeps in which list its
sleepers are linked, and that whoever is linked sleeps, with error `EOK`, so that a
time-out and a resumption exclude each other. `Flow` says that if somebody sleeps at a
place, at least as many threads have been resumed there without an error, and have not
yet looked again, as there are things to have: words for a receiver, room for a sender,
blocks. That "nobody waits for what there is" is not inductive without the count: a
message that arrives while a resumed receiver is on its way finds its list of waiters
shorter by one, and a receiver that overtakes takes the thing and leaves one thread too
many on its way, never one too few. So each step is one of few kinds (one thing came and one
waiter was resumed; one thing went with a thread that was on its way, or with none
waiting; nothing is left; somebody timed out), and there is a lemma per kind (`FlowServed`
and those after it). To `Flow` each object adds its own part: the ring of a mailbox
(`MbRing`); the items of a queue, free, linked, or in the hands of *one* thread
(the room a sender waits for is the free items, not the complement of `entry`); a block,
free or held by one; and for the event that no sleeper's condition holds. The walk of `rt_event_send` and
`rt_ipc_list_resume_all` are functions of the number of turns made, with an invariant
turn by turn: after each turn the bits that earlier waiters cleared are gone from the set,
those still to be looked at are untouched, and those passed over wait for something
that fewer bits cannot bring. `EvGrantsExclusive` is read off the same turns. `ObjInv`
puts the four together for `MCSpec`. The refinements map the ring, from `out_offset` on,
and the linked items to the sequence of the channel; an urgent message goes to its front.

**Timers.** The count wraps and deadlines are compared by their difference modulo its
range, which orders two of them rightly only while both are near. So the inductive
invariant speaks of the ticks that are left, which are plain integers: the deadline
of each listed timer is `(tick + left) % TickRange`, `left` is at least `-MaxLate`
(one less while the interrupt checks) and below half of the range by `MaxLate`, and
the list is in order of `left`. From lemmas about the remainder it follows that the
comparison of `rt_timer_start` finds the place that keeps this order, and that of
`rt_timer_check` holds exactly when `left <= 0`. What makes it inductive is the
second half: `rt_timer_start` has released the lock between its sections, and the
timer in its hands is in no list and in no other thread's hands, with a deadline
that is still within reach when it is linked.

**Memory heap.** `HeapAgrees` says of the headers that `next` and `prev` are inverse, and
its inductive form `HeapGood` says it in both directions, with sizes and flags of
headers. All operations are made of three moves of the list of headers, a block taking in
the one behind it (`TakesIn`), a block cut off another (`CutsOff`) and a flag
(`MarksOnly`), each of which keeps the chain. `available_size` is compared with the
units inside free blocks, as a set: a block more has as many units more as lie behind its
header, since no header lies inside a block (`UnitsMore`). From it each move has its
price: a merge of two free blocks gains a header, a cut of a free one costs a
header, a change of the flag the size of the block; the amounts that the code adds and
subtracts are the sums of these. Between the moves a release has two free neighbours,
and the free list lacks a block or has one too many; `ApartBut` and `FreeListHas` say
which. A block that a reallocation has copied stays used until it is released.

**Ring of blocks.** `rt_rbb_blk_alloc` looks at the first and at the last block of the
list, and nothing says where those between them are, least of all after frees out of
order. What makes its look enough is that the blocks lie in the buffer in the *cyclic*
order of the list: of any three, in the order of the list, the offsets follow each
other round the buffer (`GoesRound`). It is a property of threes, so any part of the
list inherits it, whichever blocks leave (`PartOf`); and it decides where the others
are: between the first and the last if these do not go round the end, outside them
if they do. In each of the three cases of the code the new block is then clear of all
the others and the last of the cycle (`RoomBehind`, `RoomBefore`, `RoomBetween`).

**Descriptors.** `DescriptorsAgree` compares `ref_count` with the number of references in
use. A sum over the threads would need an induction over them, so a reference is counted
as a slot, a pair of a thread and 1 or 2 (a call that opens or closes holds two), and
the number is the cardinality of the set of slots: a step of one thread splits the set into
that thread's slots and the others', which stay (`SlotsSplit`, `CallingMoves`). The
inductive form `FdGood` adds what a call relies on between its sections: that the entry
behind its descriptor is taken and is the struct it has (`CallOk`), that a struct is in one
entry, and that a descriptor is a program's or that of *one* call that opens or closes it
(`OwnersOk`), without which closing a file would close it under another owner. When
`fd_put` takes the count from 1 to 0, the equation says that nobody else has a slot, so
the freed entry is behind no call. It also shows that the second test of `fd_alloc`,
for an entry whose struct has no references, is never the one that finds the entry
(`FirstFdIsEmpty`).

**Ring buffer and reception.** Both theorems compare a buffer and two indices with a
sequence, byte by byte. The ring buffer needs to know that the writer is not behind the
reader in the same mirror and not beyond it in the other (`RbInOrder`); the length that the
code computes is then the distance of the indices. Two lemmas about `Rings` carry both
proofs: after a store, the last `c` of the old and the new bytes are those found `c` places
before the new end, if `c` is not above the size (`RingAfterStore`), and what is read from an
index on is what a call takes and then the rest (`RingSplit`). A put stores what there is
room for, so nothing old is lost; a forced put of one byte overtakes the reader only in a
full ring, whose mirrors differ and whose indices are equal, so that the two indices move
and flip together. A reception by interrupt leaves one place free, and with it the two
indices are never equal in a FIFO with bytes, whatever `is_full` says; by DMA `is_full` is set
only when they are. What the interrupt has to find out is whether a transfer has overtaken the
reader, from the indices before and after it: `OvertakesIs` shows that its comparisons hold exactly
when the bytes that were there and the new ones fill the FIFO (`RingDifference` is the
arithmetic of remainders behind it). The controller writes before the interrupt, so the invariant
also knows that what it has written and no interrupt has told of (`fifo.dma`) lies behind the write
index; each byte of it falls where nothing is or, once it has come round, on the oldest byte that
it has left (`RxInPlace`). That is not a queue's step, and the theorem admits it: a read before the
interrupt returns such bytes in the place of the oldest (`RxReadsOldest` does not hold).

**Transmission.** With the types `DmaNotIdle` is inductive: the push leaves its writer
between its two sections, the second one sets `activated`, and the interrupt leaves
it set exactly when the pop leaves a buffer.

**Work queue.** A call on a work item is up to six sections long, and the flags of an item are set
in different ones, while other threads, the worker and the timers go on. `WqInv` says what
remains true of all of it: the types of the queue and of what the calls hold (`CallsType`); who sleeps,
and where (`WqAsleep`: the worker for work, a client in the list of the queue's semaphore); where an
item is by its flags, with more to say where fewer calls are made (`FlagsOk`); that an item which is
to be submitted and has no timer has a call that is about to start it (`WqStarting`); and that the
worker has no current item while it looks for one, whereas whoever sleeps in
`rt_workqueue_cancel_work_sync` sleeps for that which it has, or which it is about to acknowledge
(`WqCurrent`). No work function waits for its own end: that call would never return.
"No work is lost" is not among it, because the code loses work (`NoWorkIsLost` does not hold). What can be said,
and is proved, is who does it: of all steps only the suspension of the worker itself leads to a state
where it sleeps on work that nobody is about to tell it of (`WorkerForgetsItself`). For a submission
this needs `WqCurrent`: that it resumes the worker depends on `work_current`, which is null
when the worker sleeps. The lemmas are per section: what it does to the queue as an assignment, and
that `FlagsOk` and the calls of the other threads survive it.

**Completion.** `rt_completion_done` reads the flag with interrupts enabled. `CpGood` says that
one thread at most sleeps, in the list, and none when the flag is set; a completer that
has read the flag and lost the race to another one then finds an empty list. One thread
waits (`Waiter`, "only one thread can suspend on complete"), so the theorem wants that there
be one.

**Data queue.** The shape is that of the mailbox: `Flow` for the two places of waiting, with
the items for those who pop, and for those who push the distance to the low-water mark
(`dq_lwm + 1 - len`), because a pop resumes a pusher only when it reaches the mark. The
number may be negative, and then `Flow` asks for nobody. The ring is the part of the object
(`DqRing`). Its indices wrap, so the fill is their difference modulo the range (`DqCount`), and as the
size divides the range, slots less than a size apart are different (`DqSlotsDiffer`) across the
wrap as well. All this holds until a push finds the queue full and does not see it, which the wrap of
`put_index` brings about: `overwritten` is set by that push, and from then on nothing is
promised. `DqOverwritesThen` shows that only such a push sets it: with `put_index` not below
`get_index` the int difference is the fill, and the test for a full queue is right. The refinement maps the items from `get_index` on to the channel; the reset
empties the waiting lists and not the ring, so it is a stutter.

**Pipe and poll.** Nobody who sleeps on a pipe is in a list of the kernel; the wait queues have
nodes, and `PpReaders` and `PpWriters` say whose they are: a sleeping reader's, with no
key, or that of a poll that got memory for it, from its insertion until it is triggered. What happens
between a look at the pipe and the suspension must leave a trace, and `PpServed` says which:
the flag of the queue for a read (`rt_wqueue_wait` looks at it again), the triggered table for a
poll, or a writer or a close that has changed the pipe and has its wakeup still to do
(`WakeIsDue`). `PpGoing` is the same for the other side, and what excludes that all sleep:
a reader that has found nothing has woken the writers, which leaves a resumed writer or the
flag. A close wakes the writers' queue only when no reader is left, so that a poll, which is a
reader, has no node there then, and no wakeup goes to a node that is not for it.
It is all stated for one reader. With two, `rt_wqueue_wakeup` of the last close
resumes one, and the other one sleeps on although nobody can write (`PipeEndOfFile`).

**The library side by side.** `LibInv` is the invariant of the object in use and the initial state
of the others; `WhereAsleep` says at which places the users of each object sleep, so that nobody
waits for an object that is not in use.

Only model-checked, and why: the liveness properties (`EveryReadyThreadRuns`,
`SleepersWake`, `DeadAreFreed`, `TimedTakesEnd`, `NoneStarves`, `UrgentIsServed`), because
fairness and `ENABLED` are outside what the prover does, and that the code fails what the second table of
runs shows. Every invariant and every other action
property of the passing runs is a theorem, under the hypotheses of the table.
No module declares a RECURSIVE operator: code that loops is a recursive function of
its turns, where something is proved about it, or a fold of the community modules, about
which an induction would be needed that no installed prover can be given.

## Not modelled

- rendering of names and the shell, hooks, stack checks, log output;
- `rt_thread_delay_until` (arithmetic on the tick before a sleep), `rt_tick_set`;
- `rt_mutex_detach` and `rt_mutex_delete`, which leave the owner with what it
  inherited; detachment and deletion of mailbox, queue, event, pool and heap, which
  end in `rt_ipc_list_resume_all` as that of the semaphore does;
- `rt_workqueue_destroy`, several work queues, and what follows once a null pointer or a list
  head has been taken for a work item or a thread;
- timed waits in a wait queue, which nothing in the build calls; `poll` of several
  descriptors, of a writing end, or without a wait; the callback of a data queue; the device
  operations of pipes; polling and interrupt transmission of `serial.c`;
- paths, directories and the mount table of DFS;
- the object registry, the device registry, netdev and SAL tables: each
  operation is a look-up or an update under one lock, without a protocol of its own;
- `rt_system_timer_thread`, SMP, signals and modules, which the build does not have;
- board drivers: register accesses over the HAL; their interrupts are the
  interrupts of the models;
- assembly of the context switch: a switch is one assignment;
- vendored code: lwIP, file systems, HAL, CMSIS, libc, CubeMX. It is most of the
  repository's lines, and none of it is this program's own logic.

## Plan

What is left, in order of worth:

1. Detachment of the remaining objects, and `rt_thread_delay_until` over `Timers`.
2. Two mutexes under a discipline that is safe (released in reverse order, no
   inheritance between the takes).
3. The sockets of SAL under their mutex.
