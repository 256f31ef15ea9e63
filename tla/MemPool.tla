------------------------------- MODULE MemPool -------------------------------
(***************************************************************************)
(* mempool.c: a pool of equal blocks that threads allocate, and wait for,  *)
(* and that threads and interrupts give back.                              *)
(***************************************************************************)
EXTENDS Blocking

CONSTANT Block   \* the blocks of the pool

ASSUME MemPoolAssumption == IsFiniteSet(Block)

\* pool.free    the list that starts at mp->block_list
\* pool.count   mp->block_free_count
\* pool.held    the blocks in use, by whom ("isr" for the interrupts)
VARIABLE pool
poolVars == <<threadVars, pool>>

MpInit ==
    pool = [free |-> SetToSeq(Block), count |-> Cardinality(Block),
            held |-> [h \in Thread \cup {"isr"} |-> {}]]

MpTaken(holder) ==
    [pool EXCEPT !.count = @ - 1, !.free = Tail(@),
                 !.held[holder] = @ \cup {Head(pool.free)}]

MpAlloc(t) == \E time \in Time : Begin(t, "mp_alloc", time, Nil) /\ UNCHANGED pool

MpTake(t) ==
    /\ AtTest(t, "mp_alloc", "mp_alloc_wait") /\ pool.count > 0
    /\ pool' = MpTaken(t) /\ Return(t) /\ UNCHANGED s

\* RT_NULL
MpAllocNone(t) ==
    /\ AtTest(t, "mp_alloc", "mp_alloc_wait") /\ pool.count = 0
    /\ "no" \in TimeLeft(t, "mp_alloc")
    /\ Return(t) /\ UNCHANGED <<s, pool>>

\* rt_list_insert_after: the last to wait is the first in the list
MpAllocWait(t) ==
    /\ AtTest(t, "mp_alloc", "mp_alloc_wait") /\ pool.count = 0
    /\ \E time \in TimeLeft(t, "mp_alloc") \ {"no"} :
          /\ s' = [s EXCEPT !.error[t] = "EOK", !.asleep = @ \cup {t},
                            !.list[suspend_thread] = <<t>> \o @,
                            !.timer = IF time = "ticks" THEN @ \cup {t} ELSE @ \ {t}]
          /\ Goto(t, "mp_alloc_wait") /\ loc' = [loc EXCEPT ![t].time = time]
    /\ UNCHANGED pool

MpAllocFails(t) == WaitFails(t, "mp_alloc_wait") /\ UNCHANGED pool

MpReturned(holder, b) ==
    [pool EXCEPT !.count = @ + 1, !.free = <<b>> \o @, !.held[holder] = @ \ {b}]

\* the resumed thread has its error cleared
AfterMpFree(ss) ==
    IF ss.list[suspend_thread] = << >> THEN ss
    ELSE [rt_ipc_list_resume(ss, suspend_thread)
              EXCEPT !.error[Head(ss.list[suspend_thread])] = "EOK"]

MpFree(t, b) ==
    /\ Runs(t, "user") /\ b \in pool.held[t]
    /\ pool' = MpReturned(t, b) /\ s' = AfterMpFree(s)
    /\ UNCHANGED <<pc, loc>>

\* an interrupt allocates without waiting, and frees
IsrMpAlloc ==
    /\ pool.count > 0 /\ pool' = MpTaken("isr") /\ UNCHANGED threadVars

IsrMpFree(b) ==
    /\ b \in pool.held["isr"]
    /\ pool' = MpReturned("isr", b) /\ s' = AfterMpFree(s)
    /\ UNCHANGED <<pc, loc>>

\* a block is passed on, by a mailbox or a queue, and freed by who received it
MpHandOver(h, g, b) ==
    /\ b \in pool.held[h] /\ h # g
    /\ pool' = [pool EXCEPT !.held[h] = @ \ {b}, !.held[g] = @ \cup {b}]
    /\ UNCHANGED threadVars

MemPoolNext ==
    \/ \E t \in Thread :
          \/ MpAlloc(t) \/ MpTake(t) \/ MpAllocNone(t) \/ MpAllocWait(t) \/ MpAllocFails(t)
          \/ \E b \in Block : MpFree(t, b) \/ MpHandOver(t, "isr", b)
    \/ IsrMpAlloc \/ \E b \in Block : IsrMpFree(b)
    \/ \E t \in Thread : TimerExpires(t) /\ UNCHANGED pool

-----------------------------------------------------------------------------

\* Every block is free or in one pair of hands, and the count is the length
\* of the free list, whoever overtakes whom between a free and the waiter it
\* resumed.
MpBlocksConserved ==
    /\ pool.count = Len(pool.free) /\ IsInjective(pool.free)
    /\ ToSet(pool.free) = Block \ UNION {pool.held[h] : h \in DOMAIN pool.held}
    /\ \A h, g \in DOMAIN pool.held : h # g => pool.held[h] \cap pool.held[g] = {}

\* Nobody waits for a block beside a free one that no resumed thread is on
\* its way to.
MpNoLostWakeup ==
    WaitingAt("mp_alloc_wait") # {} => pool.count <= Cardinality(WokenAt("mp_alloc_wait"))
=============================================================================
