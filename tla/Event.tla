-------------------------------- MODULE Event --------------------------------
(***************************************************************************)
(* rt_event of ipc.c: a set of bits.  A send walks the list of those who   *)
(* wait, resumes everyone whose condition holds, and clears the bits of    *)
(* those who asked for it on the way.                                      *)
(***************************************************************************)
EXTENDS Blocking

CONSTANT Bit   \* the bits of rt_uint32_t that are used

\* the RT_EVENT_FLAG_ options of rt_event_recv
Option == [all : BOOLEAN,    \* RT_EVENT_FLAG_AND, else RT_EVENT_FLAG_OR
           clear : BOOLEAN]  \* RT_EVENT_FLAG_CLEAR

NoOption == [all |-> FALSE, clear |-> FALSE]

\* event.set       event->set
\* event.want[t]   thread->event_set, {} when the thread is in no call
\* event.info[t]   thread->event_info
VARIABLE event
eventVars == <<threadVars, event>>

EvInit ==
    event = [set |-> {}, want |-> [t \in Thread |-> {}],
             info |-> [t \in Thread |-> NoOption]]

Satisfied(set, want, option) ==
    IF option.all THEN want \subseteq set ELSE want \cap set # {}

-----------------------------------------------------------------------------
(* rt_event_send                                                           *)

\* mutant: the bits are cleared once the walk is over
ServeWaiter_ClearsLater(r, t) ==
    LET got == IF r.ev.info[t].all THEN r.ev.want[t] ELSE r.ev.want[t] \cap r.ev.set IN
    IF ~Satisfied(r.ev.set, r.ev.want[t], r.ev.info[t]) THEN r
    ELSE [ss |-> rt_thread_resume(r.ss, t), ev |-> [r.ev EXCEPT !.want[t] = got]]

\* one turn of the loop, for the waiter t
ServeWaiter(r, t) ==
    LET got == IF r.ev.info[t].all THEN r.ev.want[t] ELSE r.ev.want[t] \cap r.ev.set IN
    IF ~Satisfied(r.ev.set, r.ev.want[t], r.ev.info[t]) THEN r
    ELSE [ss |-> rt_thread_resume(r.ss, t),
          ev |-> [r.ev EXCEPT !.want[t] = got,
                              !.set = IF r.ev.info[t].clear THEN @ \ got ELSE @]]

rt_event_send(set) ==
    LET waiters == s.list[suspend_thread]
        after[i \in 0 .. Len(waiters)] ==
            IF i = 0 THEN [ss |-> s, ev |-> [event EXCEPT !.set = @ \cup set]]
            ELSE ServeWaiter(after[i - 1], waiters[i])
    IN  after[Len(waiters)]

EvSend(set) ==
    /\ s' = rt_event_send(set).ss /\ event' = rt_event_send(set).ev
    /\ UNCHANGED <<pc, loc>>

-----------------------------------------------------------------------------
(* rt_event_recv                                                           *)

EvRecvNow(t, want, option) ==
    /\ Runs(t, "user") /\ Satisfied(event.set, want, option)
    /\ event' = [event EXCEPT !.set = IF option.clear THEN @ \ want ELSE @]
    /\ UNCHANGED threadVars

EvRecvNoWait(t, want, option) ==
    /\ Runs(t, "user") /\ ~Satisfied(event.set, want, option)
    /\ UNCHANGED eventVars

EvRecvWait(t, want, option) ==
    /\ Runs(t, "user") /\ ~Satisfied(event.set, want, option)
    /\ event' = [event EXCEPT !.want[t] = want, !.info[t] = option]
    /\ \E time \in Time \ {"no"} : SuspendSelf(t, suspend_thread, time, "ev_recv_wait")

EvRecvReturn(t) ==
    /\ Runs(t, "ev_recv_wait") /\ Return(t) /\ s' = [s EXCEPT !.error[t] = "EOK"]
    /\ event' = [event EXCEPT !.want[t] = {}, !.info[t] = NoOption]

\* rt_event_control with RT_IPC_CMD_RESET
EvReset(t) ==
    /\ Runs(t, "user")
    /\ s' = rt_ipc_list_resume_all(s, suspend_thread)
    /\ event' = [event EXCEPT !.set = {}]
    /\ UNCHANGED <<pc, loc>>

EventNext ==
    \/ \E set \in SUBSET Bit \ {{}} : EvSend(set)
    \/ \E t \in Receiver, want \in SUBSET Bit \ {{}}, option \in Option :
          EvRecvNow(t, want, option) \/ EvRecvNoWait(t, want, option)
          \/ EvRecvWait(t, want, option)
    \/ \E t \in Receiver : EvRecvReturn(t)
    \/ \E t \in Resetter : EvReset(t)
    \/ \E t \in Thread : TimerExpires(t) /\ UNCHANGED event

-----------------------------------------------------------------------------

\* Nobody waits for a condition that holds, in whatever order the bits came
\* and other receivers cleared them: the walk of rt_event_send looks at every
\* waiter with the bits that are left when it gets there.
NoneWaitsSatisfied ==
    \A t \in WaitingAt("ev_recv_wait") :
        ~Satisfied(event.set, event.want[t], event.info[t])

ServedClearing ==
    {t \in s.asleep : t \notin s'.asleep /\ s'.error[t] = "EOK" /\ event.info[t].clear}

\* Bits that a waiter clears are given to one waiter: no two clearing
\* receivers that one send resumes report a bit in common, and what they
\* report is gone from the set.
EvGrantsExclusive == [][
    \A t \in ServedClearing :
        /\ event'.want[t] \cap event'.set = {}
        /\ \A u \in ServedClearing \ {t} : event'.want[t] \cap event'.want[u] = {}
  ]_eventVars
=============================================================================
