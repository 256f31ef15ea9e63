------------------------------- MODULE Timers -------------------------------
(***************************************************************************)
(* src/timer.c: the timers of the tick interrupt.  rt_timer_start is three *)
(* steps, for it reads the tick between its two sections; rt_timer_stop is *)
(* two; rt_timer_check runs in the interrupt, a timer at a time, and no    *)
(* thread runs meanwhile.  The rows of the skip list above the last only   *)
(* shorten the search for the place of a timer, so the list is one row.    *)
(***************************************************************************)
EXTENDS Lists

CONSTANTS
    Timer,          \* the timers
    Periodic,       \* those with RT_TIMER_FLAG_PERIODIC
    TimerUser,      \* the threads that start and stop timers
    InitTick,       \* timer->init_tick may be these, RT_TIMER_CTRL_SET_TIME
    TickRange,      \* rt_tick_t counts modulo this
    MaxLate         \* bound: ticks between a look at the tick and its use

HalfRange == (TickRange - 1) \div 2   \* RT_TICK_MAX / 2

\* The assertion of rt_timer_start; and no periodic timer of 0 ticks, which
\* rt_timer_check would run for ever.
ASSUME TimersAssumption ==
    /\ Periodic \subseteq Timer /\ TickRange \in Nat \ {0} /\ MaxLate \in Nat
    /\ InitTick \subseteq 1..HalfRange - 1
    /\ \A i \in InitTick : i + MaxLate < HalfRange

\* timers.tick        rt_tick
\* timers.list        rt_timer_list[RT_TIMER_SKIP_LIST_LEVEL - 1]
\* timers.active      the timers with RT_TIMER_FLAG_ACTIVATED
\* timers.init[t]     t.init_tick
\* timers.deadline[t] t.timeout_tick
\* timers.left[t]     the ticks until then, counted and not calculated
\* timers.checking    rt_timer_check is running
\* timers.use[u]      the place user u has reached: <<step, timer>>, or << >>
VARIABLE timers

TimersInit ==
    \E init \in [Timer -> InitTick], tick \in 0..TickRange - 1 :
        timers = [tick |-> tick, list |-> << >>, active |-> {}, init |-> init,
                  deadline |-> [t \in Timer |-> 0], left |-> [t \in Timer |-> 0],
                  checking |-> FALSE, use |-> [u \in TimerUser |-> << >>]]

\* the difference of two times, as unsigned arithmetic has it
Minus(i, j) == (i - j) % TickRange

\* the deadline of a timer that is not in the list is not read
Removed(ts, t) ==
    [ts EXCEPT !.list = Without(@, t), !.deadline[t] = 0, !.left[t] = 0]

\* the deadline, and what is true of it
Computed(ts, t) ==
    [ts EXCEPT !.deadline[t] = (ts.tick + ts.init[t]) % TickRange, !.left[t] = ts.init[t]]

\* mutant: the times are compared as numbers
Precedes_Plain(ts, t, v) == ts.deadline[t] < ts.deadline[v]

\* the search for a place ends before timer v: a timer that is due at the same
\* time as one in the list goes behind it
Precedes(ts, t, v) ==
    /\ ts.deadline[v] # ts.deadline[t]
    /\ Minus(ts.deadline[v], ts.deadline[t]) < HalfRange

\* before the first timer that it precedes, or at the tail
PlaceOf(ts, t) ==
    CHOOSE i \in 1 .. Len(ts.list) + 1 :
        /\ \A j \in 1 .. i - 1 : ~Precedes(ts, t, ts.list[j])
        /\ i <= Len(ts.list) => Precedes(ts, t, ts.list[i])

Linked(ts, t) ==
    [ts EXCEPT !.list = InsertAt(@, PlaceOf(ts, t), t), !.active = @ \cup {t}]

\* rt_timer_start with interrupts disabled, as the interrupt calls it
Started(ts, t) == Linked(Computed(Removed(ts, t), t), t)

Stopped(ts, t) == IF t \in ts.active THEN [Removed(ts, t) EXCEPT !.active = @ \ {t}] ELSE ts

-----------------------------------------------------------------------------
(* The calls of threads.  A timer is in the hands of one thread, or of a    *)
(* timeout function, at a time: nothing in timer.c makes it so.            *)

InHands(t) == \E u \in TimerUser : timers.use[u] # << >> /\ timers.use[u][2] = t

UserAt(u, step) ==
    ~timers.checking /\ timers.use[u] # << >> /\ timers.use[u][1] = step

UserCalls(u, t) == ~timers.checking /\ timers.use[u] = << >> /\ ~InHands(t)

\* rt_timer_start: the timer is stopped firstly
TimerStart(u, t) ==
    /\ UserCalls(u, t)
    /\ timers' = [Removed(timers, t) EXCEPT !.active = @ \ {t}, !.use[u] = <<"compute", t>>]

TimerCompute(u) ==
    /\ UserAt(u, "compute")
    /\ timers' = [Computed(timers, timers.use[u][2]) EXCEPT
                      !.use[u] = <<"insert", timers.use[u][2]>>]

TimerInsert(u) ==
    /\ UserAt(u, "insert")
    /\ timers' = [Linked(timers, timers.use[u][2]) EXCEPT !.use[u] = << >>]

\* rt_timer_stop: the flag is tested and cleared with interrupts enabled
TimerStop(u, t) ==
    /\ UserCalls(u, t) /\ t \in timers.active
    /\ timers' = [Removed(timers, t) EXCEPT !.use[u] = <<"clear", t>>]

TimerClear(u) ==
    /\ UserAt(u, "clear")
    /\ timers' = [timers EXCEPT !.active = @ \ {timers.use[u][2]}, !.use[u] = << >>]

TimerSetTime(u, t) ==
    /\ UserCalls(u, t) /\ \E i \in InitTick : timers' = [timers EXCEPT !.init[t] = i]

-----------------------------------------------------------------------------
(* The tick interrupt.                                                     *)

\* a user is not kept from its next step for more than MaxLate ticks
MayTick ==
    \A u \in TimerUser : UserAt(u, "insert") =>
        timers.left[timers.use[u][2]] > -MaxLate

InsertDue(t) == \E u \in TimerUser : timers.use[u] = <<"insert", t>>

TimerTick ==
    /\ ~timers.checking /\ MayTick
    /\ timers' = [timers EXCEPT !.tick = (@ + 1) % TickRange, !.checking = TRUE,
                                !.left = [t \in Timer |->
                                    IF t \in ToSet(timers.list) \/ InsertDue(t) THEN @[t] - 1
                                    ELSE @[t]]]

\* mutant: the times are compared as numbers
FirstIsDue_Plain ==
    timers.list # << >> /\ timers.tick >= timers.deadline[timers.list[1]]

\* the first timer is due, by the test of rt_timer_check
FirstIsDue ==
    timers.list # << >> /\ Minus(timers.tick, timers.deadline[timers.list[1]]) < HalfRange

\* What a timeout function does with timers: nothing, or start or stop one.
\* A periodic timer starts again unless it has been stopped; the flag of any
\* other is cleared, also if its own function has started it.
TimerFires ==
    LET t == timers.list[1]
        taken == Removed(timers, t)
    IN  /\ timers.checking /\ FirstIsDue
        /\ \E after \in {taken} \cup {Started(taken, v) : v \in {w \in Timer : ~InHands(w)}}
                                \cup {Stopped(taken, v) : v \in {w \in Timer : ~InHands(w)}} :
              timers' = IF t \in Periodic /\ t \in after.active THEN Started(after, t)
                        ELSE [after EXCEPT !.active = @ \ {t}]

TimerCheckEnds ==
    /\ timers.checking /\ ~FirstIsDue
    /\ timers' = [timers EXCEPT !.checking = FALSE]

TimersNext ==
    \/ \E u \in TimerUser :
          \/ TimerCompute(u) \/ TimerInsert(u) \/ TimerClear(u)
          \/ \E t \in Timer : TimerStart(u, t) \/ TimerStop(u, t) \/ TimerSetTime(u, t)
    \/ TimerTick \/ TimerFires \/ TimerCheckEnds

TimersSpec == TimersInit /\ [][TimersNext]_timers

-----------------------------------------------------------------------------

Listed == ToSet(timers.list)

\* The list is in the order of the ticks that are left, however the tick count
\* wraps, and the deadlines tell how many those are.
TimersInOrder ==
    /\ IsInjective(timers.list)
    /\ \A i, j \in DOMAIN timers.list :
          i < j => timers.left[timers.list[i]] <= timers.left[timers.list[j]]
    /\ \A t \in Listed : Minus(timers.deadline[t], timers.tick) = timers.left[t] % TickRange

\* No timeout function is called before its time, and a check that ends leaves
\* no timer behind whose time has come.
TimersFireOnTime ==
    [][/\ timers.checking /\ timers'.checking => timers.left[timers.list[1]] <= 0
       /\ timers.checking /\ ~timers'.checking => \A t \in Listed : timers.left[t] > 0
      ]_timers

\* What the code does not keep: a timer in the list has the flag without which
\* rt_timer_stop returns an error and leaves it running.
ListedAreActive == \A t \in Listed : t \in timers.active \/ InHands(t)
=============================================================================
