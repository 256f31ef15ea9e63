--------------------------- MODULE BlockingProofs ---------------------------
(***************************************************************************)
(* Threads that wait, for any number of them and under any scheduling.     *)
(* What is true of an object has the same shape for each of them: Waits    *)
(* says who sleeps where, linked into which list, and Flow that at every   *)
(* place where threads sleep there are as many on the way as there are     *)
(* things to have.  The lemmas say what each operator of Blocking does to  *)
(* Waits and to Flow.                                                      *)
(***************************************************************************)
EXTENDS Blocking, ListsProofs, FiniteSetTheorems

-----------------------------------------------------------------------------
(* Threads that wait: what the kernel operations of Blocking do to a state *)
(* ss of the threads.                                                      *)

WaitError == {"EOK", "ERROR", "ETIMEOUT"}

SleepState ==
    [asleep : SUBSET Thread, timer : SUBSET Thread, error : [Thread -> WaitError],
     list : [WaitList -> Seq(Thread)]]

\* the threads linked into list l
On(ss, l) == ToSet(ss.list[l])

\* SleepersAgree, and that whoever sleeps is linked, without an error
Sleepers(ss) ==
    /\ ss \in SleepState
    /\ ss.timer \subseteq ss.asleep
    /\ \A l \in WaitList : IsInjective(ss.list[l]) /\ On(ss, l) \subseteq ss.asleep
    /\ \A l, m \in WaitList : l # m => On(ss, l) \cap On(ss, m) = {}
    /\ \A t \in ss.asleep : ss.error[t] = "EOK"

\* p is a function on the threads
EachThread(p) == p = [t \in Thread |-> p[t]]

\* where each sleeping place has its list, the sleepers at it are in it
AtPlaces(ss, p, where) ==
    \A t \in ss.asleep : p[t] \in DOMAIN where /\ t \in On(ss, where[p[t]])

WaitPlaces(where) ==
    /\ \A w \in DOMAIN where : where[w] \in WaitList
    /\ \A w, v \in DOMAIN where : w # v => where[w] # where[v]

Waits(ss, p, where) ==
    Sleepers(ss) /\ EachThread(p) /\ WaitPlaces(where) /\ AtPlaces(ss, p, where)

\* the threads that sleep at w, and those resumed from there without an error
Asleep(ss, p, w) == {t \in ss.asleep : p[t] = w}
Awake(ss, p, w) == {t \in Thread : p[t] = w /\ t \notin ss.asleep /\ ss.error[t] = "EOK"}

\* one sleeping place, and its list, are the same
LEMMA AsleepIsOn ==
    ASSUME NEW j, NEW p, NEW where, Waits(j, p, where), NEW w \in DOMAIN where
    PROVE  Asleep(j, p, w) = On(j, where[w])
<1>1. Asleep(j, p, w) \subseteq On(j, where[w])
  BY DEF Asleep, Waits, AtPlaces
<1>2. ASSUME NEW t \in On(j, where[w]) PROVE t \in Asleep(j, p, w)
  <2>1. t \in j.asleep /\ where[w] \in WaitList
    BY <1>2 DEF Waits, Sleepers, WaitPlaces
  <2>2. p[t] \in DOMAIN where /\ t \in On(j, where[p[t]]) /\ where[p[t]] \in WaitList
    BY <2>1 DEF Waits, AtPlaces, WaitPlaces
  <2>3. where[p[t]] = where[w]
    BY <1>2, <2>1, <2>2 DEF Waits, Sleepers
  <2>4. p[t] = w
    BY <2>2, <2>3 DEF Waits, WaitPlaces
  <2> QED BY <2>1, <2>4 DEF Asleep
<1> QED BY <1>1, <1>2

LEMMA UnlinkedIs ==
    ASSUME NEW j, Sleepers(j), NEW t \in Thread
    PROVE  LET u == Unlinked(j.list, t) IN
           /\ u \in [WaitList -> Seq(Thread)]
           /\ \A l \in WaitList : IsInjective(u[l]) /\ ToSet(u[l]) = On(j, l) \ {t}
<1> DEFINE u == Unlinked(j.list, t)
<1>1. ASSUME NEW l \in WaitList
      PROVE  u[l] \in Seq(Thread) /\ IsInjective(u[l]) /\ ToSet(u[l]) = On(j, l) \ {t}
  <2>1. j.list[l] \in Seq(Thread) /\ IsInjective(j.list[l])
    BY DEF Sleepers, SleepState
  <2>2. u[l] = Without(j.list[l], t)
    BY DEF Unlinked
  <2> HIDE DEF u
  <2> QED BY <2>1, <2>2, WithoutElements DEF On
<1>2. u = [l \in WaitList |-> u[l]]
  BY DEF Unlinked
<1> HIDE DEF u
<1>3. u \in [WaitList -> Seq(Thread)]
  BY <1>1, <1>2
<1> QED BY <1>1, <1>3 DEF u

LEMMA ResumeIs ==
    ASSUME NEW j, Sleepers(j), NEW t \in j.asleep
    PROVE  LET r == rt_thread_resume(j, t) IN
           /\ Sleepers(r)
           /\ r.asleep = j.asleep \ {t} /\ r.error = j.error /\ t \notin r.timer
           /\ r.timer = j.timer \ {t}
           /\ \A l \in WaitList : On(r, l) = On(j, l) \ {t}
<1> DEFINE r == rt_thread_resume(j, t)
           u == Unlinked(j.list, t)
<1>0. t \in Thread
  BY DEF Sleepers, SleepState
<1>1. /\ u \in [WaitList -> Seq(Thread)]
      /\ \A l \in WaitList : IsInjective(u[l]) /\ ToSet(u[l]) = On(j, l) \ {t}
  BY <1>0, UnlinkedIs
<1>2. /\ r = [asleep |-> j.asleep \ {t}, timer |-> j.timer \ {t}, error |-> j.error, list |-> u]
  BY DEF rt_thread_resume, Sleepers, SleepState
<1> HIDE DEF r, u
<1>3. r \in SleepState
  BY <1>1, <1>2 DEF Sleepers, SleepState
<1>4. \A l \in WaitList : On(r, l) = On(j, l) \ {t} /\ IsInjective(r.list[l])
  BY <1>1, <1>2 DEF On
<1>5. \A l \in WaitList : On(r, l) \subseteq r.asleep
  BY <1>2, <1>4 DEF Sleepers
<1>6. Sleepers(r)
  BY <1>2, <1>3, <1>4, <1>5 DEF Sleepers
<1> QED BY <1>2, <1>4, <1>6 DEF r

\* a turn of rt_ipc_list_resume, on a list with waiters
LEMMA HeadIs ==
    ASSUME NEW j, Sleepers(j), NEW l \in WaitList, j.list[l] # << >>
    PROVE  Head(j.list[l]) \in On(j, l) /\ Head(j.list[l]) \in j.asleep
<1>1. j.list[l] \in Seq(Thread)
  BY DEF Sleepers, SleepState
<1>2. Head(j.list[l]) \in On(j, l)
  BY <1>1, EmptyList DEF On
<1> QED BY <1>2 DEF Sleepers

\* Somebody leaves list l, resumed.
LEMMA WakesOne ==
    ASSUME NEW j, NEW p, NEW where, Waits(j, p, where), NEW w \in DOMAIN where,
           NEW h \in On(j, where[w]), NEW r, r = rt_thread_resume(j, h)
    PROVE  /\ Waits(r, p, where) /\ r.error = j.error /\ r.asleep = j.asleep \ {h}
           /\ h \in Asleep(j, p, w) /\ h \in Thread
           /\ Asleep(r, p, w) = Asleep(j, p, w) \ {h}
           /\ Awake(r, p, w) = Awake(j, p, w) \cup {h} /\ h \notin Awake(j, p, w)
           /\ \A v \in DOMAIN where \ {w} :
                  Asleep(r, p, v) = Asleep(j, p, v) /\ Awake(r, p, v) = Awake(j, p, v)
<1>1. h \in Asleep(j, p, w) /\ h \in j.asleep
  BY AsleepIsOn DEF Asleep
<1>2. Sleepers(j) /\ WaitPlaces(where) /\ h \in Thread /\ j.error[h] = "EOK" /\ p[h] = w
  BY <1>1 DEF Waits, Sleepers, SleepState, Asleep
<1>3. /\ Sleepers(r) /\ r.asleep = j.asleep \ {h} /\ r.error = j.error
      /\ \A l \in WaitList : On(r, l) = On(j, l) \ {h}
  BY <1>1, <1>2, ResumeIs
<1>4. AtPlaces(r, p, where)
  BY <1>2, <1>3 DEF Waits, AtPlaces, WaitPlaces
<1>5. Waits(r, p, where)
  BY <1>3, <1>4 DEF Waits
<1>6. Asleep(r, p, w) = Asleep(j, p, w) \ {h}
  BY <1>3 DEF Asleep
<1>7. Awake(r, p, w) = Awake(j, p, w) \cup {h} /\ h \notin Awake(j, p, w)
  BY <1>1, <1>2, <1>3 DEF Awake
<1>8. ASSUME NEW v \in DOMAIN where \ {w}
      PROVE  Asleep(r, p, v) = Asleep(j, p, v) /\ Awake(r, p, v) = Awake(j, p, v)
  BY <1>2, <1>3 DEF Asleep, Awake
<1> QED BY <1>1, <1>2, <1>3, <1>5, <1>6, <1>7, <1>8

\* "if the list is not empty, resume its first thread"
LEMMA ResumeOneIs ==
    ASSUME NEW j, NEW p, NEW where, Waits(j, p, where), NEW w \in DOMAIN where,
           NEW r, r = ResumeOne(j, where[w])
    PROVE  /\ Waits(r, p, where) /\ r.error = j.error /\ r.asleep \subseteq j.asleep
           /\ \/ Asleep(r, p, w) = {} /\ Awake(r, p, w) = Awake(j, p, w)
              \/ \E h \in Thread :
                    /\ Asleep(r, p, w) = Asleep(j, p, w) \ {h} /\ h \in Asleep(j, p, w)
                    /\ Awake(r, p, w) = Awake(j, p, w) \cup {h} /\ h \notin Awake(j, p, w)
           /\ \A v \in DOMAIN where \ {w} :
                  Asleep(r, p, v) = Asleep(j, p, v) /\ Awake(r, p, v) = Awake(j, p, v)
<1>0. where[w] \in WaitList /\ Sleepers(j)
  BY DEF Waits, WaitPlaces
<1>1. CASE j.list[where[w]] = << >>
  <2>1. r = j
    BY <1>1 DEF ResumeOne
  <2>2. Asleep(j, p, w) = {}
    BY <1>1, AsleepIsOn DEF On, ToSet
  <2> QED BY <2>1, <2>2
<1>2. CASE j.list[where[w]] # << >>
  <2> DEFINE h == Head(j.list[where[w]])
  <2>1. r = rt_thread_resume(j, h)
    BY <1>2 DEF ResumeOne, rt_ipc_list_resume
  <2>2. h \in On(j, where[w])
    BY <1>0, <1>2, HeadIs
  <2> HIDE DEF h
  <2> QED BY <2>1, <2>2, WakesOne
<1> QED BY <1>1, <1>2

\* rt_thread_timeout of a sleeper
LEMMA TimeoutIs ==
    ASSUME NEW j, NEW p, NEW where, Waits(j, p, where), NEW t, t \in j.timer,
           NEW r, r = rt_thread_timeout(j, t)
    PROVE  /\ t \in Thread /\ Waits(r, p, where) /\ r.asleep = j.asleep \ {t}
           /\ \A v : Asleep(r, p, v) = Asleep(j, p, v) \ {t} /\ Awake(r, p, v) = Awake(j, p, v)
<1> DEFINE q == rt_thread_resume(j, t)
<1>1. t \in j.asleep /\ t \in Thread /\ Sleepers(j)
  BY DEF Waits, Sleepers, SleepState
<1>2. /\ Sleepers(q) /\ q.asleep = j.asleep \ {t} /\ q.error = j.error /\ t \notin q.timer
      /\ \A l \in WaitList : On(q, l) = On(j, l) \ {t}
  BY <1>1, ResumeIs
<1>3. r = [q EXCEPT !.timer = @ \ {t}, !.error[t] = "ETIMEOUT"]
  BY DEF rt_thread_timeout
<1> HIDE DEF q
<1>4. q = [asleep |-> q.asleep, timer |-> q.timer, error |-> q.error, list |-> q.list]
  BY <1>2 DEF Sleepers, SleepState
<1>5. r = [asleep |-> q.asleep, timer |-> q.timer \ {t},
           error |-> [q.error EXCEPT ![t] = "ETIMEOUT"], list |-> q.list]
  BY <1>3, <1>4
<1>6. q.error \in [Thread -> WaitError] /\ t \notin q.asleep
  BY <1>2 DEF Sleepers, SleepState
<1>7. r.error = [j.error EXCEPT ![t] = "ETIMEOUT"] /\ r.asleep = j.asleep \ {t}
      /\ \A l \in WaitList : On(r, l) = On(q, l)
  BY <1>2, <1>5 DEF On
<1>8. Sleepers(r)
  <2>1. r \in SleepState
    BY <1>1, <1>2, <1>5, <1>6 DEF Sleepers, SleepState, WaitError
  <2>2. \A u \in r.asleep : r.error[u] = "EOK"
    BY <1>1, <1>2, <1>5, <1>6 DEF Sleepers, SleepState
  <2>3. r.timer \subseteq r.asleep /\ \A l \in WaitList : IsInjective(r.list[l])
    BY <1>2, <1>5 DEF Sleepers
  <2> QED BY <1>2, <1>5, <1>7, <2>1, <2>2, <2>3 DEF Sleepers
<1>9. AtPlaces(r, p, where)
  BY <1>2, <1>7 DEF Waits, AtPlaces, WaitPlaces
<1>10. Waits(r, p, where)
  BY <1>8, <1>9 DEF Waits
<1>11. ASSUME NEW v
       PROVE  Asleep(r, p, v) = Asleep(j, p, v) \ {t} /\ Awake(r, p, v) = Awake(j, p, v)
  <2>1. Asleep(r, p, v) = Asleep(j, p, v) \ {t}
    BY <1>7 DEF Asleep
  <2>2. \A u \in Thread : r.error[u] = IF u = t THEN "ETIMEOUT" ELSE j.error[u]
    BY <1>1, <1>7 DEF Sleepers, SleepState
  <2>3. Awake(r, p, v) = Awake(j, p, v)
    BY <1>1, <1>7, <2>2 DEF Awake
  <2> QED BY <2>1, <2>3
<1> QED BY <1>1, <1>7, <1>10, <1>11

\* t at the place x
Placed(p, t, x) == [p EXCEPT ![t] = x]

\* A thread that does not sleep goes on to another place.
LEMMA Moves ==
    ASSUME NEW j, NEW p, NEW where, Waits(j, p, where), NEW t \in Thread, t \notin j.asleep,
           NEW x, NEW q, q = Placed(p, t, x)
    PROVE  /\ Waits(j, q, where)
           /\ \A v : /\ Asleep(j, q, v) = Asleep(j, p, v)
                     /\ v # x => Awake(j, q, v) = Awake(j, p, v) \ {t}
                     /\ p[t] # v /\ x # v => Awake(j, q, v) = Awake(j, p, v)
<1>1. EachThread(p) /\ j.asleep \subseteq Thread
  BY DEF Waits, Sleepers, SleepState
<1>2. EachThread(q) /\ q[t] = x /\ \A u \in Thread \ {t} : q[u] = p[u]
  BY <1>1 DEF Placed, EachThread
<1>3. Waits(j, q, where)
  BY <1>1, <1>2 DEF Waits, AtPlaces
<1> QED BY <1>1, <1>2, <1>3 DEF Asleep, Awake

\* It forgets the error with which it was resumed.
LEMMA Forgets ==
    ASSUME NEW j, NEW p, NEW where, Waits(j, p, where), NEW t \in Thread, t \notin j.asleep,
           NEW r, r = [j EXCEPT !.error[t] = "EOK"]
    PROVE  /\ Waits(r, p, where) /\ r.asleep = j.asleep
           /\ \A v : /\ Asleep(r, p, v) = Asleep(j, p, v)
                     /\ p[t] # v => Awake(r, p, v) = Awake(j, p, v)
<1>1. /\ j.error \in [Thread -> WaitError] /\ Sleepers(j)
      /\ j = [asleep |-> j.asleep, timer |-> j.timer, error |-> j.error, list |-> j.list]
  BY DEF Waits, Sleepers, SleepState
<1>2. r = [asleep |-> j.asleep, timer |-> j.timer, error |-> [j.error EXCEPT ![t] = "EOK"],
           list |-> j.list]
  BY <1>1
<1>3. r.error \in [Thread -> WaitError] /\ r.error[t] = "EOK"
      /\ \A u \in Thread \ {t} : r.error[u] = j.error[u]
  BY <1>1, <1>2 DEF WaitError
<1>4. Sleepers(r)
  <2>1. r \in SleepState
    BY <1>1, <1>2, <1>3 DEF Sleepers, SleepState
  <2>2. \A u \in r.asleep : r.error[u] = "EOK"
    BY <1>1, <1>2, <1>3 DEF Sleepers, SleepState
  <2> QED BY <1>1, <1>2, <2>1, <2>2 DEF Sleepers, On
<1>5. Waits(r, p, where)
  BY <1>2, <1>4 DEF Waits, AtPlaces, On
<1> QED BY <1>2, <1>3, <1>5 DEF Asleep, Awake

\* t puts itself into list l of j, which is r then
JoinsAt(j, r, l, t) ==
    /\ r \in SleepState /\ r.asleep = j.asleep \cup {t}
    /\ r.timer \subseteq j.timer \cup {t}
    /\ r.error = [j.error EXCEPT ![t] = "EOK"]
    /\ \A m \in WaitList \ {l} : r.list[m] = j.list[m]
    /\ IsInjective(r.list[l]) /\ On(r, l) = On(j, l) \cup {t}

\* It waits at the place w, whose list it has joined.
LEMMA JoinsList ==
    ASSUME NEW j, NEW p, NEW where, Waits(j, p, where), NEW t \in Thread, t \notin j.asleep,
           NEW w \in DOMAIN where, NEW q, q = Placed(p, t, w),
           NEW r, JoinsAt(j, r, where[w], t)
    PROVE  /\ Waits(r, q, where)
           /\ \A v : v # w => /\ Asleep(r, q, v) = Asleep(j, p, v)
                              /\ Awake(r, q, v) = Awake(j, p, v) \ {t}
                              /\ p[t] # v => Awake(r, q, v) = Awake(j, p, v)
<1>1. /\ EachThread(p) /\ Sleepers(j) /\ WaitPlaces(where)
      /\ j.asleep \subseteq Thread /\ j.error \in [Thread -> WaitError]
      /\ where[w] \in WaitList
  BY DEF Waits, Sleepers, SleepState, WaitPlaces
<1>0. /\ r \in SleepState /\ r.asleep = j.asleep \cup {t}
      /\ r.timer \subseteq j.timer \cup {t}
      /\ r.error = [j.error EXCEPT ![t] = "EOK"]
      /\ \A m \in WaitList \ {where[w]} : r.list[m] = j.list[m]
      /\ IsInjective(r.list[where[w]]) /\ On(r, where[w]) = On(j, where[w]) \cup {t}
  BY DEF JoinsAt
<1>2. EachThread(q) /\ q[t] = w /\ \A u \in Thread \ {t} : q[u] = p[u]
  BY <1>0, <1>1 DEF Placed, EachThread
<1>3. r.error[t] = "EOK" /\ \A u \in Thread \ {t} : r.error[u] = j.error[u]
  BY <1>0, <1>1
<1>4. \A l \in WaitList \ {where[w]} : On(r, l) = On(j, l) /\ IsInjective(r.list[l])
  BY <1>0, <1>1 DEF Sleepers, On
<1>5. \A l \in WaitList : t \notin On(j, l) /\ On(j, l) \subseteq j.asleep
  BY <1>0, <1>1 DEF Sleepers
<1>6. Sleepers(r)
  <2>1. r.timer \subseteq r.asleep
    BY <1>0, <1>1 DEF Sleepers
  <2>2. \A l \in WaitList : IsInjective(r.list[l]) /\ On(r, l) \subseteq r.asleep
    BY <1>0, <1>4, <1>5
  <2>3. \A l, m \in WaitList : l # m => On(r, l) \cap On(r, m) = {}
    <3>1. \A l, m \in WaitList : l # m => On(j, l) \cap On(j, m) = {}
      BY <1>0, <1>1 DEF Sleepers
    <3> QED BY <1>0, <1>4, <1>5, <3>1
  <2>4. \A u \in r.asleep : r.error[u] = "EOK"
    BY <1>0, <1>1, <1>3 DEF Sleepers
  <2> QED BY <1>0, <2>1, <2>2, <2>3, <2>4 DEF Sleepers
<1>7. AtPlaces(r, q, where)
  <2> SUFFICES ASSUME NEW u \in r.asleep
               PROVE  q[u] \in DOMAIN where /\ u \in On(r, where[q[u]])
    BY DEF AtPlaces
  <2>1. CASE u = t
    BY <1>0, <1>2, <2>1
  <2>2. CASE u # t
    <3>1. u \in j.asleep /\ q[u] = p[u] /\ p[u] \in DOMAIN where /\ u \in On(j, where[p[u]])
      BY <1>0, <1>1, <1>2, <2>2 DEF Waits, AtPlaces
    <3>2. where[p[u]] \in WaitList
      BY <1>0, <1>1, <3>1 DEF WaitPlaces
    <3>3. On(j, where[p[u]]) \subseteq On(r, where[p[u]])
      BY <1>0, <1>4, <3>2
    <3> QED BY <3>1, <3>3
  <2> QED BY <2>1, <2>2
<1>8. Waits(r, q, where)
  BY <1>0, <1>1, <1>2, <1>6, <1>7 DEF Waits
<1> QED BY <1>0, <1>1, <1>2, <1>3, <1>8 DEF Asleep, Awake

\* the fields after the assignments of a section
LEMMA ErrorField ==
    ASSUME NEW j, j \in SleepState, NEW t \in Thread
    PROVE  /\ [j EXCEPT !.error[t] = "EOK"]
                 = [asleep |-> j.asleep, timer |-> j.timer,
                    error |-> [j.error EXCEPT ![t] = "EOK"], list |-> j.list]
           /\ [j EXCEPT !.error[t] = "EOK"] \in SleepState
<1>1. [j EXCEPT !.error[t] = "EOK"]
        = [asleep |-> j.asleep, timer |-> j.timer,
           error |-> [j.error EXCEPT ![t] = "EOK"], list |-> j.list]
  BY DEF SleepState
<1> QED BY <1>1 DEF SleepState, WaitError

LEMMA SuspendFields ==
    ASSUME NEW j, j \in SleepState, NEW t \in Thread, NEW l \in WaitList
    PROVE  rt_ipc_list_suspend(j, l, t)
             = [asleep |-> j.asleep \cup {t}, timer |-> j.timer \ {t}, error |-> j.error,
                list |-> [j.list EXCEPT ![l] = Append(@, t)]]
<1> DEFINE x == j.asleep \cup {t}
           y == j.timer \ {t}
           a == [j EXCEPT !.asleep = x]
           m == [a EXCEPT !.timer = y]
<1>0. a = [asleep |-> x, timer |-> j.timer, error |-> j.error, list |-> j.list]
  <2> HIDE DEF x
  <2> QED BY DEF SleepState
<1>1. m = [asleep |-> x, timer |-> y, error |-> j.error, list |-> j.list]
  <2> HIDE DEF a, x, y
  <2> QED BY <1>0
<1>2. rt_ipc_list_suspend(j, l, t) = [m EXCEPT !.list[l] = Append(@, t)]
  BY DEF rt_ipc_list_suspend
<1> HIDE DEF m
<1> QED BY <1>1, <1>2

LEMMA TimerField ==
    ASSUME NEW j, j \in SleepState, NEW t \in Thread
    PROVE  rt_timer_start(j, t)
             = [asleep |-> j.asleep, timer |-> j.timer \cup {t}, error |-> j.error,
                list |-> j.list]
<1> DEFINE x == j.timer \cup {t}
<1>1. [j EXCEPT !.timer = x]
        = [asleep |-> j.asleep, timer |-> x, error |-> j.error, list |-> j.list]
  <2> HIDE DEF x
  <2> QED BY DEF SleepState
<1> QED BY <1>1 DEF rt_timer_start

\* what SuspendSelf makes of the state
Suspended(j, l, t, time) ==
    LET listed == rt_ipc_list_suspend([j EXCEPT !.error[t] = "EOK"], l, t) IN
    IF time = "ticks" THEN rt_timer_start(listed, t) ELSE listed

LEMMA SuspendIs ==
    ASSUME NEW j, NEW p, NEW where, Waits(j, p, where), NEW t \in Thread, t \notin j.asleep,
           NEW w \in DOMAIN where, NEW time, NEW q, q = Placed(p, t, w),
           NEW r, r = Suspended(j, where[w], t, time)
    PROVE  /\ Waits(r, q, where) /\ r.asleep = j.asleep \cup {t}
           /\ \A v : v # w => /\ Asleep(r, q, v) = Asleep(j, p, v)
                              /\ Awake(r, q, v) = Awake(j, p, v) \ {t}
                              /\ p[t] # v => Awake(r, q, v) = Awake(j, p, v)
<1> DEFINE l == where[w]
<1>1. /\ Sleepers(j) /\ l \in WaitList
      /\ j = [asleep |-> j.asleep, timer |-> j.timer, error |-> j.error, list |-> j.list]
      /\ j.list \in [WaitList -> Seq(Thread)] /\ j.list[l] \in Seq(Thread)
      /\ IsInjective(j.list[l]) /\ t \notin ToSet(j.list[l])
      /\ j.error \in [Thread -> WaitError]
      /\ j.asleep \in SUBSET Thread /\ j.timer \in SUBSET Thread
  BY DEF Waits, Sleepers, SleepState, WaitPlaces, On
<1> DEFINE listed == [asleep |-> j.asleep \cup {t}, timer |-> j.timer \ {t},
                      error |-> [j.error EXCEPT ![t] = "EOK"],
                      list |-> [j.list EXCEPT ![l] = Append(@, t)]]
<1>4. /\ Append(j.list[l], t) \in Seq(Thread) /\ IsInjective(Append(j.list[l], t))
      /\ ToSet(Append(j.list[l], t)) = ToSet(j.list[l]) \cup {t}
  BY <1>1, AppendElements
<1>5. /\ listed \in SleepState /\ listed.list[l] = Append(j.list[l], t)
      /\ \A m \in WaitList \ {l} : listed.list[m] = j.list[m]
  BY <1>1, <1>4 DEF SleepState, WaitError
<1> DEFINE e == [j EXCEPT !.error[t] = "EOK"]
<1>2. rt_ipc_list_suspend(e, l, t) = listed
  <2>1. /\ e \in SleepState
        /\ e = [asleep |-> j.asleep, timer |-> j.timer,
                error |-> [j.error EXCEPT ![t] = "EOK"], list |-> j.list]
    BY <1>1, ErrorField DEF Sleepers
  <2>2. rt_ipc_list_suspend(e, l, t)
          = [asleep |-> e.asleep \cup {t}, timer |-> e.timer \ {t}, error |-> e.error,
             list |-> [e.list EXCEPT ![l] = Append(@, t)]]
    <3> HIDE DEF e
    <3> QED BY <1>1, <2>1, SuspendFields
  <2> HIDE DEF e
  <2> QED BY <2>1, <2>2
<1> HIDE DEF e
<1>8. r = IF time = "ticks" THEN rt_timer_start(listed, t) ELSE listed
  BY <1>2 DEF e, Suspended
<1> DEFINE timed == rt_timer_start(listed, t)
<1>9. timed = [asleep |-> listed.asleep, timer |-> listed.timer \cup {t},
               error |-> listed.error, list |-> listed.list]
  <2> HIDE DEF listed
  <2> QED BY <1>1, <1>5, TimerField
<1>10. r = timed \/ r = listed
  BY <1>8
<1>11. listed.timer = j.timer \ {t} /\ listed.asleep = j.asleep \cup {t}
       /\ listed.error = [j.error EXCEPT ![t] = "EOK"]
  OBVIOUS
<1> HIDE DEF timed, listed
<1>6. /\ r.asleep = listed.asleep /\ r.error = listed.error /\ r.list = listed.list
      /\ r.timer \subseteq j.timer \cup {t} /\ r \in SleepState
  <2>1. CASE r = listed
    BY <1>5, <1>11, <2>1
  <2>2. CASE r = timed
    <3>1. timed \in SleepState
      BY <1>5, <1>9 DEF SleepState
    <3>2. timed.timer = listed.timer \cup {t} /\ timed.asleep = listed.asleep
          /\ timed.error = listed.error /\ timed.list = listed.list
      BY <1>9
    <3>3. timed.timer \subseteq j.timer \cup {t}
      BY <1>11, <3>2
    <3> QED BY <2>2, <3>1, <3>2, <3>3
  <2> QED BY <1>10, <2>1, <2>2
<1>7. /\ r.asleep = j.asleep \cup {t} /\ r.error = [j.error EXCEPT ![t] = "EOK"]
      /\ IsInjective(r.list[l]) /\ On(r, l) = On(j, l) \cup {t}
      /\ \A m \in WaitList \ {l} : r.list[m] = j.list[m]
  BY <1>4, <1>5, <1>6, <1>11 DEF On
<1>12. JoinsAt(j, r, l, t)
  BY <1>6, <1>7 DEF JoinsAt
<1> HIDE DEF l
<1> QED BY <1>7, <1>12, JoinsList DEF l

\* one turn of rt_ipc_list_resume_all
LEMMA ResumeErrorIs ==
    ASSUME NEW j, Sleepers(j), NEW l \in WaitList, j.list[l] # << >>,
           NEW r, r = rt_ipc_list_resume_error(j, l)
    PROVE  LET h == Head(j.list[l]) IN
           /\ h \in On(j, l) /\ Sleepers(r)
           /\ r.asleep = j.asleep \ {h} /\ r.error = [j.error EXCEPT ![h] = "ERROR"]
           /\ r.list[l] = Without(j.list[l], h)
           /\ \A m \in WaitList : On(r, m) = On(j, m) \ {h}
<1> DEFINE h == Head(j.list[l])
           q == rt_thread_resume(j, h)
<1>1. h \in On(j, l) /\ h \in j.asleep /\ h \in Thread
  BY HeadIs DEF Sleepers, SleepState
<1>2. /\ Sleepers(q) /\ q.asleep = j.asleep \ {h} /\ q.error = j.error
      /\ \A m \in WaitList : On(q, m) = On(j, m) \ {h}
  <2> HIDE DEF h
  <2> QED BY <1>1, ResumeIs
<1>3. q.list[l] = Without(j.list[l], h)
  <2> HIDE DEF h
  <2> QED BY <1>1 DEF rt_thread_resume, Unlinked, Sleepers, SleepState
<1>4. r = [q EXCEPT !.error[h] = "ERROR"]
  BY DEF rt_ipc_list_resume_error, rt_ipc_list_resume
<1> HIDE DEF h, q
<1> DEFINE e == [q.error EXCEPT ![h] = "ERROR"]
<1>5. r = [asleep |-> q.asleep, timer |-> q.timer, error |-> e, list |-> q.list]
  <2>1. r = [q EXCEPT !.error = e]
    BY <1>4
  <2> HIDE DEF e
  <2> QED BY <1>2, <2>1 DEF Sleepers, SleepState
<1>6. e \in [Thread -> WaitError] /\ \A u \in Thread \ {h} : e[u] = q.error[u]
  BY <1>1, <1>2 DEF Sleepers, SleepState, WaitError
<1> HIDE DEF e
<1>7. Sleepers(r)
  <2>1. r \in SleepState
    BY <1>2, <1>5, <1>6 DEF Sleepers, SleepState
  <2>2. \A u \in r.asleep : r.error[u] = "EOK"
    BY <1>1, <1>2, <1>5, <1>6 DEF Sleepers, SleepState
  <2>3. r.asleep = q.asleep /\ r.timer = q.timer /\ r.list = q.list
    BY <1>5
  <2> QED BY <1>2, <2>1, <2>2, <2>3 DEF Sleepers, On
<1>8. r.asleep = j.asleep \ {h} /\ r.list = q.list /\ r.error = [j.error EXCEPT ![h] = "ERROR"]
  BY <1>2, <1>5 DEF e
<1>9. \A m \in WaitList : On(r, m) = On(j, m) \ {h}
  BY <1>2, <1>8 DEF On
<1> QED BY <1>1, <1>3, <1>7, <1>8, <1>9 DEF h

\* f[i] is the state after i turns of rt_ipc_list_resume_all
ResumeTurns(f, j, l, n) ==
    f = [i \in 0 .. n |-> IF i = 0 THEN j ELSE rt_ipc_list_resume_error(f[i - 1], l)]

\* There is such a function for each number of turns.
LEMMA ResumeTurnsExist ==
    ASSUME NEW j, NEW l, NEW n \in Nat
    PROVE  \E f : ResumeTurns(f, j, l, n)
<1> DEFINE Turns(f, m) == ResumeTurns(f, j, l, m)
           G == {m \in 0 .. n : \E f : Turns(f, m)}
<1>1. 0 \in G
  <2> DEFINE f == [i \in 0 .. 0 |-> j]
  <2>1. Turns(f, 0)
    <3>1. \A i \in 0 .. 0 : j = IF i = 0 THEN j
                               ELSE rt_ipc_list_resume_error(f[i - 1], l)
      OBVIOUS
    <3> QED BY <3>1 DEF ResumeTurns
  <2> HIDE DEF f, Turns
  <2> QED BY <2>1
<1>2. ASSUME NEW m \in 0 .. n - 1, m \in G PROVE m + 1 \in G
  <2>1. PICK f : Turns(f, m)
    <3> HIDE DEF Turns
    <3> QED BY <1>2
  <2> DEFINE g == [i \in 0 .. m + 1 |->
                      IF i = m + 1 THEN rt_ipc_list_resume_error(f[m], l) ELSE f[i]]
             h == [i \in 0 .. m + 1 |->
                      IF i = 0 THEN j ELSE rt_ipc_list_resume_error(g[i - 1], l)]
  <2>2. ASSUME NEW i \in 0 .. m + 1 PROVE g[i] = h[i]
    <3>0. m \in Nat /\ m + 1 # 0 /\ i \in Int  OBVIOUS
    <3>1. CASE i = m + 1
      <4>1. i # 0 /\ i - 1 = m /\ m \in 0 .. m + 1 /\ m # m + 1  BY <3>0, <3>1
      <4>2. g[i - 1] = f[m]  BY <4>1
      <4>3. h[i] = rt_ipc_list_resume_error(g[i - 1], l)  BY <4>1
      <4>4. g[i] = rt_ipc_list_resume_error(f[m], l)  BY <3>1
      <4> HIDE DEF g, h
      <4> QED BY <4>2, <4>3, <4>4
    <3>2. CASE i = 0
      <4>1. 0 \in 0 .. m /\ 0 \in 0 .. m + 1 /\ 0 # m + 1  BY <3>0
      <4>2. f[0] = j  BY <2>1, <4>1 DEF ResumeTurns
      <4> QED BY <3>2, <4>1, <4>2
    <3>3. CASE i # m + 1 /\ i # 0
      <4>1. i \in 0 .. m /\ i - 1 \in 0 .. m + 1 /\ i - 1 # m + 1  BY <3>0, <3>3
      <4>2. f[i] = rt_ipc_list_resume_error(f[i - 1], l)  BY <2>1, <3>3, <4>1 DEF ResumeTurns
      <4>3. g[i - 1] = f[i - 1]  BY <4>1
      <4>4. g[i] = f[i]  BY <3>3
      <4>5. h[i] = rt_ipc_list_resume_error(g[i - 1], l)  BY <3>3
      <4> HIDE DEF g, h
      <4> QED BY <4>2, <4>3, <4>4, <4>5
    <3> QED BY <3>1, <3>2, <3>3
  <2>3. g = h
    <3>1. g = [i \in 0 .. m + 1 |-> g[i]] /\ h = [i \in 0 .. m + 1 |-> h[i]]
      OBVIOUS
    <3> HIDE DEF g, h
    <3> QED BY <2>2, <3>1
  <2>4. Turns(g, m + 1)
    <3> HIDE DEF g
    <3> QED BY <2>3 DEF ResumeTurns
  <2>5. m + 1 \in 0 .. n  OBVIOUS
  <2> HIDE DEF g, h, Turns
  <2> QED BY <2>4, <2>5
<1>3. n \in 0 .. n  OBVIOUS
<1> HIDE DEF G
<1>4. n \in G
  BY <1>1, <1>2, <1>3, InductionUpTo
<1> QED BY <1>4 DEF G

\* rt_ipc_list_resume_all: all who wait in the list are told and resumed.
LEMMA ResumeAllIs ==
    ASSUME NEW j, Sleepers(j), NEW l \in WaitList, NEW r, r = rt_ipc_list_resume_all(j, l)
    PROVE  /\ Sleepers(r) /\ r.asleep = j.asleep \ On(j, l)
           /\ \A m \in WaitList : On(r, m) = On(j, m) \ On(j, l)
           /\ \A x \in Thread : r.error[x] = IF x \in On(j, l) THEN "ERROR" ELSE j.error[x]
<1> DEFINE n == Len(j.list[l])
           F == CHOOSE f : ResumeTurns(f, j, l, n)
<1>1. n \in Nat /\ j.list[l] \in Seq(Thread)
  BY LenProperties DEF Sleepers, SleepState
<1>2. r = F[n]
  BY DEF rt_ipc_list_resume_all, ResumeTurns
<1>3. F = [i \in 0 .. n |-> IF i = 0 THEN j
                            ELSE rt_ipc_list_resume_error(F[i - 1], l)]
  <2>1. \E f : ResumeTurns(f, j, l, n)
    <3> HIDE DEF n
    <3> QED BY <1>1, ResumeTurnsExist
  <2>2. ResumeTurns(F, j, l, n)
    <3> HIDE DEF n
    <3> QED BY <2>1
  <2> HIDE DEF F, n
  <2> QED BY <2>2 DEF ResumeTurns
<1> HIDE DEF F
<1> DEFINE Gone(i) == On(j, l) \ On(F[i], l)
           Good(i) ==
               /\ Sleepers(F[i]) /\ On(F[i], l) \subseteq On(j, l)
               /\ Len(F[i].list[l]) = n - i
               /\ F[i].asleep = j.asleep \ Gone(i)
               /\ \A m \in WaitList : On(F[i], m) = On(j, m) \ Gone(i)
               /\ \A x \in Thread : F[i].error[x] =
                      IF x \in Gone(i) THEN "ERROR" ELSE j.error[x]
           G == {i \in 0 .. n : Good(i)}
<1>4. 0 \in G
  <2>1. F[0] = j /\ 0 \in 0 .. n
    <3> HIDE DEF n
    <3> QED BY <1>1, <1>3
  <2>2. Good(0)
    <3>1. n - 0 = n  BY <1>1
    <3> QED BY <2>1, <3>1
  <2> QED BY <2>1, <2>2
<1>5. ASSUME NEW i \in 0 .. n - 1, i \in G PROVE i + 1 \in G
  <2> HIDE DEF n
  <2>0. /\ i \in Int /\ i + 1 \in 0 .. n /\ i + 1 # 0 /\ (i + 1) - 1 = i
        /\ n - (i + 1) = (n - i) - 1 /\ n - i # 0
    BY <1>1
  <2>1. Good(i)  BY <1>5
  <2> DEFINE q == F[i]
             h == Head(q.list[l])
             z == F[i + 1]
  <2>2. z = rt_ipc_list_resume_error(q, l)
    BY <1>3, <2>0
  <2>3. q.list[l] \in Seq(Thread) /\ q.error \in [Thread -> WaitError] /\ Sleepers(q)
    BY <2>1 DEF Sleepers, SleepState
  <2>4. q.list[l] # << >>
    <3>1. Len(q.list[l]) # 0  BY <2>0, <2>1
    <3> HIDE DEF q
    <3> QED BY <2>3, <3>1, EmptySeq
  <2>5. /\ h \in On(q, l) /\ Sleepers(z)
        /\ z.asleep = q.asleep \ {h} /\ z.error = [q.error EXCEPT ![h] = "ERROR"]
        /\ z.list[l] = Without(q.list[l], h)
        /\ \A m \in WaitList : On(z, m) = On(q, m) \ {h}
    <3> HIDE DEF q, z
    <3> QED BY <2>2, <2>3, <2>4, ResumeErrorIs
  <2>6. /\ Sleepers(q) /\ On(q, l) \subseteq On(j, l) /\ Len(q.list[l]) = n - i
        /\ q.asleep = j.asleep \ Gone(i)
        /\ \A m \in WaitList : On(q, m) = On(j, m) \ Gone(i)
        /\ \A x \in Thread : q.error[x] = IF x \in Gone(i) THEN "ERROR" ELSE j.error[x]
    BY <2>1
  <2>7. Gone(i) = On(j, l) \ On(q, l) /\ Gone(i + 1) = On(j, l) \ On(z, l)
    OBVIOUS
  <2> HIDE DEF q, h, z, Gone
  <2>8. h \in Thread /\ Gone(i + 1) = Gone(i) \cup {h}
    BY <2>3, <2>5, <2>6, <2>7 DEF Sleepers, SleepState
  <2>9. Len(z.list[l]) = n - (i + 1)
    <3>1. Len(Without(q.list[l], h)) = Len(q.list[l]) - 1
      BY <2>3, <2>5, WithoutLength DEF On
    <3> QED BY <2>0, <2>6, <2>5, <3>1
  <2>10. \A x \in Thread : z.error[x] = IF x \in Gone(i + 1) THEN "ERROR" ELSE j.error[x]
    BY <2>3, <2>5, <2>6, <2>8
  <2>11. z.asleep = j.asleep \ Gone(i + 1)
         /\ \A m \in WaitList : On(z, m) = On(j, m) \ Gone(i + 1)
    BY <2>5, <2>6, <2>8
  <2>12. Good(i + 1)
    BY <2>5, <2>6, <2>9, <2>10, <2>11 DEF z
  <2> QED BY <2>0, <2>12
<1>6. Good(n)
  <2>1. n \in 0 .. n  BY <1>1
  <2> HIDE DEF n, G
  <2>2. n \in G
    BY <1>1, <1>4, <1>5, <2>1, InductionUpTo
  <2> QED BY <2>2 DEF G
<1>7. On(r, l) = {}
  <2>1. Len(r.list[l]) = 0 /\ Sleepers(r)
    BY <1>1, <1>2, <1>6
  <2>2. r.list[l] = << >>
    <3>1. r.list[l] \in Seq(Thread)  BY <2>1 DEF Sleepers, SleepState
    <3> QED BY <2>1, <3>1, EmptySeq
  <2> QED BY <2>2 DEF On, ToSet
<1>8. Gone(n) = On(j, l)
  BY <1>2, <1>7
<1> HIDE DEF Gone, n
<1> QED BY <1>2, <1>6, <1>8

LEMMA AllWake ==
    ASSUME NEW j, NEW p, NEW where, Waits(j, p, where), NEW w \in DOMAIN where,
           NEW r, r = rt_ipc_list_resume_all(j, where[w])
    PROVE  /\ Waits(r, p, where) /\ r.asleep = j.asleep \ Asleep(j, p, w)
           /\ \A x \in Thread :
                  r.error[x] = IF x \in Asleep(j, p, w) THEN "ERROR" ELSE j.error[x]
           /\ Asleep(r, p, w) = {} /\ Awake(r, p, w) = Awake(j, p, w)
           /\ \A v \in DOMAIN where \ {w} :
                  Asleep(r, p, v) = Asleep(j, p, v) /\ Awake(r, p, v) = Awake(j, p, v)
<1>1. /\ Sleepers(j) /\ WaitPlaces(where) /\ where[w] \in WaitList
      /\ On(j, where[w]) = Asleep(j, p, w)
  BY AsleepIsOn DEF Waits, WaitPlaces
<1>2. /\ Sleepers(r) /\ r.asleep = j.asleep \ Asleep(j, p, w)
      /\ \A m \in WaitList : On(r, m) = On(j, m) \ Asleep(j, p, w)
      /\ \A x \in Thread : r.error[x] = IF x \in Asleep(j, p, w) THEN "ERROR" ELSE j.error[x]
  BY <1>1, ResumeAllIs
<1>3. AtPlaces(r, p, where)
  BY <1>1, <1>2 DEF Waits, AtPlaces, WaitPlaces
<1>4. Waits(r, p, where)
  BY <1>2, <1>3 DEF Waits
<1>5. Asleep(r, p, w) = {} /\ Awake(r, p, w) = Awake(j, p, w)
  BY <1>2 DEF Asleep, Awake
<1>6. ASSUME NEW v \in DOMAIN where \ {w}
      PROVE  Asleep(r, p, v) = Asleep(j, p, v) /\ Awake(r, p, v) = Awake(j, p, v)
  BY <1>2 DEF Asleep, Awake
<1> QED BY <1>2, <1>4, <1>5, <1>6

\* Of n things there, each has a thread of B on its way to it, if a thread
\* waits: A are those who wait.
Enough(A, B, n) == A # {} => n <= Cardinality(B)

LEMMA AwakeFinite ==
    ASSUME NEW j, NEW p, NEW w
    PROVE  IsFiniteSet(Awake(j, p, w)) /\ Cardinality(Awake(j, p, w)) \in Nat
<1>1. Awake(j, p, w) \in SUBSET Thread /\ IsFiniteSet(Thread)
  BY BlockingAssumption DEF Awake
<1> QED BY <1>1, FS_Subset, FS_CardinalityType

\* Nothing has come, and nobody has left.
LEMMA ServedStill ==
    ASSUME NEW A, NEW B, NEW C, NEW n \in Int, NEW m \in Int, Enough(A, B, n),
           C \subseteq A, m <= n, IsFiniteSet(B), Cardinality(B) \in Nat
    PROVE  Enough(C, B, m)
BY DEF Enough

\* Somebody goes, and takes something or leaves nothing behind.
LEMMA ServedTaken ==
    ASSUME NEW A, NEW B, NEW n \in Int, NEW m \in Int, NEW t, Enough(A, B, n),
           m <= n - 1 \/ m <= 0, IsFiniteSet(B)
    PROVE  Enough(A, B \ {t}, m)
<1>1. IsFiniteSet(B \ {t}) /\ Cardinality(B \ {t}) = IF t \in B THEN Cardinality(B) - 1
                                                     ELSE Cardinality(B)
  BY FS_RemoveElement
<1>2. Cardinality(B) \in Nat /\ Cardinality(B \ {t}) \in Nat
  BY <1>1, FS_CardinalityType
<1> QED BY <1>1, <1>2 DEF Enough

\* Somebody is resumed for what has come.
LEMMA ServedMore ==
    ASSUME NEW A, NEW B, NEW n \in Int, NEW m \in Int, NEW h, Enough(A, B, n),
           m <= n + 1, IsFiniteSet(B), h \in A, h \notin B
    PROVE  Enough(A \ {h}, B \cup {h}, m)
<1>1. Cardinality(B \cup {h}) = Cardinality(B) + 1 /\ Cardinality(B) \in Nat
  BY FS_AddElement, FS_CardinalityType
<1> QED BY <1>1 DEF Enough

\* "resume one", for one thing that has come
LEMMA ResumeServes ==
    ASSUME NEW j, NEW p, NEW where, Waits(j, p, where), NEW w \in DOMAIN where,
           NEW r, r = ResumeOne(j, where[w]), NEW n \in Int, NEW m \in Int,
           Enough(Asleep(j, p, w), Awake(j, p, w), n), m <= n + 1
    PROVE  Enough(Asleep(r, p, w), Awake(r, p, w), m)
<1>1. \/ Asleep(r, p, w) = {} /\ Awake(r, p, w) = Awake(j, p, w)
      \/ \E h \in Thread :
            /\ Asleep(r, p, w) = Asleep(j, p, w) \ {h} /\ h \in Asleep(j, p, w)
            /\ Awake(r, p, w) = Awake(j, p, w) \cup {h} /\ h \notin Awake(j, p, w)
  BY ResumeOneIs
<1>2. CASE Asleep(r, p, w) = {}
  BY <1>2 DEF Enough
<1>3. CASE \E h \in Thread :
            /\ Asleep(r, p, w) = Asleep(j, p, w) \ {h} /\ h \in Asleep(j, p, w)
            /\ Awake(r, p, w) = Awake(j, p, w) \cup {h} /\ h \notin Awake(j, p, w)
  BY <1>3, AwakeFinite, ServedMore
<1> QED BY <1>1, <1>2, <1>3

-----------------------------------------------------------------------------
(* The calls that wait, in terms of who sleeps and who is awake.           *)

\* the local variables, of calls that carry a message at the places of C
Locals(p, lo, C) ==
    /\ lo \in [Thread -> [time : Time, val : Message \cup {Nil}]]
    /\ \A t \in Thread : p[t] \in C => lo[t].val \in Message

\* Somebody who sleeps nowhere has gone from one place to another.
SameSleepers(where) ==
    \A v \in DOMAIN where :
        Asleep(s', pc', v) = Asleep(s, pc, v) /\ Awake(s', pc', v) = Awake(s, pc, v)

LEMMA BeginIs ==
    ASSUME NEW where, NEW C, Waits(s, pc, where), Locals(pc, loc, C), NEW t \in Thread,
           NEW label, label \notin DOMAIN where, "user" \notin DOMAIN where,
           NEW time \in Time, NEW val \in Message \cup {Nil}, label \in C => val \in Message,
           Begin(t, label, time, val)
    PROVE  /\ Waits(s', pc', where) /\ Locals(pc', loc', C) /\ SameSleepers(where)
           /\ pc[t] = "user" /\ pc' = Placed(pc, t, label) /\ loc'[t].val = val
           /\ \A u \in Thread \ {t} : loc'[u] = loc[u]
<1>1. /\ pc[t] = "user" /\ t \notin s.asleep /\ pc' = Placed(pc, t, label) /\ s' = s
      /\ loc' = [loc EXCEPT ![t] = [time |-> time, val |-> val]]
  BY DEF Begin, Runs, Goto, Placed
<1>2. /\ Waits(s, pc', where)
      /\ \A v : /\ Asleep(s, pc', v) = Asleep(s, pc, v)
                /\ pc[t] # v /\ label # v => Awake(s, pc', v) = Awake(s, pc, v)
  BY <1>1, Moves
<1>3. EachThread(pc)
  BY DEF Waits
<1>4. /\ loc' \in [Thread -> [time : Time, val : Message \cup {Nil}]]
      /\ loc'[t].val = val /\ \A u \in Thread \ {t} : loc'[u] = loc[u]
  BY <1>1 DEF Locals
<1>5. Locals(pc', loc', C)
  BY <1>1, <1>3, <1>4 DEF Locals, Placed, EachThread
<1> QED BY <1>1, <1>2, <1>4, <1>5 DEF SameSleepers

\* A thread at no sleeping place, or one awake, returns.
LEMMA ReturnIs ==
    ASSUME NEW where, NEW C, Waits(s, pc, where), Locals(pc, loc, C), NEW t \in Thread,
           t \notin s.asleep, "user" \notin DOMAIN where, "user" \notin C, Return(t)
    PROVE  /\ Waits(s, pc', where) /\ Locals(pc', loc', C) /\ pc' = Placed(pc, t, "user")
           /\ \A u \in Thread \ {t} : loc'[u] = loc[u]
           /\ \A v \in DOMAIN where :
                  /\ Asleep(s, pc', v) = Asleep(s, pc, v)
                  /\ Awake(s, pc', v) = Awake(s, pc, v) \ {t}
                  /\ pc[t] # v => Awake(s, pc', v) = Awake(s, pc, v)
<1>1. pc' = Placed(pc, t, "user") /\ loc' = [loc EXCEPT ![t] = NoLocals]
  BY DEF Return, Goto, Placed
<1>2. /\ Waits(s, pc', where)
      /\ \A v : /\ Asleep(s, pc', v) = Asleep(s, pc, v)
                /\ v # "user" => Awake(s, pc', v) = Awake(s, pc, v) \ {t}
                /\ pc[t] # v /\ "user" # v => Awake(s, pc', v) = Awake(s, pc, v)
  <2> DEFINE x == "user"
  <2>2. pc' = Placed(pc, t, x)
    BY <1>1
  <2> HIDE DEF x
  <2>3. /\ Waits(s, pc', where)
        /\ \A v : /\ Asleep(s, pc', v) = Asleep(s, pc, v)
                  /\ v # x => Awake(s, pc', v) = Awake(s, pc, v) \ {t}
                  /\ pc[t] # v /\ x # v => Awake(s, pc', v) = Awake(s, pc, v)
    BY <2>2, Moves
  <2> QED BY <2>3 DEF x
<1>3. EachThread(pc)
  BY DEF Waits
<1>4. /\ loc' \in [Thread -> [time : Time, val : Message \cup {Nil}]]
      /\ \A u \in Thread \ {t} : loc'[u] = loc[u]
  BY <1>1 DEF Locals, NoLocals, Time
<1>5. Locals(pc', loc', C)
  BY <1>1, <1>3, <1>4 DEF Locals, Placed, EachThread
<1> QED BY <1>1, <1>2, <1>4, <1>5

\* A call that waits.
LEMMA SuspendSelfIs ==
    ASSUME NEW where, NEW C, Waits(s, pc, where), Locals(pc, loc, C), NEW t \in Thread,
           t \notin s.asleep, NEW w \in DOMAIN where, NEW time \in Time, w \in C => pc[t] \in C,
           SuspendSelf(t, where[w], time, w)
    PROVE  /\ Waits(s', pc', where) /\ Locals(pc', loc', C) /\ pc' = Placed(pc, t, w)
           /\ s'.asleep = s.asleep \cup {t}
           /\ \A u \in Thread : loc'[u].val = loc[u].val
           /\ \A v \in DOMAIN where \ {w} :
                  /\ Asleep(s', pc', v) = Asleep(s, pc, v)
                  /\ Awake(s', pc', v) = Awake(s, pc, v) \ {t}
                  /\ pc[t] # v => Awake(s', pc', v) = Awake(s, pc, v)
<1>1. /\ pc' = Placed(pc, t, w) /\ loc' = [loc EXCEPT ![t].time = time]
      /\ s' = Suspended(s, where[w], t, time)
  BY DEF SuspendSelf, Goto, Placed, Suspended
<1>2. /\ Waits(s', pc', where) /\ s'.asleep = s.asleep \cup {t}
      /\ \A v : v # w => /\ Asleep(s', pc', v) = Asleep(s, pc, v)
                         /\ Awake(s', pc', v) = Awake(s, pc, v) \ {t}
                         /\ pc[t] # v => Awake(s', pc', v) = Awake(s, pc, v)
  BY <1>1, SuspendIs
<1>3. EachThread(pc)
  BY DEF Waits
<1>4. /\ loc' \in [Thread -> [time : Time, val : Message \cup {Nil}]]
      /\ \A u \in Thread : loc'[u].val = loc[u].val
  BY <1>1 DEF Locals
<1>5. Locals(pc', loc', C)
  BY <1>1, <1>3, <1>4 DEF Locals, Placed, EachThread
<1> QED BY <1>1, <1>2, <1>4, <1>5

\* A wait that ends with an error was nobody's way to anything.
LEMMA WaitFailsIs ==
    ASSUME NEW where, NEW C, Waits(s, pc, where), Locals(pc, loc, C), NEW t \in Thread,
           "user" \notin DOMAIN where, "user" \notin C, NEW w, WaitFails(t, w)
    PROVE  /\ Waits(s', pc', where) /\ Locals(pc', loc', C) /\ SameSleepers(where)
           /\ pc' = Placed(pc, t, "user") /\ pc[t] = w
           /\ \A u \in Thread \ {t} : loc'[u] = loc[u]
<1>1. /\ pc[t] = w /\ t \notin s.asleep /\ s.error[t] # "EOK" /\ Return(t)
      /\ s' = [s EXCEPT !.error[t] = "EOK"]
  BY DEF WaitFails, Runs
<1>2. /\ Waits(s', pc, where) /\ s'.asleep = s.asleep
      /\ \A v : /\ Asleep(s', pc, v) = Asleep(s, pc, v)
                /\ pc[t] # v => Awake(s', pc, v) = Awake(s, pc, v)
  BY <1>1, Forgets
<1>3. /\ Locals(pc', loc', C) /\ pc' = Placed(pc, t, "user")
      /\ \A u \in Thread \ {t} : loc'[u] = loc[u]
  BY <1>1, ReturnIs
<1>4. /\ Waits(s', pc', where)
      /\ \A v : /\ Asleep(s', pc', v) = Asleep(s', pc, v)
                /\ v # "user" => Awake(s', pc', v) = Awake(s', pc, v) \ {t}
  <2> DEFINE x == "user"
  <2>1. pc' = Placed(pc, t, x) /\ t \notin s'.asleep /\ Waits(s', pc, where)
    BY <1>1, <1>2, <1>3
  <2> HIDE DEF x
  <2>2. /\ Waits(s', pc', where)
        /\ \A v : /\ Asleep(s', pc', v) = Asleep(s', pc, v)
                  /\ v # x => Awake(s', pc', v) = Awake(s', pc, v) \ {t}
    BY <2>1, Moves
  <2> QED BY <2>2 DEF x
<1>5. \A u \in Thread \ {t} : s'.error[u] = s.error[u]
  <2>1. s'.error = [s.error EXCEPT ![t] = "EOK"] /\ s.error \in [Thread -> WaitError]
    BY <1>1, ErrorField DEF Waits, Sleepers, SleepState
  <2> QED BY <2>1
<1>6. \A v : Awake(s', pc, v) \ {t} = Awake(s, pc, v)
  BY <1>1, <1>2, <1>5 DEF Awake
<1>7. SameSleepers(where)
  BY <1>2, <1>4, <1>6 DEF SameSleepers
<1> QED BY <1>1, <1>3, <1>4, <1>7

LEMMA TimerExpiresIs ==
    ASSUME NEW where, Waits(s, pc, where), NEW t \in Thread, TimerExpires(t)
    PROVE  /\ Waits(s', pc', where) /\ pc' = pc /\ loc' = loc
           /\ \A v : /\ Asleep(s', pc', v) \subseteq Asleep(s, pc, v)
                     /\ Awake(s', pc', v) = Awake(s, pc, v)
<1>1. t \in s.timer /\ s' = rt_thread_timeout(s, t) /\ pc' = pc /\ loc' = loc
  BY DEF TimerExpires
<1>2. /\ Waits(s', pc, where)
      /\ \A v : Asleep(s', pc, v) = Asleep(s, pc, v) \ {t}
                /\ Awake(s', pc, v) = Awake(s, pc, v)
  <2> DEFINE r == s'
  <2>1. r = rt_thread_timeout(s, t) /\ t \in s.timer
    BY <1>1
  <2> HIDE DEF r
  <2>2. /\ Waits(r, pc, where)
        /\ \A v : Asleep(r, pc, v) = Asleep(s, pc, v) \ {t} /\ Awake(r, pc, v) = Awake(s, pc, v)
    BY <2>1, TimeoutIs
  <2> QED BY <2>2 DEF r
<1> QED BY <1>1, <1>2

\* Who makes the test does not sleep, and no time comes from nowhere.
LEMMA TestIs ==
    ASSUME NEW C, Locals(pc, loc, C), NEW t \in Thread, NEW call, NEW wait,
           AtTest(t, call, wait)
    PROVE  /\ t \notin s.asleep /\ (pc[t] = call \/ pc[t] = wait)
           /\ TimeLeft(t, call) \subseteq Time
BY DEF Locals, AtTest, Runs, Woken, TimeLeft, Time

-----------------------------------------------------------------------------
(* The flow of things and threads: n[w] things are there for the threads   *)
(* that wait at the place w.                                               *)

Counts(where, n) == n = [w \in DOMAIN where |-> n[w]] /\ \A w \in DOMAIN where : n[w] \in Int

Flow(j, p, where, n) ==
    /\ Waits(j, p, where) /\ Counts(where, n)
    /\ \A w \in DOMAIN where : Enough(Asleep(j, p, w), Awake(j, p, w), n[w])

\* t has gone from w with one of the n things, or from elsewhere with nothing,
\* and m are there; or nothing is there.
Takes(p, t, w, n, m) == m <= 0 \/ m <= n - 1 \/ (m <= n /\ p[t] # w)

LEMMA FlowServed ==
    ASSUME NEW A, NEW B, NEW C, NEW n \in Int, NEW m \in Int, NEW p, NEW t, NEW w,
           Enough(A, B, n), Takes(p, t, w, n, m), C = B \ {t}, p[t] # w => C = B,
           IsFiniteSet(B)
    PROVE  Enough(A, C, m)
<1>1. Cardinality(B) \in Nat
  BY FS_CardinalityType
<1>2. CASE m <= n - 1 \/ m <= 0
  BY <1>2, ServedTaken
<1>3. CASE m <= n /\ p[t] # w
  BY <1>3, <1>1, ServedStill
<1> QED BY <1>2, <1>3 DEF Takes

\* A thread goes on, to a place where nobody sleeps.
LEMMA FlowGoes ==
    ASSUME NEW j, NEW p, NEW where, NEW n, Flow(j, p, where, n), NEW t \in Thread,
           t \notin j.asleep, NEW x, x \notin DOMAIN where, NEW q, q = Placed(p, t, x),
           NEW m, Counts(where, m), \A w \in DOMAIN where : Takes(p, t, w, n[w], m[w])
    PROVE  Flow(j, q, where, m)
<1>1. Waits(j, p, where) /\ Counts(where, n)
      /\ \A w \in DOMAIN where : Enough(Asleep(j, p, w), Awake(j, p, w), n[w])
  BY DEF Flow
<1>2. /\ Waits(j, q, where)
      /\ \A v : /\ Asleep(j, q, v) = Asleep(j, p, v)
                /\ v # x => Awake(j, q, v) = Awake(j, p, v) \ {t}
                /\ p[t] # v /\ x # v => Awake(j, q, v) = Awake(j, p, v)
  BY <1>1, Moves
<1>3. ASSUME NEW w \in DOMAIN where
      PROVE  Enough(Asleep(j, q, w), Awake(j, q, w), m[w])
  <2>1. Takes(p, t, w, n[w], m[w]) /\ n[w] \in Int /\ m[w] \in Int
    BY <1>1 DEF Counts
  <2>2. /\ Asleep(j, q, w) = Asleep(j, p, w) /\ Awake(j, q, w) = Awake(j, p, w) \ {t}
        /\ p[t] # w => Awake(j, q, w) = Awake(j, p, w)
    BY <1>2
  <2>3. IsFiniteSet(Awake(j, p, w)) /\ Enough(Asleep(j, p, w), Awake(j, p, w), n[w])
    BY <1>1, AwakeFinite
  <2>4. Enough(Asleep(j, p, w), Awake(j, q, w), m[w])
    BY <2>1, <2>2, <2>3, FlowServed
  <2> QED BY <2>2, <2>4
<1> QED BY <1>2, <1>3 DEF Flow

\* A thread suspends itself at w, where nothing is there for it.
LEMMA FlowSuspends ==
    ASSUME NEW j, NEW p, NEW where, NEW n, Flow(j, p, where, n), NEW t \in Thread,
           t \notin j.asleep, NEW w \in DOMAIN where, NEW time,
           NEW q, q = Placed(p, t, w), NEW r, r = Suspended(j, where[w], t, time),
           n[w] <= 0, \A v \in DOMAIN where \ {w} : p[t] # v
    PROVE  Flow(r, q, where, n)
<1>1. Waits(j, p, where) /\ Counts(where, n)
      /\ \A v \in DOMAIN where : Enough(Asleep(j, p, v), Awake(j, p, v), n[v])
  BY DEF Flow
<1>2. /\ Waits(r, q, where)
      /\ \A v : v # w => /\ Asleep(r, q, v) = Asleep(j, p, v)
                         /\ Awake(r, q, v) = Awake(j, p, v) \ {t}
                         /\ p[t] # v => Awake(r, q, v) = Awake(j, p, v)
  BY <1>1, SuspendIs
<1>3. \A v \in DOMAIN where \ {w} : Enough(Asleep(r, q, v), Awake(r, q, v), n[v])
  BY <1>1, <1>2
<1>4. Enough(Asleep(r, q, w), Awake(r, q, w), n[w])
  BY <1>1, AwakeFinite DEF Enough, Counts
<1> QED BY <1>1, <1>2, <1>3, <1>4 DEF Flow

\* One thing has come for those at w, and the first of them is resumed.
LEMMA FlowResumes ==
    ASSUME NEW j, NEW p, NEW where, NEW n, Flow(j, p, where, n), NEW w \in DOMAIN where,
           NEW r, r = ResumeOne(j, where[w]), NEW m, Counts(where, m), m[w] <= n[w] + 1,
           \A v \in DOMAIN where \ {w} : m[v] <= n[v]
    PROVE  Flow(r, p, where, m)
<1>1. Waits(j, p, where) /\ Counts(where, n)
      /\ \A v \in DOMAIN where : Enough(Asleep(j, p, v), Awake(j, p, v), n[v])
  BY DEF Flow
<1>2. /\ Waits(r, p, where)
      /\ \A v \in DOMAIN where \ {w} :
             Asleep(r, p, v) = Asleep(j, p, v) /\ Awake(r, p, v) = Awake(j, p, v)
  BY <1>1, ResumeOneIs
<1>3. Enough(Asleep(r, p, w), Awake(r, p, w), m[w])
  BY <1>1, ResumeServes DEF Counts
<1>4. ASSUME NEW v \in DOMAIN where \ {w}
      PROVE  Enough(Asleep(r, p, v), Awake(r, p, v), m[v])
  BY <1>1, <1>2, AwakeFinite, ServedStill DEF Counts
<1> QED BY <1>2, <1>3, <1>4 DEF Flow

\* All who sleep at w are resumed, and whatever is there for them.
LEMMA FlowEmpties ==
    ASSUME NEW j, NEW p, NEW where, NEW n, Flow(j, p, where, n), NEW w \in DOMAIN where,
           NEW r, r = rt_ipc_list_resume_all(j, where[w]), NEW m, Counts(where, m),
           \A v \in DOMAIN where \ {w} : m[v] <= n[v]
    PROVE  Flow(r, p, where, m)
<1>1. Waits(j, p, where) /\ Counts(where, n)
      /\ \A v \in DOMAIN where : Enough(Asleep(j, p, v), Awake(j, p, v), n[v])
  BY DEF Flow
<1>2. /\ Waits(r, p, where) /\ Asleep(r, p, w) = {}
      /\ \A v \in DOMAIN where \ {w} :
             Asleep(r, p, v) = Asleep(j, p, v) /\ Awake(r, p, v) = Awake(j, p, v)
  BY <1>1, AllWake
<1>3. Enough(Asleep(r, p, w), Awake(r, p, w), m[w])
  BY <1>2 DEF Enough
<1>4. ASSUME NEW v \in DOMAIN where \ {w}
      PROVE  Enough(Asleep(r, p, v), Awake(r, p, v), m[v])
  BY <1>1, <1>2, AwakeFinite, ServedStill DEF Counts
<1> QED BY <1>2, <1>3, <1>4 DEF Flow

\* Nothing has come or gone, and some have been timed out, or told so.
LEMMA FlowTimes ==
    ASSUME NEW j, NEW p, NEW where, NEW n, Flow(j, p, where, n),
           NEW r, NEW q, Waits(r, q, where),
           \A v \in DOMAIN where : /\ Asleep(r, q, v) \subseteq Asleep(j, p, v)
                                   /\ Awake(r, q, v) = Awake(j, p, v)
    PROVE  Flow(r, q, where, n)
<1>1. ASSUME NEW v \in DOMAIN where
      PROVE  Enough(Asleep(r, q, v), Awake(r, q, v), n[v])
  <2>1. Enough(Asleep(j, p, v), Awake(j, p, v), n[v]) /\ n[v] \in Int
    BY DEF Flow, Counts
  <2> QED BY <2>1 DEF Enough
<1> QED BY <1>1 DEF Flow

\* Of what is there, some is gone.
LEMMA FlowLess ==
    ASSUME NEW j, NEW p, NEW where, NEW n, Flow(j, p, where, n), NEW m, Counts(where, m),
           \A w \in DOMAIN where : m[w] <= n[w]
    PROVE  Flow(j, p, where, m)
<1>1. ASSUME NEW w \in DOMAIN where
      PROVE  Enough(Asleep(j, p, w), Awake(j, p, w), m[w])
  <2>1. Enough(Asleep(j, p, w), Awake(j, p, w), n[w]) /\ n[w] \in Int /\ m[w] \in Int
    BY DEF Flow, Counts
  <2> QED BY <2>1, AwakeFinite, ServedStill
<1> QED BY <1>1 DEF Flow

LEMMA FirstFlow ==
    ASSUME BlockingInit, NEW where, WaitPlaces(where), NEW C, "user" \notin C,
           NEW n, Counts(where, n)
    PROVE  Flow(s, pc, where, n) /\ Locals(pc, loc, C)
<1>1. /\ s.asleep = {} /\ s.timer = {} /\ s.error = [t \in Thread |-> "EOK"]
      /\ s.list = [l \in WaitList |-> << >>] /\ pc = [t \in Thread |-> "user"]
      /\ loc = [t \in Thread |-> NoLocals]
      /\ s = [asleep |-> s.asleep, timer |-> s.timer, error |-> s.error, list |-> s.list]
  BY DEF BlockingInit
<1>2. \A l \in WaitList : s.list[l] = << >> /\ IsInjective(s.list[l]) /\ On(s, l) = {}
  BY <1>1 DEF IsInjective, On, ToSet
<1>3. Sleepers(s)
  <2>1. s.error \in [Thread -> WaitError]
    BY <1>1 DEF WaitError
  <2>2. s.list \in [WaitList -> Seq(Thread)]
    BY <1>1
  <2>3. s \in SleepState
    BY <1>1, <2>1, <2>2 DEF SleepState
  <2> QED BY <1>1, <1>2, <2>3 DEF Sleepers
<1>4. Waits(s, pc, where)
  BY <1>1, <1>3 DEF Waits, AtPlaces, EachThread
<1>5. Flow(s, pc, where, n)
  BY <1>1, <1>4 DEF Flow, Enough, Asleep
<1>6. Locals(pc, loc, C)
  BY <1>1 DEF Locals, NoLocals, Time
<1> QED BY <1>5, <1>6

\* the fields after a thread has put itself at the head of the list
Pushed(j, l, t, time) ==
    [asleep |-> j.asleep \cup {t},
     timer |-> IF time = "ticks" THEN j.timer \cup {t} ELSE j.timer \ {t},
     error |-> [j.error EXCEPT ![t] = "EOK"], list |-> [j.list EXCEPT ![l] = <<t>> \o @]]

\* as MpAllocWait writes it
PushedBy(j, l, t, time) ==
    [j EXCEPT !.error[t] = "EOK", !.asleep = @ \cup {t}, !.list[l] = <<t>> \o @,
              !.timer = IF time = "ticks" THEN @ \cup {t} ELSE @ \ {t}]

LEMMA PushedFields ==
    ASSUME NEW j, j \in SleepState, NEW t \in Thread, NEW l \in WaitList, NEW time
    PROVE  PushedBy(j, l, t, time) = Pushed(j, l, t, time)
<1> DEFINE e == [j.error EXCEPT ![t] = "EOK"]
           a == j.asleep \cup {t}
           k == [j.list EXCEPT ![l] = <<t>> \o @]
           m == IF time = "ticks" THEN j.timer \cup {t} ELSE j.timer \ {t}
           x == [j EXCEPT !.error = e]
           y == [x EXCEPT !.asleep = a]
           z == [y EXCEPT !.list = k]
<1>1. x = [asleep |-> j.asleep, timer |-> j.timer, error |-> e, list |-> j.list]
  <2> HIDE DEF e
  <2> QED BY DEF SleepState
<1>2. PushedBy(j, l, t, time) = [z EXCEPT !.timer = m]
  BY DEF SleepState, PushedBy
<1> HIDE DEF e, a, k, m, x
<1>3. y = [asleep |-> a, timer |-> j.timer, error |-> e, list |-> j.list]
  BY <1>1
<1> HIDE DEF y
<1>4. z = [asleep |-> a, timer |-> j.timer, error |-> e, list |-> k]
  BY <1>3
<1> HIDE DEF z
<1>5. [z EXCEPT !.timer = m] = [asleep |-> a, timer |-> m, error |-> e, list |-> k]
  BY <1>4
<1> QED BY <1>2, <1>5 DEF Pushed, a, e, k, m

LEMMA PushedJoins ==
    ASSUME NEW j, Sleepers(j), NEW t \in Thread, t \notin j.asleep, NEW l \in WaitList, NEW time,
           NEW r, r = Pushed(j, l, t, time)
    PROVE  JoinsAt(j, r, l, t)
<1>1. /\ j.list \in [WaitList -> Seq(Thread)] /\ j.list[l] \in Seq(Thread)
      /\ IsInjective(j.list[l]) /\ t \notin ToSet(j.list[l])
      /\ j.error \in [Thread -> WaitError]
      /\ j.asleep \in SUBSET Thread /\ j.timer \in SUBSET Thread
  BY DEF Sleepers, SleepState, On
<1> DEFINE q == <<t>> \o j.list[l]
           k == [j.list EXCEPT ![l] = q]
           m == IF time = "ticks" THEN j.timer \cup {t} ELSE j.timer \ {t}
           e == [j.error EXCEPT ![t] = "EOK"]
<1>2. q \in Seq(Thread) /\ IsInjective(q) /\ ToSet(q) = ToSet(j.list[l]) \cup {t}
  BY <1>1, PrependElements
<1>3. r = [asleep |-> j.asleep \cup {t}, timer |-> m, error |-> e, list |-> k]
  BY DEF Pushed
<1> HIDE DEF q
<1>4. k \in [WaitList -> Seq(Thread)] /\ k[l] = q /\ \A x \in WaitList \ {l} : k[x] = j.list[x]
  BY <1>1, <1>2
<1>5. m \in SUBSET Thread /\ m \subseteq j.timer \cup {t} /\ e \in [Thread -> WaitError]
  BY <1>1 DEF WaitError
<1> HIDE DEF k, m
<1>6. r \in SleepState
  <2> HIDE DEF e
  <2> QED BY <1>1, <1>3, <1>4, <1>5 DEF SleepState
<1> QED BY <1>2, <1>3, <1>4, <1>5, <1>6 DEF JoinsAt, On

\* A thread has joined the list of w, where nothing is there for it.
LEMMA FlowJoins ==
    ASSUME NEW j, NEW p, NEW where, NEW n, Flow(j, p, where, n), NEW t \in Thread,
           t \notin j.asleep, NEW w \in DOMAIN where, NEW q, q = Placed(p, t, w),
           NEW r, JoinsAt(j, r, where[w], t), n[w] <= 0, \A v \in DOMAIN where \ {w} : p[t] # v
    PROVE  Flow(r, q, where, n)
<1>1. Waits(j, p, where) /\ Counts(where, n)
      /\ \A v \in DOMAIN where : Enough(Asleep(j, p, v), Awake(j, p, v), n[v])
  BY DEF Flow
<1>2. /\ Waits(r, q, where)
      /\ \A v : v # w => /\ Asleep(r, q, v) = Asleep(j, p, v)
                         /\ Awake(r, q, v) = Awake(j, p, v) \ {t}
                         /\ p[t] # v => Awake(r, q, v) = Awake(j, p, v)
  BY <1>1, JoinsList
<1>3. \A v \in DOMAIN where \ {w} : Enough(Asleep(r, q, v), Awake(r, q, v), n[v])
  BY <1>1, <1>2
<1>4. Enough(Asleep(r, q, w), Awake(r, q, w), n[w])
  BY <1>1, AwakeFinite DEF Enough, Counts
<1> QED BY <1>1, <1>2, <1>3, <1>4 DEF Flow
=============================================================================
