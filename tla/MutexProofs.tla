----------------------------- MODULE MutexProofs -----------------------------
(***************************************************************************)
(* The mutexes, for any number of threads and of mutexes: every mutex has  *)
(* the owner its program goes by; and when no thread takes one mutex while *)
(* it has another, an owner runs at the best priority of its waiters, and  *)
(* a thread that owns nothing runs at its own.                             *)
(***************************************************************************)
EXTENDS Mutex, RTKernelProofs

-----------------------------------------------------------------------------
(* The state the threads start in.                                         *)

LEMMA KernelInitSound ==
    /\ KernelInit \in KernelState /\ KernelInv(KernelInit, {})
    /\ \A t \in Thread : KernelInit.stat[t] \in {"READY", "RUNNING"}
    /\ \A t \in Thread : KernelInit.prio[KernelInit.cur] <= KernelInit.prio[t]
<1>1. /\ InitPrio \in [Thread -> Prio] /\ Thread # {} /\ IsFiniteSet(Thread)
  BY CallersAssumption
<1>2. First \in Thread /\ \A u \in Thread : InitPrio[First] <= InitPrio[u]
  BY <1>1, BestExists DEF First
<1>3. KernelInit = Launched(First, InitPrio)
  BY DEF KernelInit, Launched, ReadyAt
<1> QED BY <1>1, <1>2, <1>3, LaunchedSound

-----------------------------------------------------------------------------
(* The inductive invariant, in parts: of a kernel state j, the places p    *)
(* the threads have reached, the mutex a[t] each waits for, the mutexes mu *)
(* and the takes h that have succeeded.                                    *)

InCall(p, t) == p[t] \in {"wait", "woken"}

\* what thread t's call relies on
CallAgrees(j, p, a, t) ==
    /\ j.stat[t] \in {"READY", "RUNNING", "SUSPEND"}
    /\ j.stat[t] = "SUSPEND" =>
           \/ InCall(p, t) /\ OnList(j, t, a[t])
           \/ p[t] \in {"sleep", "slept"} /\ t \in j.timer
    /\ \A l \in WaitList :
           OnList(j, t, l) => InCall(p, t) /\ a[t] = l /\ j.error[t] = "EOK"

Base(j, p, a) ==
    /\ j \in KernelState /\ KernelInv(j, {}) /\ j.nest = 0
    /\ p \in [Thread -> Label] /\ a \in [Thread -> Mutex]
    /\ \A t \in Thread : CallAgrees(j, p, a, t)
    /\ p[Idle] = "user"

\* a thread executes, suspended, only until the rt_schedule of its call
Executes(j, p) == j.stat[j.cur] = "SUSPEND" => p[j.cur] \in {"wait", "sleep"}

GrantedIn(j, p, a, t, m) ==
    InCall(p, t) /\ a[t] = m /\ ~OnList(j, t, m) /\ j.error[t] = "EOK"

\* what t has of m: its takes, and a hand-over it does not know of yet
Grants(j, p, a, h, t, m) == h[t][m] + IF GrantedIn(j, p, a, t, m) THEN 1 ELSE 0

\* each mutex is held by its owner, as often as the owner has it, and by nobody else
HoldsAgree(j, p, a, mu, h) ==
    \A m \in Mutex, t \in Thread :
        /\ mu[m].owner = t => /\ mu[m].hold = Grants(j, p, a, h, t, m)
                              /\ Grants(j, p, a, h, t, m) > 0
        /\ mu[m].owner # t => Grants(j, p, a, h, t, m) = 0

\* The mutexes, the program and the lists tell the same owners.
MutexesAgree(j, p, a, mu, h) ==
    /\ mu \in [Mutex -> MutexState] /\ h \in [Thread -> [Mutex -> 0 .. MaxTakes]]
    /\ HoldsAgree(j, p, a, mu, h)
    /\ \A m \in Mutex : /\ mu[m].owner = RT_NULL => mu[m] = Free
                        /\ mu[m].owner # RT_NULL =>
                               mu[m].value = 0 /\ mu[m].original_priority \in Prio
    /\ \A m \in Mutex : ToSet(j.list[m]) # {} => mu[m].owner # RT_NULL
    /\ \A t \in Thread : InCall(p, t) => h[t][a[t]] = 0
    /\ \A m \in Mutex : h[Idle][m] = 0

\* A thread has one mutex at most, and waits with none.
OneEach(p, h) ==
    /\ \A t \in Thread : \A m, n \in Mutex : h[t][m] > 0 /\ h[t][n] > 0 => m = n
    /\ \A t \in Thread : InCall(p, t) => \A m \in Mutex : h[t][m] = 0

\* Priorities are those of the threads, but for the owners; with the lists in
\* their order, an owner has the best priority of its waiters.
PrioritiesAgree(j, mu) ==
    /\ \A t \in Thread : (\A m \in Mutex : mu[m].owner # t) => j.prio[t] = InitPrio[t]
    /\ \A m \in Mutex : mu[m].owner # RT_NULL =>
           mu[m].original_priority = InitPrio[mu[m].owner]
    /\ Flag = "PRIO" => \A m \in Mutex :
           /\ SortedBy(j.list[m], j.prio)
           /\ \A w \in ToSet(j.list[m]) : j.prio[mu[m].owner] <= j.prio[w]

Agrees(j, p, a, mu, h) ==
    /\ Base(j, p, a) /\ MutexesAgree(j, p, a, mu, h)
    /\ ~Nested => OneEach(p, h) /\ PrioritiesAgree(j, mu)

IInv == Agrees(k, pc, arg, mutex, held) /\ Executes(k, pc)

-----------------------------------------------------------------------------
(* Facts of a state that agrees.                                           *)

LEMMA Types ==
    /\ Mutex \subseteq WaitList /\ WaitList \subseteq ListHead /\ Idle \in Thread
    /\ RT_NULL \notin Thread /\ Flag \in IPCFlag /\ Nested \in BOOLEAN
    /\ Taker \subseteq Thread \ {Idle} /\ Sleepers \subseteq Thread \ {Idle}
    /\ HoldRange \in Nat /\ MaxTakes \in 1 .. HoldRange - 1
    /\ InitPrio \in [Thread -> Prio] /\ \A p \in Prio : p \in Int
BY MutexAssumption, CallersAssumption, KernelAssumption DEF ListHead, Prio

LEMMA BaseTypes ==
    ASSUME NEW j, NEW p, NEW a, Base(j, p, a)
    PROVE  /\ j.cur \in Thread /\ j.stat \in [Thread -> Stat]
           /\ j.error \in [Thread -> Error] /\ j.timer \subseteq Thread
           /\ j.prio \in [Thread -> Prio]
           /\ \A l \in WaitList : /\ j.list[l] \in Seq(Thread) /\ IsInjective(j.list[l])
                                  /\ ToSet(j.list[l]) \subseteq Thread
           /\ j.stat[j.cur] \in {"RUNNING", "SUSPEND"}
           /\ j.stat[Idle] \in {"READY", "RUNNING"}
           /\ \A l \in WaitList, t \in Thread : OnList(j, t, l) => j.stat[t] = "SUSPEND"
<1>1. /\ j.cur \in Thread /\ j.stat \in [Thread -> Stat]
      /\ j.error \in [Thread -> Error] /\ j.timer \subseteq Thread
      /\ j.prio \in [Thread -> Prio]
      /\ \A l \in WaitList : j.list[l] \in Seq(Thread)
  BY Types DEF Base, KernelState
<1>2. \A l \in WaitList : IsInjective(j.list[l])
  BY Types DEF Base, KernelInv, LinkedOnce
<1>3. \A l \in WaitList : ToSet(j.list[l]) \subseteq Thread
  BY Types, ListsHoldThreads DEF Base
<1>4. j.stat[j.cur] \in {"RUNNING", "SUSPEND"}
  BY <1>1 DEF Base, CallAgrees, KernelInv, OneRunning
<1>5. j.stat[Idle] \in {"READY", "RUNNING"}
  BY Types DEF Base, CallAgrees, InCall
<1>6. \A l \in WaitList, t \in Thread : OnList(j, t, l) => j.stat[t] = "SUSPEND"
  BY DEF Base, CallAgrees, KernelInv, WaitListsAgree, OnList
<1> QED BY <1>1, <1>2, <1>3, <1>4, <1>5, <1>6

\* the thread that executes, but in a call that waits
LEMMA CallerRuns ==
    ASSUME IInv, NEW t \in Thread, k.cur = t, pc[t] \notin {"wait", "sleep"}
    PROVE  /\ k.stat[t] = "RUNNING" /\ Base(k, pc, arg)
           /\ t \notin k.timer /\ \A l \in WaitList : ~OnList(k, t, l)
<1>1. k.stat[t] = "RUNNING" /\ Base(k, pc, arg)
  BY BaseTypes DEF IInv, Agrees, Executes
<1>2. t \notin k.timer
  BY <1>1 DEF Base, KernelInv, TimersAgree
<1> QED BY <1>1, <1>2, BaseTypes

\* What a step does to the kernel state, as far as the mutexes can tell: the
\* lists keep their order and lose threads that nobody can grant a mutex to.
LEMMA SameMutexes ==
    ASSUME NEW j, NEW r, NEW p, NEW a, NEW mu, NEW h, Agrees(j, p, a, mu, h),
           NEW q, NEW b, Base(r, q, b), r.prio = j.prio,
           \A m \in Mutex : r.list[m] = j.list[m],
           \A t \in Thread : InCall(q, t) <=> InCall(p, t),
           \A t \in Thread : InCall(p, t) => b[t] = a[t] /\ r.error[t] = j.error[t]
    PROVE  Agrees(r, q, b, mu, h)
<1>1. \A m \in Mutex, t \in Thread : Grants(r, q, b, h, t, m) = Grants(j, p, a, h, t, m)
  BY DEF Grants, GrantedIn, OnList
<1>2. MutexesAgree(r, q, b, mu, h)
  <2>1. MutexesAgree(j, p, a, mu, h)
    BY DEF Agrees
  <2>2. HoldsAgree(r, q, b, mu, h)
    BY <1>1, <2>1 DEF MutexesAgree, HoldsAgree
  <2>3. \A t \in Thread : InCall(q, t) => h[t][b[t]] = 0
    BY <2>1 DEF MutexesAgree
  <2> QED BY <2>1, <2>2, <2>3 DEF MutexesAgree
<1>3. OneEach(p, h) => OneEach(q, h)
  BY DEF OneEach
<1>4. PrioritiesAgree(j, mu) => PrioritiesAgree(r, mu)
  BY DEF PrioritiesAgree
<1> QED BY <1>2, <1>3, <1>4 DEF Agrees

\* rt_schedule leaves the waiters, the sleepers and their calls alone.
LEMMA ScheduleKeeps ==
    ASSUME NEW j, NEW p, NEW a, NEW mu, NEW h, Agrees(j, p, a, mu, h)
    PROVE  LET r == rt_schedule(j) IN Agrees(r, p, a, mu, h) /\ Executes(r, p)
<1> DEFINE r == rt_schedule(j)
<1>1. /\ r \in KernelState /\ KernelInv(r, {})
      /\ r.prio = j.prio /\ r.error = j.error /\ r.timer = j.timer /\ r.nest = j.nest
      /\ \A t \in Thread :
             \/ r.stat[t] = j.stat[t]
             \/ {r.stat[t], j.stat[t]} \subseteq {"READY", "RUNNING"}
      /\ \A l \in WaitList : r.list[l] = j.list[l]
      /\ BestRuns(r)
  <2>1. /\ j \in KernelState /\ KernelInv(j, {}) /\ j.stat[Idle] \in {"READY", "RUNNING"}
        /\ Idle \in Thread
        /\ j.nest = 0
    BY BaseTypes, CallersAssumption DEF Agrees, Base
  <2> HIDE DEF r
  <2> QED BY <2>1, SchedulePicks DEF r
<1> HIDE DEF r
<1>2. \A t \in Thread : CallAgrees(r, p, a, t)
  <2> SUFFICES ASSUME NEW t \in Thread PROVE CallAgrees(r, p, a, t)
    OBVIOUS
  <2>1. CallAgrees(j, p, a, t) /\ a[t] \in WaitList
    BY Types DEF Agrees, Base
  <2>2. \A l \in WaitList : OnList(r, t, l) <=> OnList(j, t, l)
    BY <1>1 DEF OnList
  <2>3. r.stat[t] = "SUSPEND" <=> j.stat[t] = "SUSPEND"
    BY <1>1
  <2>4. r.stat[t] \in {"READY", "RUNNING", "SUSPEND"}
    BY <1>1, <2>1 DEF CallAgrees
  <2> QED BY <1>1, <2>1, <2>2, <2>3, <2>4 DEF CallAgrees
<1>3. Base(r, p, a)
  BY <1>1, <1>2 DEF Agrees, Base
<1>4. Agrees(r, p, a, mu, h)
  BY <1>1, <1>3, Types, SameMutexes
<1>5. Executes(r, p)
  BY <1>1 DEF BestRuns, Executes
<1> QED BY <1>4, <1>5 DEF r

-----------------------------------------------------------------------------
(* What the steps have in common.                                          *)

\* thread t goes on at label l of the same call
LEMMA GotoPlaces ==
    ASSUME NEW j, NEW p, NEW a, Base(j, p, a), NEW t \in Thread, NEW l \in Label
    PROVE  LET q == [p EXCEPT ![t] = l] IN
           /\ q \in [Thread -> Label]
           /\ \A x \in Thread : q[x] = IF x = t THEN l ELSE p[x]
BY DEF Base

LEMMA GotoKeeps ==
    ASSUME NEW j, NEW p, NEW a, NEW mu, NEW h, Agrees(j, p, a, mu, h),
           NEW t \in Thread, t # Idle, NEW l \in Label,
           l \in {"wait", "woken"} <=> InCall(p, t),
           \/ j.stat[t] # "SUSPEND" \/ InCall(p, t)
           \/ l \in {"sleep", "slept"}
    PROVE  Agrees(j, [p EXCEPT ![t] = l], a, mu, h)
<1> DEFINE q == [p EXCEPT ![t] = l]
<1>1. /\ q \in [Thread -> Label]
      /\ \A x \in Thread : q[x] = IF x = t THEN l ELSE p[x]
  BY GotoPlaces DEF Agrees
<1> HIDE DEF q
<1>2. \A x \in Thread : InCall(q, x) <=> InCall(p, x)
  BY <1>1 DEF InCall
<1>3. \A x \in Thread : CallAgrees(j, q, a, x)
  <2> SUFFICES ASSUME NEW x \in Thread PROVE CallAgrees(j, q, a, x)
    OBVIOUS
  <2>1. CallAgrees(j, p, a, x)
    BY DEF Agrees, Base
  <2>2. CASE x = t
    BY <1>1, <1>2, <2>1, <2>2 DEF CallAgrees, InCall
  <2>3. CASE x # t
    BY <1>1, <1>2, <2>1, <2>3 DEF CallAgrees
  <2> QED BY <2>2, <2>3
<1>4. Base(j, q, a)
  BY <1>1, <1>3, Types DEF Agrees, Base
<1> QED BY <1>2, <1>4, SameMutexes DEF q

\* thread t, in no call that waits, has another error
LEMMA ErrorKeeps ==
    ASSUME NEW j, NEW p, NEW a, NEW mu, NEW h, Agrees(j, p, a, mu, h),
           NEW t \in Thread, ~InCall(p, t), NEW e \in Error
    PROVE  LET r == [j EXCEPT !.error[t] = e] IN
           /\ Agrees(r, p, a, mu, h)
           /\ Executes(j, p) => Executes(r, p)
           /\ r.cur = j.cur /\ r.stat = j.stat /\ r.prio = j.prio /\ r.list = j.list
           /\ r.error[t] = e
<1> DEFINE E == [j.error EXCEPT ![t] = e]
           r == [j EXCEPT !.error = E]
<1>1. j \in KernelState /\ KernelInv(j, {}) /\ Base(j, p, a)
  BY DEF Agrees, Base
<1>2. E \in [Thread -> Error] /\ \A x \in Thread : E[x] = IF x = t THEN e ELSE j.error[x]
  BY <1>1 DEF KernelState
<1>3. [j EXCEPT !.error[t] = e] = r
  BY <1>1 DEF KernelState
<1> HIDE DEF E
<1>4. /\ r \in KernelState /\ r.cur = j.cur /\ r.stat = j.stat /\ r.error = E
      /\ r.prio = j.prio /\ r.timer = j.timer /\ r.list = j.list
      /\ r.group = j.group /\ r.nest = j.nest
  BY <1>1, <1>2 DEF KernelState
<1> HIDE DEF r
<1>5. KernelInv(r, {})
  BY <1>1, <1>4, SameLists
<1>6. \A x \in Thread : CallAgrees(r, p, a, x)
  BY <1>1, <1>2, <1>4 DEF Base, CallAgrees, OnList
<1>7. Base(r, p, a)
  BY <1>1, <1>4, <1>5, <1>6 DEF Base
<1>8. Agrees(r, p, a, mu, h)
  BY <1>2, <1>4, <1>7, SameMutexes
<1> QED BY <1>2, <1>3, <1>4, <1>8 DEF Executes

-----------------------------------------------------------------------------
(* Inheritance.                                                            *)

\* rt_thread_change_priority of any thread, ready, executing or waiting: it
\* moves a ready thread to its other list, and touches no list of waiters.
LEMMA ChangePriority ==
    ASSUME NEW j \in KernelState, KernelInv(j, {}), NEW t \in Thread, NEW x \in Prio
    PROVE  LET r == rt_thread_change_priority(j, t, x) IN
           /\ r \in KernelState /\ KernelInv(r, {})
           /\ r.prio = [j.prio EXCEPT ![t] = x]
           /\ \A l \in WaitList : r.list[l] = j.list[l]
           /\ r.cur = j.cur /\ r.stat = j.stat /\ r.timer = j.timer
           /\ r.error = j.error /\ r.nest = j.nest
<1> DEFINE r == rt_thread_change_priority(j, t, x)
<1>1. CASE j.stat[t] = "READY"
  <2>1. t # j.cur  BY <1>1 DEF KernelInv, OneRunning
  <2>2. /\ r \in KernelState /\ KernelInv(r, {})
        /\ r.prio = [j.prio EXCEPT ![t] = x]
        /\ r.cur = j.cur /\ r.stat = j.stat /\ r.timer = j.timer /\ r.nest = j.nest
    <3> HIDE DEF r
    <3> QED BY <1>1, <2>1, ChangePriorityPreserves DEF r
  <2> DEFINE q == rt_schedule_remove_thread(j, t)
             s == [q EXCEPT !.prio[t] = x]
  <2>3. r = rt_schedule_insert_thread(s, t)
    BY <1>1 DEF rt_thread_change_priority
  <2>4. /\ q \in KernelState /\ q.cur = j.cur /\ q.error = j.error
        /\ \A l \in ListHead : q.list[l] = Without(j.list[l], t)
    <3>1. q \in KernelState /\ q.cur = j.cur /\ q.error = j.error
      <4> HIDE DEF q
      <4> QED BY TakeThread DEF q
    <3>2. \A l \in ListHead : q.list[l] = Without(j.list[l], t)
      BY DEF rt_schedule_remove_thread, rt_list_remove, KernelState
    <3> QED BY <3>1, <3>2
  <2> HIDE DEF q
  <2>5. /\ s.cur = j.cur /\ s.error = j.error /\ s.list = q.list
        /\ s.prio[t] = x /\ DOMAIN s.list = ListHead
        /\ s = [q EXCEPT !.prio = [q.prio EXCEPT ![t] = x]]
    BY <2>4 DEF KernelState
  <2>6. ASSUME NEW l \in WaitList PROVE r.list[l] = j.list[l]
    <3>1. l \in ListHead /\ l # x  BY KernelAssumption DEF ListHead
    <3>2. t \notin ToSet(j.list[l])
      BY <1>1 DEF KernelInv, WaitListsAgree
    <3>3. s.list[l] = j.list[l]
      BY <2>4, <2>5, <3>1, <3>2 DEF Without
    <3> HIDE DEF s, r
    <3>4. r.list[l] = s.list[l]
      <4> DEFINE z == [rt_list_insert_before(s, s.prio[t], t) EXCEPT
                          !.stat[t] = "READY", !.group = @ \cup {s.prio[t]}]
      <4>1. r = z  BY <2>1, <2>3, <2>5 DEF rt_schedule_insert_thread
      <4>2. z.list = [s.list EXCEPT ![x] = Append(@, t)]
        BY <2>4, <2>5 DEF rt_list_insert_before, KernelState
      <4> HIDE DEF z
      <4> QED BY <2>5, <3>1, <4>1, <4>2
    <3> QED BY <3>3, <3>4
  <2>7. r.error = j.error
    BY <2>1, <2>3, <2>4, <2>5 DEF rt_schedule_insert_thread, rt_list_insert_before, KernelState
  <2> QED BY <2>2, <2>6, <2>7
<1>2. CASE j.stat[t] # "READY"
  <2> DEFINE P == [j.prio EXCEPT ![t] = x]
             z == [j EXCEPT !.prio = P]
  <2>1. r = z  BY <1>2 DEF rt_thread_change_priority, KernelState
  <2>2. P \in [Thread -> Prio] /\ \A u \in Thread : u # t => P[u] = j.prio[u]
    BY DEF KernelState
  <2>3. /\ z \in KernelState /\ z.prio = P /\ z.list = j.list /\ z.group = j.group
        /\ z.cur = j.cur /\ z.stat = j.stat /\ z.timer = j.timer
        /\ z.error = j.error /\ z.nest = j.nest
    <3> HIDE DEF P
    <3> QED BY <2>2 DEF KernelState
  <2> HIDE DEF P, z
  <2>4. LinkedOnce(z) /\ GroupAgrees(z) /\ WaitListsAgree(z) /\ OneRunning(z) /\ TimersAgree(z)
    BY <2>3 DEF KernelInv, LinkedOnce, GroupAgrees, WaitListsAgree, OneRunning, TimersAgree
  <2>5. ReadyListsAgree(z, {})
    <3>1. ASSUME NEW p \in Prio, NEW u \in ToSet(z.list[p])
          PROVE  z.stat[u] = "READY" /\ z.prio[u] = p
      <4>1. j.stat[u] = "READY" /\ j.prio[u] = p
        BY <2>3, <3>1 DEF KernelInv, ReadyListsAgree
      <4>2. u \in Thread
        BY <2>3, ListsHoldThreads DEF ListHead
      <4> QED BY <1>2, <2>2, <2>3, <4>1, <4>2
    <3>2. ASSUME NEW u \in Thread \ {}, z.stat[u] = "READY"
          PROVE  OnList(z, u, z.prio[u])
      BY <1>2, <2>2, <2>3, <3>2 DEF KernelInv, ReadyListsAgree, OnList
    <3> QED BY <3>1, <3>2 DEF ReadyListsAgree
  <2> QED BY <2>1, <2>3, <2>4, <2>5 DEF KernelInv, P
<1> QED BY <1>1, <1>2

\* A list keeps its order when the priority of a thread that is not on it changes.
LEMMA OrderKept ==
    ASSUME NEW s \in Seq(Thread), NEW P, NEW Q, SortedBy(s, P),
           \A u \in ToSet(s) : Q[u] = P[u]
    PROVE  SortedBy(s, Q)
<1>1. \A i \in DOMAIN s : s[i] \in ToSet(s)
  BY DEF ToSet
<1> QED BY <1>1 DEF SortedBy

\* With one mutex each, an owner waits for none.
LEMMA OwnerDoesNotWait ==
    ASSUME NEW j, NEW p, NEW a, NEW mu, NEW h, Agrees(j, p, a, mu, h), ~Nested,
           NEW m \in Mutex, NEW t \in Thread, mu[m].owner = t
    PROVE  /\ \A n \in Mutex : ~OnList(j, t, n)
           /\ \A n \in Mutex : mu[n].owner = t => n = m
<1>1. /\ HoldsAgree(j, p, a, mu, h) /\ OneEach(p, h)
      /\ \A n \in Mutex : h[t][n] \in Nat
      /\ \A n \in Mutex : OnList(j, t, n) => InCall(p, t) /\ a[t] = n
  BY Types DEF Agrees, MutexesAgree, Base, CallAgrees
<1>2. ASSUME NEW n \in Mutex, mu[n].owner = t
      PROVE  h[t][n] > 0 \/ (InCall(p, t) /\ a[t] = n /\ ~OnList(j, t, n))
  BY <1>1, <1>2 DEF HoldsAgree, Grants, GrantedIn
<1>3. ASSUME NEW n \in Mutex PROVE ~OnList(j, t, n)
  BY <1>1, <1>2 DEF OneEach
<1>4. ASSUME NEW n \in Mutex, mu[n].owner = t PROVE n = m
  BY <1>1, <1>2, <1>4 DEF OneEach
<1> QED BY <1>3, <1>4

\* Another priority of one thread leaves all but the priorities alone.
LEMMA PriorityKeeps ==
    ASSUME NEW j, NEW p, NEW a, NEW mu, NEW h, Base(j, p, a), MutexesAgree(j, p, a, mu, h),
           NEW t \in Thread, NEW x \in Prio
    PROVE  LET r == rt_thread_change_priority(j, t, x) IN
           /\ Base(r, p, a) /\ MutexesAgree(r, p, a, mu, h)
           /\ r.prio = [j.prio EXCEPT ![t] = x]
           /\ \A l \in WaitList : r.list[l] = j.list[l]
           /\ r.cur = j.cur /\ r.stat = j.stat /\ r.error = j.error
<1> DEFINE r == rt_thread_change_priority(j, t, x)
<1>1. /\ r \in KernelState /\ KernelInv(r, {})
      /\ r.prio = [j.prio EXCEPT ![t] = x]
      /\ \A l \in WaitList : r.list[l] = j.list[l]
      /\ r.cur = j.cur /\ r.stat = j.stat /\ r.timer = j.timer
      /\ r.error = j.error /\ r.nest = j.nest
  <2>1. j \in KernelState /\ KernelInv(j, {})  BY DEF Base
  <2> HIDE DEF r
  <2> QED BY <2>1, ChangePriority DEF r
<1> HIDE DEF r
<1>2. \A y \in Thread : CallAgrees(r, p, a, y)
  <2> SUFFICES ASSUME NEW y \in Thread PROVE CallAgrees(r, p, a, y)
    OBVIOUS
  <2>1. CallAgrees(j, p, a, y) /\ a[y] \in WaitList
    BY Types DEF Base
  <2>2. \A l \in WaitList : OnList(r, y, l) <=> OnList(j, y, l)
    BY <1>1 DEF OnList
  <2> QED BY <1>1, <2>1, <2>2 DEF CallAgrees
<1>3. Base(r, p, a)
  BY <1>1, <1>2 DEF Base
<1>4. \A m \in Mutex, y \in Thread : Grants(r, p, a, h, y, m) = Grants(j, p, a, h, y, m)
  BY <1>1, Types DEF Grants, GrantedIn, OnList
<1>5. HoldsAgree(r, p, a, mu, h)
  BY <1>4 DEF MutexesAgree, HoldsAgree
<1>6. MutexesAgree(r, p, a, mu, h)
  BY <1>1, <1>5, Types DEF MutexesAgree
<1> QED BY <1>1, <1>3, <1>6 DEF r

-----------------------------------------------------------------------------
(* rt_mutex_take                                                           *)

\* t has been put into the list of m, and r is what was j
NowListed(r, j, m, t) ==
    /\ r.stat[t] = "SUSPEND"
    /\ r.prio = j.prio /\ r.error = j.error /\ r.cur = j.cur
    /\ \A l \in WaitList : l # m => r.list[l] = j.list[l]
    /\ ToSet(r.list[m]) = ToSet(j.list[m]) \cup {t}
    /\ Flag = "PRIO" /\ SortedBy(j.list[m], j.prio) => SortedBy(r.list[m], j.prio)

\* rt_ipc_list_suspend puts the running thread in the list, in its place.
LEMMA SuspendEffect ==
    ASSUME NEW j, NEW p, NEW a, Base(j, p, a), NEW t \in Thread, t # Idle,
           j.stat[t] = "RUNNING", j.error[t] = "EOK", NEW m \in Mutex,
           NEW r, r = rt_ipc_list_suspend(j, m, t, Flag)
    PROVE  /\ Base(r, [p EXCEPT ![t] = "wait"], [a EXCEPT ![t] = m])
           /\ NowListed(r, j, m, t)
<1> DEFINE q == [p EXCEPT ![t] = "wait"]
           b == [a EXCEPT ![t] = m]
<1>1. j \in KernelState /\ KernelInv(j, {}) /\ m \in WaitList /\ Flag \in IPCFlag
      /\ j.stat[t] \in {"READY", "RUNNING"}
  BY Types DEF Base
<1>2. /\ r \in KernelState /\ KernelInv(r, {})
      /\ \A l \in WaitList : l # m => r.list[l] = j.list[l]
      /\ ToSet(r.list[m]) = ToSet(j.list[m]) \cup {t}
      /\ Flag = "PRIO" /\ SortedBy(j.list[m], j.prio) => SortedBy(r.list[m], j.prio)
      /\ r.stat = [j.stat EXCEPT ![t] = "SUSPEND"]
      /\ r.timer = j.timer \ {t}
      /\ r.cur = j.cur /\ r.prio = j.prio /\ r.error = j.error /\ r.nest = j.nest
  <2>1. r \in KernelState /\ KernelInv(r, {}) /\ AsleepOn(r, j, t, m, Flag)
    BY <1>1, IpcSuspendPreserves
  <2> QED BY <2>1 DEF AsleepOn
<1>3. /\ q \in [Thread -> Label] /\ b \in [Thread -> Mutex]
      /\ \A x \in Thread : q[x] = IF x = t THEN "wait" ELSE p[x]
      /\ \A x \in Thread : b[x] = IF x = t THEN m ELSE a[x]
  BY DEF Base, Label
<1> HIDE DEF q, b
<1>4. \A x \in Thread : r.stat[x] = IF x = t THEN "SUSPEND" ELSE j.stat[x]
  BY <1>1, <1>2 DEF KernelState
<1>5. \A x \in Thread, l \in WaitList :
          OnList(r, x, l) <=> OnList(j, x, l) \/ (x = t /\ l = m)
  BY <1>2 DEF OnList
<1>6. \A x \in Thread : CallAgrees(r, q, b, x)
  <2> SUFFICES ASSUME NEW x \in Thread PROVE CallAgrees(r, q, b, x)
    OBVIOUS
  <2>1. CallAgrees(j, p, a, x) /\ a[x] \in WaitList
    BY Types DEF Base
  <2>2. CASE x = t
    <3>1. \A l \in WaitList : ~OnList(j, t, l)
      BY BaseTypes
    <3>2. r.error[t] = "EOK" /\ InCall(q, t) /\ b[t] = m
      BY <1>2, <1>3 DEF InCall
    <3> QED BY <1>1, <1>4, <1>5, <2>2, <3>1, <3>2 DEF CallAgrees
  <2>3. CASE x # t
    <3>1. r.error[x] = j.error[x] /\ (InCall(q, x) <=> InCall(p, x)) /\ b[x] = a[x]
          /\ q[x] = p[x] /\ (x \in j.timer => x \in r.timer)
      BY <1>2, <1>3, <2>3 DEF InCall
    <3> QED BY <1>4, <1>5, <2>1, <2>3, <3>1 DEF CallAgrees
  <2> QED BY <2>2, <2>3
<1>7. Base(r, q, b)
  BY <1>2, <1>3, <1>6, Types DEF Base
<1>8. NowListed(r, j, m, t)
  BY <1>2, <1>4 DEF NowListed
<1> QED BY <1>7, <1>8 DEF q, b

\* The timer of a thread that waits is started.
LEMMA TimerKeeps ==
    ASSUME NEW j, NEW p, NEW a, Base(j, p, a), NEW t \in Thread, j.stat[t] = "SUSPEND"
    PROVE  LET r == rt_timer_start(j, t) IN
           /\ Base(r, p, a) /\ r.list = j.list
           /\ r.prio = j.prio /\ r.error = j.error /\ r.cur = j.cur
<1> DEFINE r == rt_timer_start(j, t)
<1>1. /\ r \in KernelState /\ KernelInv(r, {})
      /\ r.timer = j.timer \cup {t} /\ r.list = j.list
      /\ r.cur = j.cur /\ r.stat = j.stat
      /\ r.prio = j.prio /\ r.error = j.error /\ r.nest = j.nest
  <2>1. j \in KernelState /\ KernelInv(j, {})  BY DEF Base
  <2> HIDE DEF r
  <2> QED BY <2>1, TimerStartPreserves DEF r
<1> HIDE DEF r
<1>2. \A x \in Thread : CallAgrees(r, p, a, x)
  BY <1>1 DEF Base, CallAgrees, OnList
<1>3. Base(r, p, a)
  BY <1>1, <1>2 DEF Base
<1> QED BY <1>1, <1>3 DEF r

\* What a call of rt_mutex_take finds: a mutex that t does not own has an owner.
LEMMA MayTakeFacts ==
    ASSUME IInv, NEW t \in Thread, NEW m \in Mutex, MayTake(t, m)
    PROVE  /\ k.cur = t /\ pc[t] = "user" /\ t # Idle /\ ~InCall(pc, t)
           /\ k.stat[t] = "RUNNING" /\ \A l \in WaitList : ~OnList(k, t, l)
           /\ \A n \in Mutex : Grants(k, pc, arg, held, t, n) = held[t][n]
           /\ \A n \in Mutex : mutex[n].owner # t => held[t][n] = 0
           /\ mutex[m].owner = t => mutex[m].hold = held[t][m]
           /\ \A n \in Mutex : held[t][n] \in Nat
           /\ held[t][m] + 1 \in 1 .. MaxTakes
           /\ Cleared(t) = [k EXCEPT !.error[t] = "EOK"]
           /\ ~Nested => \A n \in Mutex : n # m => held[t][n] = 0
           /\ Agrees(k, pc, arg, mutex, held) /\ "EOK" \in Error
<1>1. k.cur = t /\ pc[t] = "user" /\ t \in Taker /\ held[t][m] < MaxTakes
      /\ (Nested \/ \A n \in Mutex \ {m} : held[t][n] = 0)
      /\ ~InCall(pc, t)
  BY DEF MayTake, At, InCall
<1>2. k.stat[t] = "RUNNING" /\ \A l \in WaitList : ~OnList(k, t, l)
  BY <1>1, CallerRuns
<1>3. held \in [Thread -> [Mutex -> 0 .. MaxTakes]] /\ HoldsAgree(k, pc, arg, mutex, held)
  BY DEF IInv, Agrees, MutexesAgree
<1>4. \A n \in Mutex : held[t][n] \in 0 .. MaxTakes /\ held[t][n] \in Nat
  BY <1>3, Types
<1>5. \A n \in Mutex : Grants(k, pc, arg, held, t, n) = held[t][n]
  BY <1>1, <1>4 DEF Grants, GrantedIn
<1>6. /\ \A n \in Mutex : mutex[n].owner # t => held[t][n] = 0
      /\ mutex[m].owner = t => mutex[m].hold = held[t][m]
  BY <1>3, <1>5 DEF HoldsAgree
<1>7. held[t][m] \in Nat /\ held[t][m] + 1 \in 1 .. MaxTakes
  BY <1>1, <1>4, Types
<1> QED BY <1>1, <1>2, <1>4, <1>5, <1>6, <1>7, Types DEF Cleared, IInv, Error

\* Thread t, in no call that waits, has one more take of m, which was its own
\* already or free.
LEMMA OneMoreTake ==
    ASSUME NEW j, NEW p, NEW a, NEW mu, NEW h, Agrees(j, p, a, mu, h),
           NEW t \in Thread, t # Idle, ~InCall(p, t), NEW m \in Mutex,
           mu[m].owner \in {t, RT_NULL}, h[t][m] + 1 \in 1 .. MaxTakes,
           ~Nested => \A n \in Mutex : n # m => h[t][n] = 0,
           NEW o \in MutexState, o.owner = t, o.value = 0, o.hold = h[t][m] + 1,
           o.original_priority =
               IF mu[m].owner = t THEN mu[m].original_priority ELSE j.prio[t]
    PROVE  Agrees(j, p, a, [mu EXCEPT ![m] = o], [h EXCEPT ![t][m] = @ + 1])
<1> DEFINE mu2 == [mu EXCEPT ![m] = o]
           h2  == [h EXCEPT ![t][m] = @ + 1]
<1>1. /\ mu \in [Mutex -> MutexState] /\ h \in [Thread -> [Mutex -> 0 .. MaxTakes]]
      /\ HoldsAgree(j, p, a, mu, h) /\ Base(j, p, a)
  BY DEF Agrees, MutexesAgree
<1>2. /\ mu2 \in [Mutex -> MutexState] /\ h2 \in [Thread -> [Mutex -> 0 .. MaxTakes]]
      /\ \A n \in Mutex : mu2[n] = IF n = m THEN o ELSE mu[n]
      /\ \A x \in Thread, n \in Mutex :
             h2[x][n] = IF x = t /\ n = m THEN h[t][m] + 1 ELSE h[x][n]
  BY <1>1, Types
<1>3. \A x \in Thread, n \in Mutex : h[x][n] \in Nat
  BY <1>1, Types
<1> HIDE DEF mu2, h2
<1>4. \A x \in Thread, n \in Mutex : Grants(j, p, a, h2, x, n) =
          IF x = t /\ n = m THEN h[t][m] + 1 ELSE Grants(j, p, a, h, x, n)
  BY <1>2, <1>3 DEF Grants, GrantedIn
<1>5. HoldsAgree(j, p, a, mu2, h2)
  <2> SUFFICES ASSUME NEW n \in Mutex, NEW x \in Thread
               PROVE  /\ mu2[n].owner = x => /\ mu2[n].hold = Grants(j, p, a, h2, x, n)
                                             /\ Grants(j, p, a, h2, x, n) > 0
                      /\ mu2[n].owner # x => Grants(j, p, a, h2, x, n) = 0
    BY DEF HoldsAgree
  <2>1. CASE n # m
    BY <1>1, <1>2, <1>4, <2>1 DEF HoldsAgree
  <2>2. CASE n = m /\ x = t
    BY <1>2, <1>3, <1>4, <2>2
  <2>3. CASE n = m /\ x # t
    <3>1. mu[m].owner # x  BY <2>3, Types
    <3> QED BY <1>1, <1>2, <1>4, <2>3, <3>1 DEF HoldsAgree
  <2> QED BY <2>1, <2>2, <2>3
<1>6. MutexesAgree(j, p, a, mu2, h2)
  <2>1. MutexesAgree(j, p, a, mu, h)  BY DEF Agrees
  <2>2. \A x \in Thread : InCall(p, x) => h2[x][a[x]] = 0
    BY <1>1, <1>2, <2>1 DEF MutexesAgree, Base
  <2>3. \A n \in Mutex : h2[Idle][n] = 0
    BY <1>2, <2>1, Types DEF MutexesAgree
  <2>4. \A n \in Mutex : /\ mu2[n].owner = RT_NULL => mu2[n] = Free
                         /\ mu2[n].owner # RT_NULL =>
                                mu2[n].value = 0 /\ mu2[n].original_priority \in Prio
    <3>1. o.original_priority \in Prio
      BY <1>1, <2>1, BaseTypes, Types DEF MutexesAgree
    <3> QED BY <1>2, <2>1, <3>1, Types DEF MutexesAgree
  <2>5. \A n \in Mutex : ToSet(j.list[n]) # {} => mu2[n].owner # RT_NULL
    BY <1>2, <2>1, Types DEF MutexesAgree
  <2> QED BY <1>2, <1>5, <2>2, <2>3, <2>4, <2>5 DEF MutexesAgree
<1>7. ASSUME ~Nested PROVE OneEach(p, h2) /\ PrioritiesAgree(j, mu2)
  <2>1. OneEach(p, h) /\ PrioritiesAgree(j, mu) /\ \A n \in Mutex : n # m => h[t][n] = 0
    BY <1>7 DEF Agrees
  <2>2. OneEach(p, h2)
    BY <1>2, <1>3, <2>1 DEF OneEach
  <2>3. \A n \in Mutex : n # m => mu[n].owner # t
    BY <1>1, <1>3, <2>1 DEF HoldsAgree, Grants, GrantedIn
  <2>4. o.original_priority = InitPrio[t]
    BY <2>1, <2>3, Types DEF PrioritiesAgree
  <2>5. \A w \in ToSet(j.list[m]) : mu[m].owner = t
    <3>1. MutexesAgree(j, p, a, mu, h)  BY DEF Agrees
    <3> QED BY <3>1 DEF MutexesAgree
  <2>6. \A x \in Thread : (\A n \in Mutex : mu2[n].owner # x) => j.prio[x] = InitPrio[x]
    <3> SUFFICES ASSUME NEW x \in Thread, \A n \in Mutex : mu2[n].owner # x
                 PROVE  j.prio[x] = InitPrio[x]
      OBVIOUS
    <3>1. x # t  BY <1>2
    <3>2. \A n \in Mutex : mu[n].owner # x  BY <1>2, <3>1, Types
    <3> QED BY <2>1, <3>2 DEF PrioritiesAgree
  <2>7. \A n \in Mutex : mu2[n].owner # RT_NULL =>
            mu2[n].original_priority = InitPrio[mu2[n].owner]
    BY <1>2, <2>1, <2>4 DEF PrioritiesAgree
  <2>8. ASSUME Flag = "PRIO", NEW n \in Mutex
        PROVE  /\ SortedBy(j.list[n], j.prio)
               /\ \A w \in ToSet(j.list[n]) : j.prio[mu2[n].owner] <= j.prio[w]
    BY <1>2, <2>1, <2>5, <2>8 DEF PrioritiesAgree
  <2>9. PrioritiesAgree(j, mu2)
    BY <2>6, <2>7, <2>8 DEF PrioritiesAgree
  <2> QED BY <2>2, <2>9
<1> QED BY <1>1, <1>6, <1>7 DEF Agrees, mu2, h2

LEMMA TakeAgainKeeps ==
    ASSUME IInv, NEW t \in Thread, NEW m \in Mutex, TakeAgain(t, m)
    PROVE  IInv'
<1> DEFINE o == [mutex[m] EXCEPT !.hold = held[t][m] + 1]
<1>1. /\ MayTake(t, m) /\ mutex[m].owner = t /\ k' = Cleared(t)
      /\ mutex' = [mutex EXCEPT ![m].hold = (@ + 1) % HoldRange]
      /\ pc' = [pc EXCEPT ![t] = "user"] /\ arg' = arg
      /\ held' = [held EXCEPT ![t][m] = @ + 1]
  BY DEF TakeAgain, Goto, Succeeds
<1>2. /\ k.cur = t /\ pc[t] = "user" /\ t # Idle /\ ~InCall(pc, t)
      /\ mutex[m].hold = held[t][m] /\ held[t][m] \in Nat /\ held[t][m] + 1 \in 1 .. MaxTakes
      /\ Cleared(t) = [k EXCEPT !.error[t] = "EOK"]
      /\ ~Nested => \A n \in Mutex : n # m => held[t][n] = 0
      /\ Agrees(k, pc, arg, mutex, held) /\ "EOK" \in Error
  BY <1>1, MayTakeFacts
<1>3. Agrees(k', pc, arg, mutex, held) /\ Executes(k', pc)
  BY <1>1, <1>2, ErrorKeeps DEF IInv
<1>4. mutex \in [Mutex -> MutexState] /\ mutex[m].value = 0 /\ pc \in [Thread -> Label]
  BY <1>1, <1>2, Types DEF Agrees, MutexesAgree, Base
<1>5. pc' = pc
  BY <1>1, <1>2, <1>4
<1>6. (held[t][m] + 1) % HoldRange = held[t][m] + 1
  BY <1>2, Types
<1>7. /\ o \in MutexState /\ o.owner = t /\ o.value = 0 /\ o.hold = held[t][m] + 1
      /\ o.original_priority = mutex[m].original_priority
  BY <1>1, <1>2, <1>4, Types DEF MutexState
<1>8. mutex' = [mutex EXCEPT ![m] = o]
  BY <1>1, <1>2, <1>4, <1>6 DEF MutexState
<1> HIDE DEF o
<1>9. Agrees(k', pc', arg', mutex', held')
  <2>1. /\ mutex[m].owner \in {t, RT_NULL}
        /\ o.original_priority = IF mutex[m].owner = t THEN mutex[m].original_priority
                                 ELSE k'.prio[t]
    BY <1>1, <1>7
  <2>2. Agrees(k', pc, arg, [mutex EXCEPT ![m] = o], [held EXCEPT ![t][m] = @ + 1])
    BY <1>2, <1>3, <1>7, <2>1, OneMoreTake
  <2> QED BY <1>1, <1>5, <1>8, <2>2
<1> QED BY <1>3, <1>5, <1>9 DEF IInv

LEMMA TakeFreeKeeps ==
    ASSUME IInv, NEW t \in Thread, NEW m \in Mutex, TakeFree(t, m)
    PROVE  IInv'
<1> DEFINE o == Owned(t, held[t][m] + 1)
<1>1. /\ MayTake(t, m) /\ mutex[m].owner # t /\ mutex[m].value > 0 /\ k' = Cleared(t)
      /\ mutex' = [mutex EXCEPT ![m] = Owned(t, (mutex[m].hold + 1) % HoldRange)]
      /\ pc' = [pc EXCEPT ![t] = "user"] /\ arg' = arg
      /\ held' = [held EXCEPT ![t][m] = @ + 1]
  BY DEF TakeFree, Goto, Succeeds, IInv, Agrees, MutexesAgree
<1>2. /\ k.cur = t /\ pc[t] = "user" /\ t # Idle /\ ~InCall(pc, t)
      /\ held[t][m] = 0 /\ held[t][m] + 1 \in 1 .. MaxTakes
      /\ Cleared(t) = [k EXCEPT !.error[t] = "EOK"]
      /\ ~Nested => \A n \in Mutex : n # m => held[t][n] = 0
      /\ Agrees(k, pc, arg, mutex, held) /\ "EOK" \in Error
  BY <1>1, MayTakeFacts
<1>3. Agrees(k', pc, arg, mutex, held) /\ Executes(k', pc) /\ k'.prio = k.prio
  BY <1>1, <1>2, ErrorKeeps DEF IInv
<1>4. pc \in [Thread -> Label] /\ k.prio \in [Thread -> Prio]
  BY <1>2, BaseTypes DEF Agrees, Base
<1>5. pc' = pc
  BY <1>1, <1>2, <1>4
<1>6. mutex[m].owner = RT_NULL /\ mutex[m].hold = 0
  <2>1. mutex[m].owner = RT_NULL
    BY <1>1, <1>2 DEF Agrees, MutexesAgree
  <2> QED BY <1>2, <2>1 DEF Agrees, MutexesAgree, Free
<1>7. mutex' = [mutex EXCEPT ![m] = o]
  <2>1. (mutex[m].hold + 1) % HoldRange = held[t][m] + 1
    BY <1>2, <1>6, Types
  <2> QED BY <1>1, <2>1
<1>8. /\ o \in MutexState /\ o.owner = t /\ o.value = 0 /\ o.hold = held[t][m] + 1
      /\ o.original_priority = k.prio[t]
  BY <1>2, <1>4, Types DEF MutexState, Owned
<1> HIDE DEF o
<1>9. Agrees(k', pc', arg', mutex', held')
  <2>1. /\ mutex[m].owner \in {t, RT_NULL}
        /\ o.original_priority = IF mutex[m].owner = t THEN mutex[m].original_priority
                                 ELSE k'.prio[t]
    BY <1>1, <1>3, <1>6, <1>8
  <2>2. Agrees(k', pc, arg, [mutex EXCEPT ![m] = o], [held EXCEPT ![t][m] = @ + 1])
    BY <1>2, <1>3, <1>8, <2>1, OneMoreTake
  <2> QED BY <1>1, <1>5, <1>7, <2>2
<1> QED BY <1>3, <1>5, <1>9 DEF IInv

\* A call that only leaves an error behind.
LEMMA FailedKeeps ==
    ASSUME IInv, NEW t \in Thread, At(t, "user"), NEW e \in Error,
           Goto(t, [k EXCEPT !.error[t] = e], "user"), UNCHANGED <<mutex, arg, held>>
    PROVE  IInv'
<1>1. /\ pc[t] = "user" /\ ~InCall(pc, t) /\ k' = [k EXCEPT !.error[t] = e]
      /\ mutex' = mutex /\ arg' = arg /\ held' = held
      /\ Agrees(k, pc, arg, mutex, held) /\ Executes(k, pc) /\ pc' = pc
  BY DEF At, Goto, InCall, IInv, Agrees, Base
<1>2. Agrees(k', pc, arg, mutex, held) /\ Executes(k', pc)
  BY <1>1, ErrorKeeps
<1> QED BY <1>1, <1>2 DEF IInv

\* The owner has the best of its priority and that of the thread that will wait.
LEMMA InheritsEffect ==
    ASSUME NEW j, NEW p, NEW a, NEW mu, NEW h, Base(j, p, a), MutexesAgree(j, p, a, mu, h),
           NEW t \in Thread, NEW o \in Thread
    PROVE  LET r == Inherits(j, t, o) IN
           /\ Base(r, p, a) /\ MutexesAgree(r, p, a, mu, h)
           /\ r.prio[o] <= j.prio[t] /\ r.prio[o] <= j.prio[o]
           /\ \A x \in Thread : x # o => r.prio[x] = j.prio[x]
           /\ \A l \in WaitList : r.list[l] = j.list[l]
           /\ r.cur = j.cur /\ r.stat = j.stat /\ r.error = j.error
<1> DEFINE r == Inherits(j, t, o)
<1>1. j.prio \in [Thread -> Prio] /\ j.prio[t] \in Prio /\ j.prio[t] \in Int /\ j.prio[o] \in Int
  BY BaseTypes, Types
<1>2. CASE j.prio[t] < j.prio[o]
  <2> DEFINE z == rt_thread_change_priority(j, o, j.prio[t])
  <2>1. /\ Base(z, p, a) /\ MutexesAgree(z, p, a, mu, h)
        /\ z.prio = [j.prio EXCEPT ![o] = j.prio[t]]
        /\ \A l \in WaitList : z.list[l] = j.list[l]
        /\ z.cur = j.cur /\ z.stat = j.stat /\ z.error = j.error
    <3> HIDE DEF z
    <3> QED BY <1>1, PriorityKeeps DEF z
  <2>2. r = z  BY <1>2 DEF Inherits
  <2> HIDE DEF r, z
  <2>3. r.prio[o] <= j.prio[t] /\ r.prio[o] <= j.prio[o]
    BY <1>1, <1>2, <2>1, <2>2
  <2>4. \A x \in Thread : x # o => r.prio[x] = j.prio[x]
    BY <1>1, <2>1, <2>2
  <2> QED BY <2>1, <2>2, <2>3, <2>4 DEF r
<1>3. CASE ~(j.prio[t] < j.prio[o])
  <2>1. r = j  BY <1>3 DEF Inherits
  <2> HIDE DEF r
  <2>2. j.prio[o] <= j.prio[t] /\ j.prio[o] <= j.prio[o]
    BY <1>1, <1>3
  <2> QED BY <2>1, <2>2 DEF r
<1> QED BY <1>2, <1>3

LEMMA TakeWaitKeeps ==
    ASSUME IInv, NEW t \in Thread, NEW m \in Mutex, NEW time, TakeWait(t, m, time)
    PROVE  IInv'
<1> DEFINE c == Cleared(t)
           o == mutex[m].owner
           b == Inherits(c, t, o)
           listed == rt_ipc_list_suspend(b, m, t, Flag)
           r == IF time = "ticks" THEN rt_timer_start(listed, t) ELSE listed
<1>1. /\ MayTake(t, m) /\ o # t /\ mutex[m].value = 0 /\ k' = r
      /\ pc' = [pc EXCEPT ![t] = "wait"] /\ arg' = [arg EXCEPT ![t] = m]
      /\ mutex' = mutex /\ held' = held
  BY DEF TakeWait, Taken, Goto
<1>2. /\ k.cur = t /\ pc[t] = "user" /\ t # Idle /\ ~InCall(pc, t) /\ k.stat[t] = "RUNNING"
      /\ \A l \in WaitList : ~OnList(k, t, l)
      /\ \A n \in Mutex : mutex[n].owner # t => held[t][n] = 0
      /\ \A n \in Mutex : held[t][n] \in Nat
      /\ ~Nested => \A n \in Mutex : n # m => held[t][n] = 0
      /\ c = [k EXCEPT !.error[t] = "EOK"]
      /\ Agrees(k, pc, arg, mutex, held) /\ "EOK" \in Error
  BY <1>1, MayTakeFacts
<1>3. o \in Thread
  BY <1>1, <1>2 DEF Agrees, MutexesAgree, MutexState, Free
<1> HIDE DEF c
<1>4. /\ Agrees(c, pc, arg, mutex, held) /\ c.cur = k.cur /\ c.stat = k.stat
      /\ c.prio = k.prio /\ c.list = k.list /\ c.error[t] = "EOK"
  BY <1>2, ErrorKeeps
<1> HIDE DEF o, b
<1>5. /\ Base(b, pc, arg) /\ MutexesAgree(b, pc, arg, mutex, held)
      /\ b.prio[o] <= k.prio[t] /\ b.prio[o] <= k.prio[o]
      /\ \A x \in Thread : x # o => b.prio[x] = k.prio[x]
      /\ \A l \in WaitList : b.list[l] = k.list[l]
      /\ b.cur = k.cur /\ b.stat = k.stat /\ b.error = c.error
  <2>1. Base(c, pc, arg) /\ MutexesAgree(c, pc, arg, mutex, held)
    BY <1>4 DEF Agrees
  <2> DEFINE z == Inherits(c, t, o)
  <2>2. /\ Base(z, pc, arg) /\ MutexesAgree(z, pc, arg, mutex, held)
        /\ z.prio[o] <= c.prio[t] /\ z.prio[o] <= c.prio[o]
        /\ \A x \in Thread : x # o => z.prio[x] = c.prio[x]
        /\ \A l \in WaitList : z.list[l] = c.list[l]
        /\ z.cur = c.cur /\ z.stat = c.stat /\ z.error = c.error
    <3> HIDE DEF z
    <3> QED BY <1>3, <2>1, InheritsEffect DEF z
  <2> HIDE DEF z
  <2>3. b = z  BY DEF b, z
  <2> QED BY <1>4, <2>2, <2>3
<1>6. /\ Base(r, pc', arg')
      /\ r.prio = b.prio /\ r.error = b.error /\ r.cur = b.cur
      /\ \A l \in WaitList : l # m => r.list[l] = b.list[l]
      /\ ToSet(r.list[m]) = ToSet(b.list[m]) \cup {t}
      /\ Flag = "PRIO" /\ SortedBy(b.list[m], b.prio) => SortedBy(r.list[m], b.prio)
  <2>1. b.stat[t] = "RUNNING" /\ b.error[t] = "EOK"
    BY <1>2, <1>4, <1>5
  <2>2. /\ Base(listed, [pc EXCEPT ![t] = "wait"], [arg EXCEPT ![t] = m])
        /\ listed.stat[t] = "SUSPEND"
        /\ listed.prio = b.prio /\ listed.error = b.error /\ listed.cur = b.cur
        /\ \A l \in WaitList : l # m => listed.list[l] = b.list[l]
        /\ ToSet(listed.list[m]) = ToSet(b.list[m]) \cup {t}
        /\ Flag = "PRIO" /\ SortedBy(b.list[m], b.prio) =>
               SortedBy(listed.list[m], b.prio)
    <3>1. Base(b, pc, arg) /\ t # Idle  BY <1>2, <1>5
    <3> HIDE DEF listed, r
    <3>2. Base(listed, [pc EXCEPT ![t] = "wait"], [arg EXCEPT ![t] = m])
      BY <2>1, <3>1, SuspendEffect DEF listed
    <3>3. NowListed(listed, b, m, t)
      BY <2>1, <3>1, SuspendEffect DEF listed
    <3> QED BY <3>2, <3>3 DEF NowListed
  <2> HIDE DEF listed
  <2>3. CASE time = "ticks"
    <3> DEFINE z == rt_timer_start(listed, t)
    <3>1. /\ Base(z, pc', arg') /\ z.list = listed.list
          /\ z.prio = listed.prio /\ z.error = listed.error /\ z.cur = listed.cur
      <4>1. Base(listed, pc', arg')  BY <1>1, <2>2
      <4> HIDE DEF z, r
      <4> QED BY <2>2, <4>1, TimerKeeps DEF z
    <3>2. r = z  BY <2>3
    <3> HIDE DEF z, r
    <3> QED BY <2>2, <3>1, <3>2
  <2>4. CASE time # "ticks"
    <3>1. r = listed  BY <2>4
    <3> HIDE DEF r
    <3> QED BY <1>1, <2>2, <3>1
  <2> QED BY <2>3, <2>4
<1> HIDE DEF r
<1>7. /\ \A x \in Thread : pc'[x] = IF x = t THEN "wait" ELSE pc[x]
      /\ \A x \in Thread : arg'[x] = IF x = t THEN m ELSE arg[x]
      /\ \A x \in Thread : InCall(pc', x) <=> InCall(pc, x) \/ x = t
  BY <1>1, <1>5 DEF Base, InCall
<1>8. \A x \in Thread, l \in WaitList :
          OnList(r, x, l) <=> OnList(b, x, l) \/ (x = t /\ l = m)
  BY <1>6 DEF OnList
<1>9. \A x \in Thread, n \in Mutex :
          Grants(r, pc', arg', held, x, n) = Grants(b, pc, arg, held, x, n)
  <2> SUFFICES ASSUME NEW x \in Thread, NEW n \in Mutex
               PROVE  Grants(r, pc', arg', held, x, n) = Grants(b, pc, arg, held, x, n)
    OBVIOUS
  <2>1. GrantedIn(r, pc', arg', x, n) <=> GrantedIn(b, pc, arg, x, n)
    BY <1>2, <1>6, <1>7, <1>8, Types DEF GrantedIn
  <2> QED BY <2>1 DEF Grants
<1>10. MutexesAgree(r, pc', arg', mutex, held)
  <2>1. HoldsAgree(r, pc', arg', mutex, held)
    BY <1>5, <1>9 DEF MutexesAgree, HoldsAgree
  <2>2. \A x \in Thread : InCall(pc', x) => held[x][arg'[x]] = 0
    BY <1>1, <1>2, <1>5, <1>7 DEF MutexesAgree, o
  <2>3. \A n \in Mutex : ToSet(r.list[n]) # {} => mutex[n].owner # RT_NULL
    <3>1. o # RT_NULL  BY <1>3, Types
    <3> QED BY <1>5, <1>6, <3>1, Types DEF MutexesAgree, o
  <2> QED BY <1>5, <2>1, <2>2, <2>3 DEF MutexesAgree
<1>11. ASSUME ~Nested PROVE OneEach(pc', held) /\ PrioritiesAgree(r, mutex)
  <2>1. OneEach(pc, held) /\ PrioritiesAgree(k, mutex)
    BY <1>2, <1>11 DEF Agrees
  <2>2. OneEach(pc', held)
    <3>1. \A n \in Mutex : held[t][n] = 0
      BY <1>1, <1>2, <1>11 DEF o
    <3> QED BY <1>7, <2>1, <3>1 DEF OneEach
  <2>3. \A x \in Thread : r.prio[x] \in Int /\ k.prio[x] \in Int
    BY <1>2, <1>6, BaseTypes, Types DEF Agrees
  <2>4. \A n \in Mutex : ~OnList(k, o, n)
    BY <1>2, <1>3, <1>11, OwnerDoesNotWait DEF o
  <2>5. \A x \in Thread : (\A n \in Mutex : mutex[n].owner # x) => r.prio[x] = InitPrio[x]
    BY <1>5, <1>6, <2>1 DEF PrioritiesAgree, o
  <2>6. ASSUME Flag = "PRIO", NEW n \in Mutex PROVE SortedBy(r.list[n], r.prio)
    <3>1. /\ k.list[n] \in Seq(Thread) /\ SortedBy(k.list[n], k.prio)
          /\ ToSet(k.list[n]) \subseteq Thread
      BY <1>2, <2>1, <2>6, BaseTypes, Types DEF PrioritiesAgree, Agrees
    <3>2. \A u \in ToSet(k.list[n]) : b.prio[u] = k.prio[u]
      BY <1>5, <2>4, <3>1 DEF OnList
    <3>3. SortedBy(b.list[n], b.prio)
      <4>1. SortedBy(k.list[n], b.prio)
        BY <3>1, <3>2, OrderKept
      <4>2. b.list[n] = k.list[n]  BY <1>5, Types
      <4> QED BY <4>1, <4>2
    <3> QED BY <1>6, <2>6, <3>3, Types
  <2>7. ASSUME Flag = "PRIO", NEW n \in Mutex, NEW w \in ToSet(r.list[n])
        PROVE  r.prio[mutex[n].owner] <= r.prio[w]
    <3>1. w \in ToSet(k.list[n]) \/ (w = t /\ n = m)
      BY <1>5, <1>6, <2>7, Types
    <3>2. CASE w \in ToSet(k.list[n])
      <4>1. /\ k.prio[mutex[n].owner] <= k.prio[w] /\ w # o /\ w \in Thread
            /\ mutex[n].owner \in Thread
        <5>1. k.prio[mutex[n].owner] <= k.prio[w]
          BY <2>1, <2>7, <3>2 DEF PrioritiesAgree
        <5>2. w # o  BY <2>4, <3>2 DEF OnList
        <5>3. w \in Thread
          BY <1>2, <3>2, BaseTypes, Types DEF Agrees
        <5>4. mutex[n].owner \in Thread
          BY <1>2, <3>2 DEF Agrees, MutexesAgree, MutexState
        <5> QED BY <5>1, <5>2, <5>3, <5>4
      <4>2. r.prio[w] = k.prio[w]  BY <1>5, <1>6, <4>1
      <4>3. r.prio[mutex[n].owner] <= k.prio[mutex[n].owner]
        BY <1>5, <1>6, <2>3, <4>1
      <4> QED BY <2>3, <4>1, <4>2, <4>3
    <3>3. CASE w = t /\ n = m
      <4>1. r.prio[t] = k.prio[t]  BY <1>1, <1>5, <1>6
      <4> QED BY <1>5, <1>6, <3>3, <4>1 DEF o
    <3> QED BY <3>1, <3>2, <3>3
  <2>8. PrioritiesAgree(r, mutex)
    BY <2>1, <2>5, <2>6, <2>7 DEF PrioritiesAgree
  <2> QED BY <2>2, <2>8
<1>12. Executes(r, pc')
  BY <1>2, <1>5, <1>6, <1>7 DEF Executes
<1> QED BY <1>1, <1>6, <1>10, <1>11, <1>12 DEF IInv, Agrees

\* The rt_schedule of a call, in the place from.
LEMMA CallSchedules ==
    ASSUME IInv, NEW t \in Thread, NEW from, NEW to, Schedule(t, from, to),
           <<from, to>> \in {<<"wait", "woken">>, <<"sleep", "slept">>, <<"schedule", "user">>},
           UNCHANGED <<mutex, arg, held>>
    PROVE  IInv'
<1>1. /\ k.cur = t /\ pc[t] = from /\ k' = rt_schedule(k) /\ pc' = [pc EXCEPT ![t] = to]
      /\ mutex' = mutex /\ arg' = arg /\ held' = held
      /\ Agrees(k, pc, arg, mutex, held)
  BY DEF Schedule, At, Goto, IInv
<1>2. to \in Label /\ t # Idle
  BY <1>1 DEF Label, Agrees, Base
<1>3. /\ to \in {"wait", "woken"} <=> InCall(pc, t)
      /\ k.stat[t] # "SUSPEND" \/ InCall(pc, t) \/ to \in {"sleep", "slept"}
  BY <1>1, CallerRuns DEF InCall
<1>4. Agrees(k, pc', arg, mutex, held)
  BY <1>1, <1>2, <1>3, GotoKeeps
<1> DEFINE z == rt_schedule(k)
<1>5. Agrees(z, pc', arg, mutex, held) /\ Executes(z, pc')
  <2> HIDE DEF z
  <2> QED BY <1>4, ScheduleKeeps DEF z
<1>6. k' = z  BY <1>1
<1> HIDE DEF z
<1> QED BY <1>1, <1>5, <1>6 DEF IInv

\* rt_mutex_take ends: the thread has the mutex that was handed over to it, or
\* the error of its time-out.
LEMMA TakeReturnKeeps ==
    ASSUME IInv, NEW t \in Thread, TakeReturn(t)
    PROVE  IInv'
<1> DEFINE m == arg[t]
<1>1. /\ k.cur = t /\ pc[t] = "woken" /\ k' = k /\ pc' = [pc EXCEPT ![t] = "user"]
      /\ mutex' = mutex /\ arg' = arg /\ InCall(pc, t)
      /\ IF k.error[t] = "EOK" THEN held' = [held EXCEPT ![t][m] = @ + 1] ELSE held' = held
      /\ Agrees(k, pc, arg, mutex, held)
  BY DEF TakeReturn, At, Goto, Succeeds, IInv, InCall
<1>2. k.stat[t] = "RUNNING" /\ \A l \in WaitList : ~OnList(k, t, l)
  BY <1>1, CallerRuns
<1>3. /\ Base(k, pc, arg) /\ MutexesAgree(k, pc, arg, mutex, held)
      /\ HoldsAgree(k, pc, arg, mutex, held) /\ m \in Mutex /\ t # Idle
      /\ held \in [Thread -> [Mutex -> 0 .. MaxTakes]] /\ held[t][m] = 0
  BY <1>1 DEF Agrees, MutexesAgree, Base
<1> HIDE DEF m
<1>4. /\ \A x \in Thread : pc'[x] = IF x = t THEN "user" ELSE pc[x]
      /\ pc' \in [Thread -> Label]
  BY <1>1, <1>3 DEF Base, Label
<1>5. \A x \in Thread : InCall(pc', x) <=> InCall(pc, x) /\ x # t
  BY <1>4 DEF InCall
<1>6. Base(k, pc', arg)
  <2>1. \A x \in Thread : CallAgrees(k, pc', arg, x)
    <3> SUFFICES ASSUME NEW x \in Thread PROVE CallAgrees(k, pc', arg, x)
      OBVIOUS
    <3>1. CallAgrees(k, pc, arg, x)  BY <1>3 DEF Base
    <3>2. CASE x = t
      BY <1>2, <3>1, <3>2 DEF CallAgrees
    <3>3. CASE x # t
      BY <1>4, <1>5, <3>1, <3>3 DEF CallAgrees
    <3> QED BY <3>2, <3>3
  <2> QED BY <1>3, <1>4, <2>1, Types DEF Base
<1>7. /\ held' \in [Thread -> [Mutex -> 0 .. MaxTakes]]
      /\ \A x \in Thread, n \in Mutex : held'[x][n] =
             IF x = t /\ n = m /\ k.error[t] = "EOK" THEN held[x][n] + 1 ELSE held[x][n]
  <2>1. held[t][m] + 1 \in 0 .. MaxTakes  BY <1>3, Types
  <2>2. CASE k.error[t] = "EOK"
    BY <1>1, <1>3, <2>1, <2>2
  <2>3. CASE k.error[t] # "EOK"
    BY <1>1, <1>3, <2>3
  <2> QED BY <2>2, <2>3
<1>8. \A x \in Thread, n \in Mutex :
          Grants(k, pc', arg, held', x, n) = Grants(k, pc, arg, held, x, n)
  <2> SUFFICES ASSUME NEW x \in Thread, NEW n \in Mutex
               PROVE  Grants(k, pc', arg, held', x, n) = Grants(k, pc, arg, held, x, n)
    OBVIOUS
  <2>0. held[x][n] \in Int  BY <1>3, Types
  <2>1. CASE x # t
    BY <1>5, <1>7, <2>0, <2>1 DEF Grants, GrantedIn
  <2>2. CASE x = t
    <3>1. ~GrantedIn(k, pc', arg, t, n)
      BY <1>5 DEF GrantedIn
    <3>2. GrantedIn(k, pc, arg, t, n) <=> n = m /\ k.error[t] = "EOK"
      BY <1>1, <1>2, Types DEF GrantedIn, m
    <3> QED BY <1>7, <2>0, <2>2, <3>1, <3>2 DEF Grants
  <2> QED BY <2>1, <2>2
<1>9. MutexesAgree(k, pc', arg, mutex, held')
  <2>1. HoldsAgree(k, pc', arg, mutex, held')
    BY <1>3, <1>8 DEF HoldsAgree
  <2>2. \A x \in Thread : InCall(pc', x) => held'[x][arg[x]] = 0
    BY <1>3, <1>5, <1>7 DEF MutexesAgree, Base
  <2>3. \A n \in Mutex : held'[Idle][n] = 0
    BY <1>3, <1>7, Types DEF MutexesAgree
  <2> QED BY <1>3, <1>7, <2>1, <2>2, <2>3 DEF MutexesAgree
<1>10. ASSUME ~Nested PROVE OneEach(pc', held')
  <2>1. OneEach(pc, held)  BY <1>1, <1>10 DEF Agrees
  <2>2. \A n \in Mutex : held'[t][n] > 0 => n = m
    BY <1>1, <1>7, <2>1 DEF OneEach
  <2> QED BY <1>5, <1>7, <2>1, <2>2 DEF OneEach
<1>11. Agrees(k, pc', arg, mutex, held')
  BY <1>1, <1>6, <1>9, <1>10 DEF Agrees
<1>12. Executes(k, pc')
  BY <1>1, <1>2 DEF Executes
<1> QED BY <1>1, <1>11, <1>12 DEF IInv

-----------------------------------------------------------------------------
(* rt_mutex_release                                                        *)

\* What a release of a mutex that its program has taken finds.
LEMMA ReleaseFacts ==
    ASSUME IInv, NEW t \in Thread, NEW m \in Mutex, Releases(t, m)
    PROVE  /\ k.cur = t /\ pc[t] = "user" /\ t # Idle /\ ~InCall(pc, t)
           /\ k.stat[t] = "RUNNING" /\ Agrees(k, pc, arg, mutex, held)
           /\ mutex[m].owner = t /\ mutex[m].value = 0 /\ mutex[m].hold = held[t][m]
           /\ mutex[m].original_priority \in Prio
           /\ held[t][m] \in 1 .. MaxTakes /\ arg' = arg
           /\ held' \in [Thread -> [Mutex -> 0 .. MaxTakes]]
           /\ \A x \in Thread, n \in Mutex : /\ held[x][n] \in Nat
                  /\ held'[x][n] = IF x = t /\ n = m THEN held[t][m] - 1 ELSE held[x][n]
           /\ ~Nested => OneEach(pc, held')
<1>1. /\ k.cur = t /\ pc[t] = "user" /\ mutex[m].owner = t /\ held[t][m] > 0
      /\ held' = [held EXCEPT ![t][m] = @ - 1] /\ arg' = arg /\ ~InCall(pc, t)
  BY DEF Releases, At, InCall
<1>2. k.stat[t] = "RUNNING"
  BY <1>1, CallerRuns
<1>3. /\ held \in [Thread -> [Mutex -> 0 .. MaxTakes]] /\ HoldsAgree(k, pc, arg, mutex, held)
      /\ mutex[m].value = 0 /\ t # Idle /\ Agrees(k, pc, arg, mutex, held)
      /\ mutex[m].original_priority \in Prio
  <2>1. Agrees(k, pc, arg, mutex, held) /\ MutexesAgree(k, pc, arg, mutex, held)
    BY DEF IInv, Agrees
  <2>2. t # Idle
    BY <1>1, <2>1 DEF MutexesAgree
  <2> QED BY <1>1, <2>1, <2>2, Types DEF MutexesAgree
<1>4. \A x \in Thread, n \in Mutex : held[x][n] \in Nat /\ held[x][n] \in 0 .. MaxTakes
  BY <1>3, Types
<1>5. mutex[m].hold = held[t][m]
  BY <1>1, <1>3, <1>4 DEF HoldsAgree, Grants, GrantedIn
<1>6. held[t][m] \in 1 .. MaxTakes /\ held[t][m] - 1 \in 0 .. MaxTakes
  BY <1>1, <1>4, Types
<1>7. /\ held' \in [Thread -> [Mutex -> 0 .. MaxTakes]]
      /\ \A x \in Thread, n \in Mutex :
             held'[x][n] = IF x = t /\ n = m THEN held[t][m] - 1 ELSE held[x][n]
  BY <1>1, <1>3, <1>6
<1>8. ~Nested => OneEach(pc, held')
  <2>1. \A x \in Thread, n \in Mutex : held'[x][n] > 0 => held[x][n] > 0
    BY <1>4, <1>6, <1>7
  <2>2. \A x \in Thread, n \in Mutex : held[x][n] = 0 => held'[x][n] = 0
    BY <1>1, <1>7
  <2> QED BY <1>3, <2>1, <2>2 DEF Agrees, OneEach
<1> QED BY <1>1, <1>2, <1>3, <1>4, <1>5, <1>6, <1>7, <1>8

\* the inner release of a mutex that was taken again
LEMMA ReleaseInnerKeeps ==
    ASSUME IInv, NEW t \in Thread, NEW m \in Mutex, ReleaseInner(t, m)
    PROVE  IInv'
<1> DEFINE o == [mutex[m] EXCEPT !.hold = held[t][m] - 1]
<1>1. /\ Releases(t, m) /\ mutex[m].hold > 1 /\ k' = k /\ pc' = pc
      /\ mutex' = [mutex EXCEPT ![m].hold = @ - 1]
  BY DEF ReleaseInner
<1>2. /\ ~InCall(pc, t) /\ Agrees(k, pc, arg, mutex, held) /\ t # Idle
      /\ mutex[m].owner = t /\ mutex[m].value = 0 /\ mutex[m].hold = held[t][m]
      /\ held[t][m] \in 1 .. MaxTakes /\ arg' = arg
      /\ held' \in [Thread -> [Mutex -> 0 .. MaxTakes]]
      /\ \A x \in Thread, n \in Mutex : /\ held[x][n] \in Nat
             /\ held'[x][n] = IF x = t /\ n = m THEN held[t][m] - 1 ELSE held[x][n]
      /\ ~Nested => OneEach(pc, held')
  BY <1>1, ReleaseFacts
<1>3. /\ MutexesAgree(k, pc, arg, mutex, held) /\ HoldsAgree(k, pc, arg, mutex, held)
      /\ mutex \in [Mutex -> MutexState] /\ Base(k, pc, arg)
  BY <1>2 DEF Agrees, MutexesAgree
<1>4. /\ o \in MutexState /\ o.owner = t /\ o.value = 0 /\ o.hold = held[t][m] - 1
      /\ o.original_priority = mutex[m].original_priority
  <2>1. held[t][m] - 1 \in 0 .. HoldRange - 1
    BY <1>2, Types
  <2>2. mutex[m] \in MutexState
    BY <1>3
  <2> QED BY <1>2, <2>1, <2>2 DEF MutexState
<1>5. mutex' = [mutex EXCEPT ![m] = o]
  BY <1>1, <1>2, <1>3 DEF MutexState
<1> HIDE DEF o
<1>6. /\ mutex' \in [Mutex -> MutexState]
      /\ \A n \in Mutex : mutex'[n] = IF n = m THEN o ELSE mutex[n]
  BY <1>3, <1>4, <1>5
<1>7. \A x \in Thread, n \in Mutex : Grants(k, pc, arg, held', x, n) =
          IF x = t /\ n = m THEN held[t][m] - 1 ELSE Grants(k, pc, arg, held, x, n)
  BY <1>2 DEF Grants, GrantedIn
<1>8. HoldsAgree(k, pc, arg, mutex', held')
  <2>1. held[t][m] - 1 > 0  BY <1>1, <1>2
  <2>2. \A n \in Mutex : mutex'[n].owner = mutex[n].owner
    BY <1>2, <1>4, <1>6
  <2> SUFFICES ASSUME NEW n \in Mutex, NEW x \in Thread
               PROVE  /\ mutex'[n].owner = x =>
                             /\ mutex'[n].hold = Grants(k, pc, arg, held', x, n)
                             /\ Grants(k, pc, arg, held', x, n) > 0
                      /\ mutex'[n].owner # x => Grants(k, pc, arg, held', x, n) = 0
    BY DEF HoldsAgree
  <2>3. CASE n = m /\ x = t
    BY <1>2, <1>4, <1>6, <1>7, <2>1, <2>3
  <2>4. CASE ~(n = m /\ x = t)
    BY <1>2, <1>3, <1>6, <1>7, <2>2, <2>4 DEF HoldsAgree
  <2> QED BY <2>3, <2>4
<1>9. MutexesAgree(k, pc, arg, mutex', held')
  <2>1. \A x \in Thread : InCall(pc, x) => held'[x][arg[x]] = 0
    BY <1>2, <1>3 DEF MutexesAgree, Base
  <2>2. \A n \in Mutex : held'[Idle][n] = 0
    BY <1>2, <1>3, Types DEF MutexesAgree
  <2>3. \A n \in Mutex : /\ mutex'[n].owner = RT_NULL => mutex'[n] = Free
                         /\ mutex'[n].owner # RT_NULL =>
                                mutex'[n].value = 0 /\ mutex'[n].original_priority \in Prio
    <3>1. mutex[m].original_priority \in Prio
      BY <1>2, <1>3, Types DEF MutexesAgree
    <3> QED BY <1>3, <1>4, <1>6, <3>1, Types DEF MutexesAgree
  <2>4. \A n \in Mutex : ToSet(k.list[n]) # {} => mutex'[n].owner # RT_NULL
    BY <1>3, <1>4, <1>6, Types DEF MutexesAgree
  <2> QED BY <1>2, <1>6, <1>8, <2>1, <2>2, <2>3, <2>4 DEF MutexesAgree
<1>10. PrioritiesAgree(k, mutex) => PrioritiesAgree(k, mutex')
  <2>1. \A n \in Mutex : /\ mutex'[n].owner = mutex[n].owner
                         /\ mutex'[n].original_priority = mutex[n].original_priority
    BY <1>2, <1>4, <1>6
  <2> QED BY <2>1 DEF PrioritiesAgree
<1> QED BY <1>1, <1>2, <1>3, <1>9, <1>10 DEF IInv, Agrees

\* The owner has the priority again that it had when it took the mutex.
LEMMA RestoredEffect ==
    ASSUME IInv, NEW t \in Thread, NEW m \in Mutex, Releases(t, m)
    PROVE  LET r == Restored(t, m) IN
           /\ Base(r, pc, arg) /\ MutexesAgree(r, pc, arg, mutex, held)
           /\ r.prio = [k.prio EXCEPT ![t] = mutex[m].original_priority]
           /\ \A l \in WaitList : r.list[l] = k.list[l]
           /\ r.cur = k.cur /\ r.stat = k.stat /\ r.error = k.error
<1> DEFINE x == mutex[m].original_priority
           r == Restored(t, m)
<1>1. Agrees(k, pc, arg, mutex, held) /\ x \in Prio
  BY ReleaseFacts
<1>2. Base(k, pc, arg) /\ MutexesAgree(k, pc, arg, mutex, held)
      /\ k.prio \in [Thread -> Prio]
  BY <1>1, BaseTypes DEF Agrees
<1> HIDE DEF x
<1>3. CASE x = k.prio[t]
  <2>1. r = k  BY <1>3 DEF Restored, x
  <2> HIDE DEF r
  <2>2. k.prio = [k.prio EXCEPT ![t] = x]  BY <1>2, <1>3
  <2> QED BY <1>2, <2>1, <2>2 DEF r, x
<1>4. CASE x # k.prio[t]
  <2> DEFINE z == rt_thread_change_priority(k, t, x)
  <2>1. r = z  BY <1>4 DEF Restored, x
  <2>2. /\ Base(z, pc, arg) /\ MutexesAgree(z, pc, arg, mutex, held)
        /\ z.prio = [k.prio EXCEPT ![t] = x]
        /\ \A l \in WaitList : z.list[l] = k.list[l]
        /\ z.cur = k.cur /\ z.stat = k.stat /\ z.error = k.error
    <3> HIDE DEF z
    <3> QED BY <1>1, <1>2, PriorityKeeps DEF z
  <2> HIDE DEF r, z
  <2> QED BY <2>1, <2>2 DEF r, x
<1> QED BY <1>3, <1>4

LEMMA ReleaseFreeKeeps ==
    ASSUME IInv, NEW t \in Thread, NEW m \in Mutex, ReleaseFree(t, m)
    PROVE  IInv'
<1> DEFINE r == Restored(t, m)
<1>1. /\ Releases(t, m) /\ mutex[m].hold = 1 /\ k.list[m] = << >>
      /\ mutex' = [mutex EXCEPT ![m] = Free]
      /\ k' = r /\ pc' = [pc EXCEPT ![t] = "user"]
  BY DEF ReleaseFree, Goto
<1>2. /\ pc[t] = "user" /\ ~InCall(pc, t) /\ Agrees(k, pc, arg, mutex, held) /\ t # Idle
      /\ mutex[m].owner = t /\ mutex[m].hold = held[t][m] /\ arg' = arg
      /\ held' \in [Thread -> [Mutex -> 0 .. MaxTakes]]
      /\ \A x \in Thread, n \in Mutex : /\ held[x][n] \in Nat
             /\ held'[x][n] = IF x = t /\ n = m THEN held[t][m] - 1 ELSE held[x][n]
      /\ ~Nested => OneEach(pc, held')
  BY <1>1, ReleaseFacts
<1>3. /\ Base(r, pc, arg) /\ MutexesAgree(r, pc, arg, mutex, held)
      /\ r.prio = [k.prio EXCEPT ![t] = mutex[m].original_priority]
      /\ \A l \in WaitList : r.list[l] = k.list[l]
      /\ r.cur = k.cur /\ r.stat = k.stat
  <2> HIDE DEF r
  <2> QED BY <1>1, RestoredEffect DEF r
<1> HIDE DEF r
<1>4. /\ mutex' \in [Mutex -> MutexState] /\ Free.owner = RT_NULL
      /\ \A n \in Mutex : mutex'[n] = IF n = m THEN Free ELSE mutex[n]
  <2>1. Free \in MutexState /\ Free.owner = RT_NULL
    <3>1. 0 \in 0 .. HoldRange - 1  BY Types
    <3> QED BY <3>1 DEF Free, MutexState
  <2> QED BY <1>1, <1>3, <2>1 DEF MutexesAgree
<1>5. \A x \in Thread, n \in Mutex : Grants(r, pc, arg, held', x, n) =
          IF x = t /\ n = m THEN 0 ELSE Grants(r, pc, arg, held, x, n)
  BY <1>1, <1>2 DEF Grants, GrantedIn
<1>6. HoldsAgree(r, pc, arg, mutex', held')
  <2> SUFFICES ASSUME NEW n \in Mutex, NEW x \in Thread
               PROVE  /\ mutex'[n].owner = x =>
                             /\ mutex'[n].hold = Grants(r, pc, arg, held', x, n)
                             /\ Grants(r, pc, arg, held', x, n) > 0
                      /\ mutex'[n].owner # x => Grants(r, pc, arg, held', x, n) = 0
    BY DEF HoldsAgree
  <2>1. CASE n = m /\ x = t
    BY <1>4, <1>5, <2>1, Types
  <2>2. CASE n = m /\ x # t
    BY <1>2, <1>3, <1>4, <1>5, <2>2, Types DEF MutexesAgree, HoldsAgree
  <2>3. CASE n # m
    BY <1>3, <1>4, <1>5, <2>3 DEF MutexesAgree, HoldsAgree
  <2> QED BY <2>1, <2>2, <2>3
<1>7. MutexesAgree(r, pc, arg, mutex', held')
  <2>1. \A x \in Thread : InCall(pc, x) => held'[x][arg[x]] = 0
    BY <1>2, <1>3 DEF MutexesAgree, Base
  <2>2. \A n \in Mutex : held'[Idle][n] = 0
    BY <1>2, <1>3, Types DEF MutexesAgree
  <2>3. \A n \in Mutex : /\ mutex'[n].owner = RT_NULL => mutex'[n] = Free
                         /\ mutex'[n].owner # RT_NULL =>
                                mutex'[n].value = 0 /\ mutex'[n].original_priority \in Prio
    BY <1>3, <1>4 DEF MutexesAgree
  <2>4. \A n \in Mutex : ToSet(r.list[n]) # {} => mutex'[n].owner # RT_NULL
    <3>1. ToSet(r.list[m]) = {}
      BY <1>1, <1>3, Types DEF ToSet
    <3> QED BY <1>3, <1>4, <3>1 DEF MutexesAgree
  <2> QED BY <1>2, <1>4, <1>6, <2>1, <2>2, <2>3, <2>4 DEF MutexesAgree
<1>8. ASSUME ~Nested PROVE PrioritiesAgree(r, mutex')
  <2>1. PrioritiesAgree(k, mutex)  BY <1>2, <1>8 DEF Agrees
  <2>2. k.prio \in [Thread -> Prio]
    BY <1>2, BaseTypes DEF Agrees
  <2>3. r.prio[t] = InitPrio[t] /\ \A x \in Thread : x # t => r.prio[x] = k.prio[x]
    BY <1>2, <1>3, <2>1, <2>2, Types DEF PrioritiesAgree
  <2>4. \A n \in Mutex : ~OnList(k, t, n) /\ (mutex[n].owner = t => n = m)
    BY <1>2, <1>8, OwnerDoesNotWait
  <2>5. \A x \in Thread : (\A n \in Mutex : mutex'[n].owner # x) => r.prio[x] = InitPrio[x]
    BY <1>2, <1>4, <2>1, <2>3 DEF PrioritiesAgree
  <2>6. \A n \in Mutex : mutex'[n].owner # RT_NULL =>
            mutex'[n].original_priority = InitPrio[mutex'[n].owner]
    BY <1>4, <2>1 DEF PrioritiesAgree
  <2>7. ASSUME Flag = "PRIO", NEW n \in Mutex PROVE SortedBy(r.list[n], r.prio)
    <3>1. /\ k.list[n] \in Seq(Thread) /\ SortedBy(k.list[n], k.prio)
          /\ ToSet(k.list[n]) \subseteq Thread
      BY <1>2, <2>1, <2>7, BaseTypes, Types DEF PrioritiesAgree, Agrees
    <3>2. \A u \in ToSet(k.list[n]) : r.prio[u] = k.prio[u]
      BY <2>3, <2>4, <3>1 DEF OnList
    <3>3. SortedBy(k.list[n], r.prio)
      BY <3>1, <3>2, OrderKept
    <3> QED BY <1>3, <3>3, Types
  <2>8. ASSUME Flag = "PRIO", NEW n \in Mutex, NEW w \in ToSet(r.list[n])
        PROVE  r.prio[mutex'[n].owner] <= r.prio[w]
    <3>1. n # m /\ w \in ToSet(k.list[n])
      BY <1>1, <1>3, <2>8, Types DEF ToSet
    <3>2. /\ k.prio[mutex[n].owner] <= k.prio[w] /\ w # t /\ w \in Thread
          /\ mutex[n].owner \in Thread /\ mutex[n].owner # t
      <4>1. k.prio[mutex[n].owner] <= k.prio[w]
        BY <2>1, <2>8, <3>1 DEF PrioritiesAgree
      <4>2. w # t /\ mutex[n].owner # t
        BY <2>4, <3>1 DEF OnList
      <4>3. w \in Thread
        BY <1>2, <3>1, BaseTypes, Types DEF Agrees
      <4>4. mutex[n].owner \in Thread
        BY ZenonT(60), <1>2, <3>1 DEF Agrees, MutexesAgree, MutexState
      <4> QED BY <4>1, <4>2, <4>3, <4>4
    <3> QED BY <1>4, <2>3, <3>1, <3>2
  <2> QED BY <2>5, <2>6, <2>7, <2>8 DEF PrioritiesAgree
<1>9. pc' = pc
  BY <1>1, <1>2 DEF Agrees, Base
<1>10. Executes(r, pc)
  BY <1>3 DEF IInv, Executes
<1> QED BY <1>1, <1>2, <1>3, <1>7, <1>8, <1>9, <1>10 DEF IInv, Agrees

\* The first waiter owns the mutex, and is ready, before it executes again.
LEMMA ReleaseHandOverKeeps ==
    ASSUME IInv, NEW t \in Thread, NEW m \in Mutex, ReleaseHandOver(t, m)
    PROVE  IInv'
<1> DEFINE s == Restored(t, m)
           w == Head(k.list[m])
           r == rt_thread_resume(s, w)
           o == Owned(w, 1)
<1>1. /\ Releases(t, m) /\ mutex[m].hold = 1 /\ k.list[m] # << >>
      /\ mutex' = [mutex EXCEPT ![m] = o]
      /\ k' = rt_ipc_list_resume(s, m) /\ pc' = [pc EXCEPT ![t] = "schedule"]
  BY DEF ReleaseHandOver, Goto
<1>2. /\ k.cur = t /\ pc[t] = "user" /\ ~InCall(pc, t) /\ k.stat[t] = "RUNNING"
      /\ Agrees(k, pc, arg, mutex, held) /\ t # Idle
      /\ mutex[m].owner = t /\ mutex[m].hold = held[t][m] /\ arg' = arg
      /\ held' \in [Thread -> [Mutex -> 0 .. MaxTakes]]
      /\ \A x \in Thread, n \in Mutex : /\ held[x][n] \in Nat
             /\ held'[x][n] = IF x = t /\ n = m THEN held[t][m] - 1 ELSE held[x][n]
      /\ ~Nested => OneEach(pc, held')
  BY <1>1, ReleaseFacts
<1>3. /\ Base(s, pc, arg) /\ MutexesAgree(s, pc, arg, mutex, held)
      /\ s.prio = [k.prio EXCEPT ![t] = mutex[m].original_priority]
      /\ \A l \in WaitList : s.list[l] = k.list[l]
      /\ s.cur = k.cur /\ s.stat = k.stat /\ s.error = k.error
  <2> HIDE DEF s
  <2> QED BY <1>1, RestoredEffect DEF s
<1> HIDE DEF s
<1>4. /\ w \in Thread /\ OnList(k, w, m) /\ k.stat[w] = "SUSPEND" /\ w # t
      /\ InCall(pc, w) /\ arg[w] = m /\ k.error[w] = "EOK" /\ held[w][m] = 0
      /\ k.list[m] \in Seq(Thread)
  <2>1. k.list[m] \in Seq(Thread) /\ ToSet(k.list[m]) \subseteq Thread
    BY <1>2, BaseTypes, Types DEF Agrees
  <2>2. w \in ToSet(k.list[m])
    BY <1>1, <2>1, EmptyList
  <2> HIDE DEF w
  <2>3. w \in Thread /\ OnList(k, w, m)
    BY <2>1, <2>2 DEF OnList
  <2>4. k.stat[w] = "SUSPEND"
    BY <1>2, <2>3, BaseTypes, Types DEF Agrees
  <2>5. InCall(pc, w) /\ arg[w] = m /\ k.error[w] = "EOK"
    BY <1>2, <2>3, Types DEF Agrees, Base, CallAgrees
  <2>6. held[w][m] = 0
    BY <1>2, <2>3, <2>5 DEF Agrees, MutexesAgree
  <2> QED BY <1>2, <2>1, <2>3, <2>4, <2>5, <2>6
<1>5. k' = r
  BY <1>1, <1>3, Types DEF rt_ipc_list_resume
<1> HIDE DEF w
<1>6. /\ r \in KernelState /\ KernelInv(r, {})
      /\ r.stat = [s.stat EXCEPT ![w] = "READY"]
      /\ r.timer = s.timer \ {w}
      /\ \A l \in WaitList : /\ r.list[l] = Without(k.list[l], w)
                             /\ ToSet(r.list[l]) = ToSet(k.list[l]) \ {w}
      /\ r.cur = t /\ r.prio = s.prio /\ r.error = s.error /\ r.nest = s.nest
  <2>1. s \in KernelState /\ KernelInv(s, {}) /\ s.stat[w] = "SUSPEND" /\ w # s.cur
    BY <1>2, <1>3, <1>4 DEF Base
  <2> DEFINE z == rt_thread_resume(s, w)
  <2>2. /\ z \in KernelState /\ KernelInv(z, {})
        /\ z.stat = [s.stat EXCEPT ![w] = "READY"]
        /\ z.timer = s.timer \ {w}
        /\ \A l \in WaitList : /\ z.list[l] = Without(s.list[l], w)
                               /\ ToSet(z.list[l]) = ToSet(s.list[l]) \ {w}
        /\ z.cur = s.cur /\ z.prio = s.prio /\ z.error = s.error /\ z.nest = s.nest
    <3> HIDE DEF z
    <3> QED BY ZenonT(60), <1>4, <2>1, ResumePreserves DEF z
  <2> HIDE DEF z
  <2>3. r = z  BY DEF z
  <2> HIDE DEF r
  <2> QED BY <1>2, <1>3, <2>2, <2>3
<1> HIDE DEF r
<1>7. /\ \A x \in Thread : r.stat[x] = IF x = w THEN "READY" ELSE k.stat[x]
      /\ \A x \in Thread, l \in WaitList : OnList(r, x, l) <=> OnList(k, x, l) /\ x # w
      /\ r.error = k.error
  <2>1. k.stat \in [Thread -> Stat]
    BY <1>2, BaseTypes DEF Agrees
  <2>2. \A x \in Thread : r.stat[x] = IF x = w THEN "READY" ELSE k.stat[x]
    BY <1>3, <1>4, <1>6, <2>1
  <2>3. \A x \in Thread, l \in WaitList : OnList(r, x, l) <=> OnList(k, x, l) /\ x # w
    BY <1>6 DEF OnList
  <2> QED BY <1>3, <1>6, <2>2, <2>3
<1>8. /\ \A x \in Thread : pc'[x] = IF x = t THEN "schedule" ELSE pc[x]
      /\ pc' \in [Thread -> Label]
      /\ \A x \in Thread : InCall(pc', x) <=> InCall(pc, x)
  BY <1>1, <1>2, <1>3 DEF Base, InCall, Label
<1>9. Base(r, pc', arg)
  <2>1. \A x \in Thread : CallAgrees(r, pc', arg, x)
    <3> SUFFICES ASSUME NEW x \in Thread PROVE CallAgrees(r, pc', arg, x)
      OBVIOUS
    <3>1. CallAgrees(s, pc, arg, x) /\ arg[x] \in WaitList
      BY <1>3, Types DEF Base
    <3>2. \A l \in WaitList : OnList(r, x, l) => OnList(s, x, l)
      BY <1>3, <1>7 DEF OnList
    <3>3. CASE x = w
      BY <1>7, <3>3 DEF CallAgrees
    <3>4. CASE x = t
      <4>1. \A l \in WaitList : ~OnList(r, t, l)
        BY <1>2, <1>7, BaseTypes DEF Agrees
      <4> QED BY <1>2, <1>4, <1>7, <3>4, <4>1 DEF CallAgrees
    <3>5. CASE x # w /\ x # t
      <4>1. x \in s.timer => x \in r.timer
        BY <1>6, <3>5
      <4>2. r.stat[x] = s.stat[x] /\ r.error[x] = s.error[x]
            /\ (InCall(pc', x) <=> InCall(pc, x)) /\ pc'[x] = pc[x]
        BY <1>3, <1>7, <1>8, <3>5
      <4>3. OnList(s, x, arg[x]) => OnList(r, x, arg[x])
        BY <1>3, <1>7, <3>1, <3>5 DEF OnList
      <4> QED BY <3>1, <3>2, <4>1, <4>2, <4>3 DEF CallAgrees
    <3> QED BY <3>3, <3>4, <3>5
  <2> QED BY <1>2, <1>3, <1>6, <1>8, <2>1, Types DEF Base
<1>10. /\ o \in MutexState /\ o.owner = w /\ o.value = 0 /\ o.hold = 1
       /\ o.original_priority = k.prio[w] /\ k.prio[w] \in Prio
  <2>1. k.prio[w] \in Prio
    BY <1>2, <1>4, BaseTypes DEF Agrees
  <2>2. 1 \in 0 .. HoldRange - 1 /\ 0 \in 0 .. 1
    BY Types
  <2> QED BY <1>4, <2>1, <2>2 DEF Owned, MutexState
<1> HIDE DEF o
<1>11. /\ mutex' \in [Mutex -> MutexState]
       /\ \A n \in Mutex : mutex'[n] = IF n = m THEN o ELSE mutex[n]
  BY <1>1, <1>3, <1>10 DEF MutexesAgree
<1>12. \A x \in Thread, n \in Mutex : Grants(r, pc', arg, held', x, n) =
           IF n = m /\ x = t THEN 0
           ELSE IF n = m /\ x = w THEN 1
           ELSE Grants(k, pc, arg, held, x, n)
  <2> SUFFICES ASSUME NEW x \in Thread, NEW n \in Mutex
               PROVE  Grants(r, pc', arg, held', x, n) =
                          IF n = m /\ x = t THEN 0
                          ELSE IF n = m /\ x = w THEN 1
                          ELSE Grants(k, pc, arg, held, x, n)
    OBVIOUS
  <2>1. GrantedIn(r, pc', arg, x, n) <=> GrantedIn(k, pc, arg, x, n) \/ (x = w /\ n = m)
    BY <1>4, <1>7, <1>8, Types DEF GrantedIn
  <2>2. CASE n = m /\ x = t
    BY <1>1, <1>2, <1>4, <2>1, <2>2 DEF Grants, GrantedIn
  <2>3. CASE n = m /\ x = w
    BY <1>2, <1>4, <2>1, <2>3 DEF Grants
  <2>4. CASE ~(n = m /\ x = t) /\ ~(n = m /\ x = w)
    BY <1>2, <2>1, <2>4 DEF Grants
  <2> QED BY <2>2, <2>3, <2>4
<1>13. HoldsAgree(r, pc', arg, mutex', held')
  <2>1. HoldsAgree(k, pc, arg, mutex, held)
    BY <1>2 DEF Agrees, MutexesAgree
  <2> SUFFICES ASSUME NEW n \in Mutex, NEW x \in Thread
               PROVE  /\ mutex'[n].owner = x =>
                             /\ mutex'[n].hold = Grants(r, pc', arg, held', x, n)
                             /\ Grants(r, pc', arg, held', x, n) > 0
                      /\ mutex'[n].owner # x => Grants(r, pc', arg, held', x, n) = 0
    BY DEF HoldsAgree
  <2>2. CASE n = m /\ x = w
    BY <1>4, <1>10, <1>11, <1>12, <2>2
  <2>3. CASE n = m /\ x # w
    BY <1>2, <1>10, <1>11, <1>12, <2>1, <2>3 DEF HoldsAgree
  <2>4. CASE n # m
    BY <1>11, <1>12, <2>1, <2>4 DEF HoldsAgree
  <2> QED BY <2>2, <2>3, <2>4
<1>14. MutexesAgree(r, pc', arg, mutex', held')
  <2>1. \A x \in Thread : InCall(pc', x) => held'[x][arg[x]] = 0
    BY <1>2, <1>3, <1>8 DEF MutexesAgree, Base
  <2>2. \A n \in Mutex : held'[Idle][n] = 0
    BY <1>2, <1>3, Types DEF MutexesAgree
  <2>3. \A n \in Mutex : /\ mutex'[n].owner = RT_NULL => mutex'[n] = Free
                         /\ mutex'[n].owner # RT_NULL =>
                                mutex'[n].value = 0 /\ mutex'[n].original_priority \in Prio
    <3>1. o.owner # RT_NULL  BY <1>4, <1>10, Types
    <3> QED BY <1>3, <1>10, <1>11, <3>1 DEF MutexesAgree
  <2>4. \A n \in Mutex : ToSet(r.list[n]) # {} => mutex'[n].owner # RT_NULL
    <3> SUFFICES ASSUME NEW n \in Mutex, ToSet(r.list[n]) # {}
                 PROVE  mutex'[n].owner # RT_NULL
      OBVIOUS
    <3>1. CASE n = m
      <4>1. w \in Thread /\ RT_NULL \notin Thread  BY <1>4, Types
      <4> QED BY <1>10, <1>11, <3>1, <4>1
    <3>2. CASE n # m
      <4>1. n \in WaitList  BY Types
      <4>2. ToSet(r.list[n]) = ToSet(k.list[n]) \ {w}
        BY <1>6, <4>1
      <4>3. mutex[n].owner # RT_NULL
        BY <1>2, <4>2 DEF Agrees, MutexesAgree
      <4>4. mutex'[n] = mutex[n]  BY <1>11, <3>2
      <4> QED BY <4>3, <4>4
    <3> QED BY <3>1, <3>2
  <2> QED BY <1>2, <1>11, <1>13, <2>1, <2>2, <2>3, <2>4 DEF MutexesAgree
<1>15. ASSUME ~Nested PROVE OneEach(pc', held')
  BY <1>2, <1>8, <1>15 DEF OneEach
<1>16. ASSUME ~Nested PROVE PrioritiesAgree(r, mutex')
  <2>1. PrioritiesAgree(k, mutex)  BY <1>2, <1>16 DEF Agrees
  <2>2. k.prio \in [Thread -> Prio]
    BY <1>2, BaseTypes DEF Agrees
  <2>3. r.prio[t] = InitPrio[t] /\ \A x \in Thread : x # t => r.prio[x] = k.prio[x]
    BY SMTT(30), <1>2, <1>3, <1>6, <2>1, <2>2, Types DEF PrioritiesAgree
  <2>4. \A n \in Mutex : ~OnList(k, t, n) /\ (mutex[n].owner = t => n = m)
    BY <1>2, <1>16, OwnerDoesNotWait
  <2>5. \A n \in Mutex : mutex[n].owner # w
    BY <1>2, <1>4, <1>16, OwnerDoesNotWait
  <2>6. k.prio[w] = InitPrio[w]
    BY <1>4, <2>1, <2>5 DEF PrioritiesAgree
  <2>7. \A x \in Thread : (\A n \in Mutex : mutex'[n].owner # x) => r.prio[x] = InitPrio[x]
    BY <1>2, <1>11, <2>1, <2>3 DEF PrioritiesAgree
  <2>8. \A n \in Mutex : mutex'[n].owner # RT_NULL =>
            mutex'[n].original_priority = InitPrio[mutex'[n].owner]
    BY <1>10, <1>11, <2>1, <2>6 DEF PrioritiesAgree
  <2>9. ASSUME Flag = "PRIO", NEW n \in Mutex
        PROVE  /\ k.list[n] \in Seq(Thread) /\ SortedBy(k.list[n], k.prio)
               /\ ToSet(k.list[n]) \subseteq Thread /\ n \in WaitList
    BY <1>2, <2>1, <2>9, BaseTypes, Types DEF PrioritiesAgree, Agrees
  <2>10. ASSUME Flag = "PRIO", NEW n \in Mutex PROVE SortedBy(r.list[n], r.prio)
    <3>1. \A u \in ToSet(k.list[n]) : r.prio[u] = k.prio[u]
      BY <2>3, <2>4, <2>9, <2>10 DEF OnList
    <3>2. SortedBy(k.list[n], r.prio)
      BY <2>9, <2>10, <3>1, OrderKept
    <3>3. SortedBy(Without(k.list[n], w), r.prio)
      BY <2>9, <2>10, <3>2, WithoutOrder
    <3> QED BY <1>6, <2>9, <2>10, <3>3
  <2>11. ASSUME Flag = "PRIO", NEW n \in Mutex, NEW y \in ToSet(r.list[n])
         PROVE  r.prio[mutex'[n].owner] <= r.prio[y]
    <3>1. y \in ToSet(k.list[n]) /\ y \in Thread
      BY <1>6, <2>9, <2>11
    <3>2. y # t /\ r.prio[y] = k.prio[y]
      BY <2>3, <2>4, <3>1 DEF OnList
    <3>3. CASE n = m
      <4>1. \A u \in Thread : k.prio[u] \in Int
        BY <2>2, Types
      <4>2. k.prio[w] <= k.prio[y]
        BY <2>9, <2>11, <3>1, <3>3, <4>1, HeadIsBest DEF w
      <4>3. mutex'[n].owner = w /\ r.prio[w] = k.prio[w]
        BY <1>4, <1>10, <1>11, <2>3, <3>3
      <4> QED BY <3>2, <4>2, <4>3
    <3>4. CASE n # m
      <4>1. k.prio[mutex[n].owner] <= k.prio[y]
        BY <2>1, <2>11, <3>1 DEF PrioritiesAgree
      <4>2. mutex[n].owner # t /\ mutex[n].owner \in Thread
        BY ZenonT(60), <1>2, <2>4, <3>1, <3>4 DEF Agrees, MutexesAgree, MutexState
      <4> QED BY <1>11, <2>3, <3>2, <3>4, <4>1, <4>2
    <3> QED BY <3>3, <3>4
  <2> QED BY <2>7, <2>8, <2>10, <2>11 DEF PrioritiesAgree
<1>17. Executes(r, pc')
  BY <1>2, <1>4, <1>6, <1>7 DEF Executes
<1> QED BY <1>2, <1>5, <1>9, <1>14, <1>15, <1>16, <1>17 DEF IInv, Agrees

-----------------------------------------------------------------------------
(* rt_thread_delay and the interrupts.                                     *)

LEMMA SleepKeeps ==
    ASSUME IInv, NEW t \in Thread, Sleeps(t)
    PROVE  IInv'
<1> DEFINE s == rt_thread_suspend_section(k, t)
           r == rt_timer_start(s, t)
<1>1. /\ k.cur = t /\ pc[t] = "user" /\ t # Idle /\ ~InCall(pc, t)
      /\ k' = rt_timer_start(rt_thread_suspend(k, t), t) /\ pc' = [pc EXCEPT ![t] = "sleep"]
      /\ mutex' = mutex /\ arg' = arg /\ held' = held
      /\ Agrees(k, pc, arg, mutex, held)
  BY Types DEF Sleeps, Sleep, At, Goto, InCall, IInv
<1>2. k.stat[t] = "RUNNING" /\ \A l \in WaitList : ~OnList(k, t, l)
  BY <1>1, CallerRuns
<1>3. /\ Base(k, pc, arg) /\ k \in KernelState /\ KernelInv(k, {})
      /\ k.stat \in [Thread -> Stat]
      /\ \A l \in WaitList : k.list[l] \in Seq(Thread) /\ ToSet(k.list[l]) \subseteq Thread
  BY <1>1, BaseTypes DEF Agrees, Base
<1>4. k' = r
  BY <1>1, <1>2 DEF rt_thread_suspend
<1>5. /\ s \in KernelState /\ KernelInv(s, {}) /\ s.stat[t] = "SUSPEND"
      /\ s.stat = [k.stat EXCEPT ![t] = "SUSPEND"] /\ s.timer = k.timer \ {t}
      /\ s.cur = k.cur /\ s.prio = k.prio /\ s.error = k.error /\ s.nest = k.nest
      /\ \A l \in WaitList : s.list[l] = k.list[l]
  <2>1. /\ s \in KernelState /\ KernelInv(s, {})
        /\ s.stat = [k.stat EXCEPT ![t] = "SUSPEND"] /\ s.timer = k.timer \ {t}
        /\ s.cur = k.cur /\ s.prio = k.prio /\ s.error = k.error /\ s.nest = k.nest
    <3> HIDE DEF s, r
    <3> QED BY <1>3, SuspendPreserves DEF s
  <2> DEFINE q == rt_schedule_remove_thread(k, t)
  <2>2. s = [q EXCEPT !.stat[t] = "SUSPEND", !.timer = @ \ {t}] /\ s.list = q.list
    BY DEF rt_thread_suspend_section, rt_timer_stop, rt_schedule_remove_thread,
           rt_list_remove, KernelState
  <2>3. \A l \in ListHead : q.list[l] = Without(k.list[l], t)
    BY <1>3 DEF rt_schedule_remove_thread, rt_list_remove, KernelState
  <2>4. \A l \in WaitList : Without(k.list[l], t) = k.list[l]
    BY <1>2 DEF Without, OnList
  <2> HIDE DEF s, q, r
  <2> QED BY <1>3, <2>1, <2>2, <2>3, <2>4, Types
<1> HIDE DEF s
<1>6. /\ r \in KernelState /\ KernelInv(r, {})
      /\ r.timer = s.timer \cup {t} /\ r.list = s.list /\ r.cur = k.cur /\ r.stat = s.stat
      /\ r.prio = k.prio /\ r.error = k.error /\ r.nest = k.nest
  <2> HIDE DEF r
  <2> QED BY ZenonT(60), <1>5, TimerStartPreserves DEF r
<1> HIDE DEF r
<1>7. /\ pc' \in [Thread -> Label] /\ pc'[t] = "sleep"
      /\ \A x \in Thread : x # t => pc'[x] = pc[x]
      /\ \A x \in Thread : InCall(pc', x) <=> InCall(pc, x)
  BY <1>1, <1>3 DEF Base, Label, InCall
<1>8. Base(r, pc', arg)
  <2>1. \A x \in Thread : CallAgrees(r, pc', arg, x)
    <3> SUFFICES ASSUME NEW x \in Thread PROVE CallAgrees(r, pc', arg, x)
      OBVIOUS
    <3>1. CallAgrees(k, pc, arg, x) /\ arg[x] \in WaitList
      BY <1>3, Types DEF Base
    <3>2. \A l \in WaitList : OnList(r, x, l) <=> OnList(k, x, l)
      BY <1>5, <1>6 DEF OnList
    <3>3. CASE x = t
      BY <1>2, <1>3, <1>5, <1>6, <1>7, <3>2, <3>3 DEF CallAgrees
    <3>4. CASE x # t
      <4>1. r.stat[x] = k.stat[x] /\ (x \in k.timer => x \in r.timer)
        BY <1>3, <1>5, <1>6, <3>4
      <4> QED BY <1>6, <1>7, <3>1, <3>2, <3>4, <4>1 DEF CallAgrees
    <3> QED BY <3>3, <3>4
  <2> QED BY <1>1, <1>3, <1>6, <1>7, <2>1, Types DEF Base
<1>9. Agrees(r, pc', arg, mutex, held)
  <2>1. \A n \in Mutex : r.list[n] = k.list[n]
    BY <1>5, <1>6, Types
  <2>2. \A x \in Thread : InCall(pc, x) => arg[x] = arg[x] /\ r.error[x] = k.error[x]
    BY <1>6
  <2> QED BY <1>1, <1>6, <1>7, <1>8, <2>1, <2>2, SameMutexes
<1>10. Executes(r, pc')
  BY <1>1, <1>6, <1>7 DEF Executes
<1> QED BY <1>1, <1>4, <1>9, <1>10 DEF IInv

LEMMA SleepReturnKeeps ==
    ASSUME IInv, NEW t \in Thread, SleepReturn(t), UNCHANGED <<mutex, arg, held>>
    PROVE  IInv'
<1> DEFINE e == IF k.error[t] = "ETIMEOUT" THEN "EOK" ELSE k.error[t]
           r == [k EXCEPT !.error[t] = e]
<1>1. /\ k.cur = t /\ pc[t] = "slept" /\ ~InCall(pc, t)
      /\ k' = r /\ pc' = [pc EXCEPT ![t] = "user"]
      /\ mutex' = mutex /\ arg' = arg /\ held' = held
      /\ Agrees(k, pc, arg, mutex, held) /\ Executes(k, pc)
  BY DEF SleepReturn, At, Goto, InCall, IInv
<1>2. k.stat[t] = "RUNNING" /\ k.error \in [Thread -> Error] /\ t # Idle
  BY <1>1, CallerRuns, BaseTypes DEF Agrees, Base
<1>3. e \in Error
  BY <1>2 DEF Error
<1> HIDE DEF e
<1>4. Agrees(r, pc, arg, mutex, held) /\ r.cur = k.cur /\ r.stat = k.stat
  <2> HIDE DEF r
  <2> QED BY <1>1, <1>3, ErrorKeeps DEF r
<1> HIDE DEF r
<1>5. Agrees(r, pc', arg, mutex, held)
  <2>1. "user" \in Label /\ ~("user" \in {"wait", "woken"})  BY DEF Label
  <2>2. r.stat[t] # "SUSPEND"  BY <1>2, <1>4
  <2> QED BY <1>1, <1>2, <1>4, <2>1, <2>2, GotoKeeps
<1>6. Executes(r, pc')
  BY <1>1, <1>2, <1>4 DEF Executes
<1> QED BY <1>1, <1>5, <1>6 DEF IInv

LEMMA TickSliceKeeps ==
    ASSUME IInv, TickSlice, UNCHANGED <<mutex, arg, held>>
    PROVE  IInv'
<1> DEFINE j == [k EXCEPT !.yield[k.cur] = TRUE]
           r == rt_schedule(j)
<1>1. k' = r /\ pc' = pc /\ mutex' = mutex /\ arg' = arg /\ held' = held
  BY DEF TickSlice, rt_tick_slice_over
<1>2. /\ Agrees(k, pc, arg, mutex, held) /\ Base(k, pc, arg)
      /\ k \in KernelState /\ KernelInv(k, {})
  BY DEF IInv, Agrees, Base
<1>3. /\ j \in KernelState /\ j.cur = k.cur /\ j.stat = k.stat
      /\ j.prio = k.prio /\ j.error = k.error /\ j.timer = k.timer
      /\ j.list = k.list /\ j.group = k.group /\ j.nest = k.nest
  <2>1. k.cur \in Thread /\ k.yield \in [Thread -> BOOLEAN]  BY <1>2 DEF KernelState
  <2> DEFINE y == [k.yield EXCEPT ![k.cur] = TRUE]
  <2>2. y \in [Thread -> BOOLEAN]  BY <2>1
  <2>3. j = [k EXCEPT !.yield = y]  BY <1>2 DEF KernelState
  <2> HIDE DEF y, j, r
  <2> QED BY <1>2, <2>2, <2>3 DEF KernelState
<1> HIDE DEF j
<1>4. KernelInv(j, {})
  BY <1>2, <1>3, SameLists
<1>5. \A x \in Thread : CallAgrees(j, pc, arg, x)
  BY <1>2, <1>3 DEF Base, CallAgrees, OnList
<1>6. Base(j, pc, arg)
  BY <1>2, <1>3, <1>4, <1>5 DEF Base
<1>7. Agrees(j, pc, arg, mutex, held)
  BY <1>2, <1>3, <1>6, SameMutexes
<1>8. Agrees(r, pc, arg, mutex, held) /\ Executes(r, pc)
  <2> HIDE DEF r
  <2> QED BY <1>7, ScheduleKeeps DEF r
<1> HIDE DEF r
<1> QED BY <1>1, <1>8 DEF IInv

\* A timer that expires is that of a thread that sleeps, or of a waiter, which
\* leaves the list and so is never handed the mutex.
LEMMA TimerExpiresKeeps ==
    ASSUME IInv, NEW t \in Thread, TimerExpires(t), UNCHANGED <<mutex, arg, held>>
    PROVE  IInv'
<1> DEFINE j == TimedOut(k, t)
           r == rt_schedule(j)
<1>1. /\ k' = rt_thread_timeout(k, t) /\ t \in k.timer
      /\ pc' = pc /\ mutex' = mutex /\ arg' = arg /\ held' = held
      /\ Agrees(k, pc, arg, mutex, held)
  BY DEF TimerExpires, IInv
<1>2. /\ Base(k, pc, arg) /\ MutexesAgree(k, pc, arg, mutex, held)
      /\ k \in KernelState /\ KernelInv(k, {}) /\ k.stat[t] = "SUSPEND"
      /\ k.stat \in [Thread -> Stat] /\ k.error \in [Thread -> Error]
      /\ \A l \in WaitList : k.list[l] \in Seq(Thread)
  BY <1>1, BaseTypes DEF Agrees, Base, KernelInv, TimersAgree
<1>3. /\ k' = r /\ j \in KernelState /\ KernelInv(j, {})
      /\ j.stat = [k.stat EXCEPT ![t] = IF t = k.cur THEN "RUNNING" ELSE "READY"]
      /\ j.timer = k.timer \ {t}
      /\ \A l \in WaitList : /\ j.list[l] = Without(k.list[l], t)
                             /\ ToSet(j.list[l]) = ToSet(k.list[l]) \ {t}
      /\ j.cur = k.cur /\ j.prio = k.prio
      /\ j.error = [k.error EXCEPT ![t] = "ETIMEOUT"] /\ j.nest = k.nest
  <2>1. k \in KernelState /\ KernelInv(k, {}) /\ k.stat[t] = "SUSPEND"
    BY <1>2
  <2> HIDE DEF j, r
  <2>2. /\ rt_thread_timeout(k, t) = rt_schedule(j)
        /\ j \in KernelState /\ KernelInv(j, {})
        /\ j.stat = [k.stat EXCEPT ![t] = IF t = k.cur THEN "RUNNING" ELSE "READY"]
        /\ j.timer = k.timer \ {t}
        /\ \A l \in WaitList : /\ j.list[l] = Without(k.list[l], t)
                               /\ ToSet(j.list[l]) = ToSet(k.list[l]) \ {t}
        /\ j.cur = k.cur /\ j.prio = k.prio
        /\ j.error = [k.error EXCEPT ![t] = "ETIMEOUT"] /\ j.nest = k.nest
    BY SMTT(30), <2>1, TimeoutPreserves DEF j
  <2>3. k' = r  BY <1>1, <2>2 DEF r
  <2> QED BY <2>2, <2>3
<1> HIDE DEF j
<1>4. /\ j.stat[t] \in {"READY", "RUNNING"} /\ j.error[t] = "ETIMEOUT"
      /\ \A x \in Thread : x # t => j.stat[x] = k.stat[x] /\ j.error[x] = k.error[x]
      /\ \A x \in Thread, l \in WaitList : OnList(j, x, l) <=> OnList(k, x, l) /\ x # t
  <2>1. j.stat[t] \in {"READY", "RUNNING"} /\ j.error[t] = "ETIMEOUT"
        /\ \A x \in Thread : x # t => j.stat[x] = k.stat[x] /\ j.error[x] = k.error[x]
    BY <1>2, <1>3
  <2>2. \A x \in Thread, l \in WaitList : OnList(j, x, l) <=> OnList(k, x, l) /\ x # t
    BY <1>3 DEF OnList
  <2> QED BY <2>1, <2>2
<1>5. Base(j, pc, arg)
  <2>1. \A x \in Thread : CallAgrees(j, pc, arg, x)
    <3> SUFFICES ASSUME NEW x \in Thread PROVE CallAgrees(j, pc, arg, x)
      OBVIOUS
    <3>1. CallAgrees(k, pc, arg, x) /\ arg[x] \in WaitList
      BY <1>2, Types DEF Base
    <3>2. CASE x = t
      BY <1>4, <3>2 DEF CallAgrees
    <3>3. CASE x # t
      BY <1>3, <1>4, <3>1, <3>3 DEF CallAgrees
    <3> QED BY <3>2, <3>3
  <2> QED BY <1>2, <1>3, <2>1 DEF Base
<1>6. \A x \in Thread, n \in Mutex :
          Grants(j, pc, arg, held, x, n) = Grants(k, pc, arg, held, x, n)
  <2> SUFFICES ASSUME NEW x \in Thread, NEW n \in Mutex
               PROVE  GrantedIn(j, pc, arg, x, n) <=> GrantedIn(k, pc, arg, x, n)
    BY DEF Grants
  <2>1. CASE x = t
    <3>1. CallAgrees(k, pc, arg, t)  BY <1>2 DEF Base
    <3>2. ~GrantedIn(k, pc, arg, t, n)
      BY <1>2, <3>1 DEF CallAgrees, GrantedIn, InCall
    <3> QED BY <1>4, <2>1, <3>2 DEF GrantedIn
  <2>2. CASE x # t
    BY <1>4, <2>2, Types DEF GrantedIn
  <2> QED BY <2>1, <2>2
<1>7. MutexesAgree(j, pc, arg, mutex, held)
  <2>1. HoldsAgree(j, pc, arg, mutex, held)
    BY <1>2, <1>6 DEF MutexesAgree, HoldsAgree
  <2>2. \A n \in Mutex : ToSet(j.list[n]) # {} => mutex[n].owner # RT_NULL
    <3>1. \A n \in Mutex : ToSet(j.list[n]) # {} => ToSet(k.list[n]) # {}
      BY <1>3, Types
    <3> QED BY <1>2, <3>1 DEF MutexesAgree
  <2> QED BY <1>2, <2>1, <2>2 DEF MutexesAgree
<1>8. ASSUME ~Nested PROVE PrioritiesAgree(j, mutex)
  <2>1. PrioritiesAgree(k, mutex)
    BY <1>1, <1>8 DEF Agrees
  <2>2. ASSUME Flag = "PRIO", NEW n \in Mutex
        PROVE  /\ SortedBy(j.list[n], j.prio)
               /\ \A w \in ToSet(j.list[n]) : j.prio[mutex[n].owner] <= j.prio[w]
    <3>1. n \in WaitList /\ SortedBy(k.list[n], k.prio)
          /\ \A w \in ToSet(k.list[n]) : k.prio[mutex[n].owner] <= k.prio[w]
      BY <2>1, <2>2, Types DEF PrioritiesAgree
    <3>2. SortedBy(Without(k.list[n], t), k.prio)
      BY <1>2, <3>1, WithoutOrder
    <3> QED BY <1>3, <3>1, <3>2
  <2> QED BY <1>3, <2>1, <2>2 DEF PrioritiesAgree
<1>9. Agrees(j, pc, arg, mutex, held)
  BY <1>1, <1>5, <1>7, <1>8 DEF Agrees
<1>10. Agrees(r, pc, arg, mutex, held) /\ Executes(r, pc)
  <2> HIDE DEF r
  <2> QED BY <1>9, ScheduleKeeps DEF r
<1> HIDE DEF r
<1> QED BY <1>1, <1>3, <1>10 DEF IInv

-----------------------------------------------------------------------------
(* The invariant.                                                          *)

LEMMA InitKeeps ==
    ASSUME Init PROVE IInv
<1>1. /\ k = KernelInit /\ pc = [t \in Thread |-> "user"]
      /\ mutex = [m \in Mutex |-> Free] /\ arg \in [Thread -> Mutex]
      /\ held = [t \in Thread |-> [m \in Mutex |-> 0]]
  BY MutexAssumption DEF Init, CallersInit
<1>2. /\ k \in KernelState /\ KernelInv(k, {})
      /\ \A t \in Thread : k.stat[t] \in {"READY", "RUNNING"}
  BY <1>1, KernelInitSound
<1>3. k.prio = InitPrio /\ k.nest = 0
  BY <1>1 DEF KernelInit
<1>4. \A l \in WaitList : k.list[l] = << >> /\ ToSet(k.list[l]) = {}
  <2> SUFFICES ASSUME NEW l \in WaitList PROVE k.list[l] = << >> /\ ToSet(k.list[l]) = {}
    OBVIOUS
  <2>1. l \in ListHead /\ l \notin Prio
    BY Types, KernelAssumption
  <2>2. k.list[l] = << >>
    BY <1>1, <2>1 DEF KernelInit
  <2>3. ToSet(<< >>) = {}
    <3>1. << >> \in Seq(Thread)  OBVIOUS
    <3> QED BY <3>1, EmptyList
  <2> QED BY <2>2, <2>3
<1>5. pc \in [Thread -> Label] /\ \A t \in Thread : pc[t] = "user" /\ ~InCall(pc, t)
  BY <1>1 DEF Label, InCall
<1>6. \A t \in Thread : CallAgrees(k, pc, arg, t)
  BY <1>2, <1>4, <1>5 DEF CallAgrees, OnList
<1>7. Base(k, pc, arg)
  BY <1>1, <1>2, <1>3, <1>5, <1>6, Types DEF Base
<1>8. /\ mutex \in [Mutex -> MutexState] /\ Free.owner = RT_NULL
      /\ held \in [Thread -> [Mutex -> 0 .. MaxTakes]]
      /\ \A m \in Mutex : mutex[m] = Free
      /\ \A t \in Thread, m \in Mutex : held[t][m] = 0
  <2>1. Free \in MutexState /\ Free.owner = RT_NULL
    <3>1. 0 \in 0 .. HoldRange - 1  BY Types
    <3> QED BY <3>1 DEF Free, MutexState
  <2>2. 0 \in 0 .. MaxTakes  BY Types
  <2> QED BY <1>1, <2>1, <2>2
<1>9. MutexesAgree(k, pc, arg, mutex, held)
  <2>1. HoldsAgree(k, pc, arg, mutex, held)
    BY <1>5, <1>8, Types DEF HoldsAgree, Grants, GrantedIn
  <2> QED BY <1>4, <1>5, <1>8, <2>1, Types DEF MutexesAgree
<1>10. OneEach(pc, held)
  BY <1>5, <1>8 DEF OneEach
<1>11. PrioritiesAgree(k, mutex)
  <2>1. ASSUME NEW m \in Mutex
        PROVE  /\ SortedBy(k.list[m], k.prio)
               /\ \A w \in ToSet(k.list[m]) : k.prio[mutex[m].owner] <= k.prio[w]
    <3>1. DOMAIN << >> = {}  BY EmptySeq, LenProperties
    <3>2. k.list[m] = << >> /\ ToSet(k.list[m]) = {}
      BY <1>4, Types
    <3> QED BY <3>1, <3>2 DEF SortedBy
  <2> QED BY <1>3, <1>8, <2>1 DEF PrioritiesAgree
<1>12. Executes(k, pc)
  <2>1. k.cur \in Thread  BY <1>2 DEF KernelState
  <2> QED BY <1>2, <2>1 DEF Executes
<1> QED BY <1>7, <1>9, <1>10, <1>11, <1>12 DEF IInv, Agrees

LEMMA StutterKeeps ==
    ASSUME IInv, UNCHANGED vars
    PROVE  IInv'
<1>1. k' = k /\ pc' = pc /\ mutex' = mutex /\ arg' = arg /\ held' = held
  BY DEF vars
<1> QED BY <1>1 DEF IInv

LEMMA NextKeeps ==
    ASSUME IInv, Next
    PROVE  IInv'
<1>1. ASSUME NEW t \in Thread, Continues(t) PROVE IInv'
  <2>1. CASE TakeSchedule(t)
    BY <2>1, CallSchedules DEF TakeSchedule
  <2>2. CASE ReleaseSchedule(t)
    BY <2>2, CallSchedules DEF ReleaseSchedule
  <2>3. CASE SleepSchedule(t) /\ UNCHANGED <<mutex, arg, held>>
    BY <2>3, CallSchedules DEF SleepSchedule
  <2>4. CASE TakeReturn(t)
    BY <2>4, TakeReturnKeeps
  <2>5. CASE SleepReturn(t) /\ UNCHANGED <<mutex, arg, held>>
    BY <2>5, SleepReturnKeeps
  <2> QED BY <1>1, <2>1, <2>2, <2>3, <2>4, <2>5 DEF Continues
<1>2. ASSUME NEW t \in Thread, NEW m \in Mutex, Takes(t, m) PROVE IInv'
  <2>1. CASE TakeAgain(t, m) \/ TakeFree(t, m)
    BY <2>1, TakeAgainKeeps, TakeFreeKeeps
  <2>2. CASE TakeNoWait(t, m)
    <3>1. At(t, "user") /\ "ETIMEOUT" \in Error
      BY <2>2 DEF TakeNoWait, Taken, MayTake, Error
    <3> QED BY <2>2, <3>1, FailedKeeps DEF TakeNoWait
  <2>3. CASE \E time \in {"ticks", "forever"} : TakeWait(t, m, time)
    BY <2>3, TakeWaitKeeps
  <2> QED BY <1>2, <2>1, <2>2, <2>3 DEF Takes
<1>3. ASSUME NEW t \in Thread, NEW m \in Mutex, ReleaseNotOwned(t, m) PROVE IInv'
  <2>1. At(t, "user") /\ "ERROR" \in Error
    BY <1>3 DEF ReleaseNotOwned, Error
  <2> QED BY <1>3, <2>1, FailedKeeps DEF ReleaseNotOwned
<1>4. ASSUME NEW t \in Thread, NEW m \in Mutex, ReleaseInner(t, m) \/ ReleaseLast(t, m)
      PROVE  IInv'
  BY <1>4, ReleaseInnerKeeps, ReleaseFreeKeeps, ReleaseHandOverKeeps DEF ReleaseLast
<1>5. CASE Interrupt
  BY <1>5, TickSliceKeeps, TimerExpiresKeeps DEF Interrupt
<1>6. ASSUME NEW t \in Thread, Sleeps(t) PROVE IInv'
  BY <1>6, SleepKeeps
<1> QED BY <1>1, <1>2, <1>3, <1>4, <1>5, <1>6 DEF Next

\* The invariant, of every program that releases only what it has taken.
THEOREM Invariance == Spec => []IInv
<1>1. Init => IInv
  BY InitKeeps
<1>2. IInv /\ [Next]_vars => IInv'
  BY NextKeeps, StutterKeeps
<1> QED BY <1>1, <1>2, PTL DEF Spec

-----------------------------------------------------------------------------
(* What the runs check.                                                    *)

\* Every mutex has the owner that its program goes by, held as often as it has
\* been taken, across hand-overs and time-outs of rt_mutex_take, nested or not.
THEOREM OwnersAlwaysAgree == Spec => []OwnersAgree
<1>1. IInv => OwnersAgree
  <2> SUFFICES ASSUME IInv PROVE OwnersAgree
    OBVIOUS
  <2>1. /\ Base(k, pc, arg) /\ MutexesAgree(k, pc, arg, mutex, held)
        /\ HoldsAgree(k, pc, arg, mutex, held)
    BY DEF IInv, Agrees, MutexesAgree
  <2>2. TypeOK /\ KernelInv(k, {})
    BY <2>1 DEF TypeOK, Base, MutexesAgree
  <2>3. \A m \in Mutex, t \in Thread :
            LET grants == held[t][m] + IF Granted(t, m) THEN 1 ELSE 0 IN
            IF mutex[m].owner = t THEN mutex[m].hold = grants /\ grants > 0
            ELSE grants = 0
    <3>1. \A m \in Mutex, t \in Thread : GrantedIn(k, pc, arg, t, m) <=> Granted(t, m)
      BY DEF GrantedIn, Granted, InCall, InWait
    <3> QED BY <2>1, <3>1 DEF HoldsAgree, Grants
  <2>4. \A m \in Mutex : mutex[m].owner = RT_NULL => mutex[m] = Free
    BY <2>1 DEF MutexesAgree
  <2>5. \A m \in Mutex : \A t \in Waiters(m) : InWait(t) /\ arg[t] = m
    <3> SUFFICES ASSUME NEW m \in Mutex, NEW t \in Waiters(m) PROVE InWait(t) /\ arg[t] = m
      OBVIOUS
    <3>1. t \in Thread /\ OnList(k, t, m) /\ m \in WaitList
      BY <2>1, BaseTypes, Types DEF Waiters, OnList
    <3> QED BY <2>1, <3>1 DEF Base, CallAgrees, InCall, InWait
  <2>6. ASSUME NEW m \in Mutex, Waiters(m) # {}
        PROVE  mutex[m].owner \in Thread \ Waiters(m) /\ mutex[m].value = 0
    <3>1. mutex[m].owner # RT_NULL
      BY <2>1, <2>6 DEF MutexesAgree, Waiters
    <3>2. mutex[m].owner \in Thread /\ mutex[m].value = 0
      BY <2>1, <3>1 DEF MutexesAgree, MutexState
    <3>3. mutex[m].owner \notin Waiters(m)
      <4> SUFFICES ASSUME mutex[m].owner \in Waiters(m) PROVE FALSE
        OBVIOUS
      <4> DEFINE o == mutex[m].owner
      <4>1. OnList(k, o, m) /\ InCall(pc, o) /\ arg[o] = m
        BY <2>5 DEF Waiters, OnList, InCall, InWait
      <4>2. held[o][m] = 0
        BY <2>1, <3>2, <4>1 DEF MutexesAgree
      <4>3. Grants(k, pc, arg, held, o, m) = 0
        BY <4>1, <4>2 DEF Grants, GrantedIn
      <4> QED BY <2>1, <3>2, <4>3 DEF HoldsAgree
    <3> QED BY <3>2, <3>3
  <2>7. \A t \in Thread : k.stat[t] = "SUSPEND" =>
            (InWait(t) /\ OnList(k, t, arg[t])) \/ (pc[t] \in {"sleep", "slept"} /\ t \in k.timer)
    BY <2>1 DEF Base, CallAgrees, InCall, InWait
  <2> QED BY <2>2, <2>3, <2>4, <2>5, <2>6, <2>7 DEF OwnersAgree
<1> QED BY <1>1, Invariance, PTL

\* Priority inheritance: the owner that rt_mutex_take has boosted, or that
\* rt_mutex_release has made, runs at the best priority of its waiters.  A
\* thread that takes a second mutex gives the priority back too early, and a
\* FIFO list hands the mutex over to a waiter that another one outranks.
THEOREM NoInversionWithoutNesting ==
    ASSUME ~Nested, Flag = "PRIO" PROVE Spec => []NoInversion
<1>1. IInv => NoInversion
  BY DEF IInv, Agrees, PrioritiesAgree, NoInversion, Waiters
<1> QED BY <1>1, Invariance, PTL

\* rt_mutex_release gives back the priority that rt_mutex_take has lent.
THEOREM PriorityRestoredWithoutNesting ==
    ASSUME ~Nested PROVE Spec => []PriorityRestored
<1>1. IInv => PriorityRestored
  BY DEF IInv, Agrees, PrioritiesAgree, PriorityRestored
<1> QED BY <1>1, Invariance, PTL
=============================================================================
