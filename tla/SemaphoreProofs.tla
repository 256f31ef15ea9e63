--------------------------- MODULE SemaphoreProofs ---------------------------
(***************************************************************************)
(* One semaphore, for any number of threads, priorities and tokens: its    *)
(* list and the calls in progress agree, no wakeup is lost, the best       *)
(* waiter is served, and it implements AbstractSemaphore.                  *)
(***************************************************************************)
EXTENDS Semaphore, RTKernelProofs

-----------------------------------------------------------------------------
(* The state the threads start in.                                         *)

LEMMA KernelInitSound ==
    /\ KernelInit \in KernelState /\ KernelInv(KernelInit, {})
    /\ \A t \in Thread : KernelInit.stat[t] \in {"READY", "RUNNING"}
    /\ \A t \in Thread : KernelInit.prio[KernelInit.cur] <= KernelInit.prio[t]
<1>1. /\ InitPrio \in [Thread -> Prio] /\ Thread # {} /\ IsFiniteSet(Thread)
  BY CallersAssumption
<1>2. First \in Thread /\ \A u \in Thread : InitPrio[First] <= InitPrio[u]
  BY <1>1, BestExists DEF First
<1>3. KernelInit = Launched(First, InitPrio)
  BY DEF KernelInit, Launched, ReadyAt
<1> QED BY <1>1, <1>2, <1>3, LaunchedSound

-----------------------------------------------------------------------------
(* The inductive invariant, in parts: of a kernel state j, the places p    *)
(* the threads have reached, the value v and the use u of the semaphore.   *)

Waiters(j) == ToSet(j.list[sem])

Detaching(p, t) == p[t] \in {"detach", "detach_one"}

\* what thread t's call relies on
CallAgrees(j, p, t) ==
    /\ j.stat[t] \in {"READY", "RUNNING", "SUSPEND"}
    /\ j.stat[t] = "SUSPEND" <=> t \in Waiters(j)
    /\ t \in Waiters(j) => p[t] \in {"wait", "woken"} /\ j.error[t] = "EOK"
    /\ p[t] \in {"wait", "woken", "got", "failed"} => t \in Taker
    /\ Detaching(p, t) => t \in Owner

Base(j, p) ==
    /\ j \in KernelState /\ p \in [Thread -> Label] /\ KernelInv(j, {})
    /\ j.prio = InitPrio
    /\ \A t \in Thread : CallAgrees(j, p, t)
    /\ p[Idle] = "user"
    /\ j.timer \subseteq Waiters(j)
    /\ j.nest \in {0, 1} /\ (j.nest = 1 => j.cur # Idle)
    /\ Flag = "PRIO" => SortedBy(j.list[sem], InitPrio)

\* a thread executes, suspended, only until the rt_schedule of its take
Executes(j, p) == j.stat[j.cur] = "SUSPEND" => p[j.cur] = "wait" /\ j.nest = 0

\* The object: tokens or waiters, and no waiter that nobody will resume.
ObjectAgrees(j, p, v, u) ==
    /\ v \in 0 .. ValueRange - 1 /\ u \in BOOLEAN
    /\ v > 0 => Empty(j)
    /\ ~u => j.timer = {}
    /\ \A t \in Thread : Detaching(p, t) => ~u
    /\ \A t \in Thread : p[t] = "detach_one" => ~Empty(j)
    /\ ~u /\ (\A t \in Thread : ~Detaching(p, t)) => Empty(j)

IInv ==
    /\ Base(k, pc) /\ Executes(k, pc) /\ ObjectAgrees(k, pc, value, inuse)
    /\ Owner = {} => HighestPriorityRuns

-----------------------------------------------------------------------------
(* Facts of a state that agrees.                                           *)

LEMMA Types ==
    /\ sem \in WaitList /\ sem \in ListHead /\ Idle \in Thread
    /\ Taker \subseteq Thread \ {Idle} /\ Releaser \subseteq Thread \ {Idle}
    /\ Resetter \subseteq Thread \ {Idle} /\ Owner \subseteq Thread \ {Idle}
    /\ Locker \subseteq Thread \ {Idle}
    /\ Flag \in IPCFlag /\ ValueRange \in Nat /\ ValueBound \in Nat
    /\ InitValue \in 0 .. ValueRange - 1 /\ ResetValue \subseteq 0 .. ValueRange - 1
BY SemaphoreAssumption, CallersAssumption DEF ListHead

LEMMA BaseTypes ==
    ASSUME NEW j, NEW p, Base(j, p)
    PROVE  /\ j.cur \in Thread /\ j.stat \in [Thread -> Stat]
           /\ j.error \in [Thread -> Error] /\ j.timer \subseteq Thread
           /\ j.list[sem] \in Seq(Thread) /\ IsInjective(j.list[sem])
           /\ Waiters(j) \subseteq Thread
           /\ Empty(j) <=> Waiters(j) = {}
           /\ ~Empty(j) => Head(j.list[sem]) \in Waiters(j)
           /\ j.stat[j.cur] \in {"RUNNING", "SUSPEND"}
           /\ j.stat[Idle] \in {"READY", "RUNNING"}
<1>1. /\ j.cur \in Thread /\ j.stat \in [Thread -> Stat]
      /\ j.error \in [Thread -> Error] /\ j.timer \subseteq Thread
      /\ j.list[sem] \in Seq(Thread)
  BY Types DEF Base, KernelState
<1>2. IsInjective(j.list[sem])
  BY Types DEF Base, KernelInv, LinkedOnce
<1>3. Waiters(j) \subseteq Thread
  BY Types, ListsHoldThreads DEF Base, Waiters
<1>4. /\ Empty(j) <=> Waiters(j) = {}
      /\ ~Empty(j) => Head(j.list[sem]) \in Waiters(j)
  BY <1>1, EmptyList DEF Empty, Waiters
<1>5. j.stat[j.cur] \in {"RUNNING", "SUSPEND"}
  BY <1>1 DEF Base, CallAgrees, KernelInv, OneRunning
<1>6. j.stat[Idle] \in {"READY", "RUNNING"}
  BY Types DEF Base, CallAgrees
<1> QED BY <1>1, <1>2, <1>3, <1>4, <1>5, <1>6

\* rt_schedule leaves the waiters and their calls alone.
LEMMA ScheduleKeeps ==
    ASSUME NEW j, NEW p, Base(j, p), j.nest = 0 \/ j.stat[j.cur] # "SUSPEND"
    PROVE  LET r == rt_schedule(j) IN
           /\ Base(r, p) /\ Executes(r, p)
           /\ r.list[sem] = j.list[sem] /\ r.timer = j.timer /\ r.error = j.error
           /\ r.nest = j.nest
           /\ r.nest = 0 => BestRuns(r)
           /\ r.nest # 0 => r = j
<1> DEFINE r == rt_schedule(j)
<1>1. /\ r \in KernelState /\ KernelInv(r, {})
      /\ r.prio = j.prio /\ r.error = j.error /\ r.timer = j.timer /\ r.nest = j.nest
      /\ \A t \in Thread :
             \/ r.stat[t] = j.stat[t]
             \/ {r.stat[t], j.stat[t]} \subseteq {"READY", "RUNNING"}
      /\ \A l \in WaitList : r.list[l] = j.list[l]
      /\ j.nest = 0 => BestRuns(r)
      /\ j.nest # 0 => r = j
  <2>1. /\ j \in KernelState /\ KernelInv(j, {}) /\ j.stat[Idle] \in {"READY", "RUNNING"}
        /\ Idle \in Thread
    BY BaseTypes, CallersAssumption DEF Base
  <2> HIDE DEF r
  <2> QED BY <2>1, SchedulePicks DEF r
<1> HIDE DEF r
<1>2. r.list[sem] = j.list[sem] /\ Waiters(r) = Waiters(j)
  BY <1>1, Types DEF Waiters
<1>3. \A t \in Thread : CallAgrees(r, p, t)
  BY <1>1, <1>2 DEF Base, CallAgrees
<1>4. r.nest = 1 => r.cur # Idle
  BY <1>1 DEF Base
<1>5. Base(r, p)
  BY <1>1, <1>2, <1>3, <1>4 DEF Base
<1>6. Executes(r, p)
  BY <1>1 DEF BestRuns, Executes
<1> QED BY <1>1, <1>2, <1>5, <1>6 DEF r

-----------------------------------------------------------------------------
(* Waking a waiter.                                                        *)

\* Whoever takes one waiter off the list, with its timer, and makes it ready
\* leaves the others as they were.
LEMMA WakeKeeps ==
    ASSUME NEW j, NEW p, Base(j, p), NEW t \in Waiters(j),
           NEW r \in KernelState, KernelInv(r, {}),
           r.stat = [j.stat EXCEPT ![t] = IF t = j.cur THEN "RUNNING" ELSE "READY"],
           r.timer = j.timer \ {t},
           r.list[sem] = Without(j.list[sem], t),
           r.cur = j.cur, r.prio = j.prio, r.nest = j.nest,
           \A x \in Thread : x # t => r.error[x] = j.error[x]
    PROVE  /\ Base(r, p) /\ Waiters(r) = Waiters(j) \ {t}
           /\ Executes(j, p) => Executes(r, p)
           /\ r.stat[r.cur] = "SUSPEND" => j.stat[j.cur] = "SUSPEND"
<1>1. /\ t \in Thread /\ j.list[sem] \in Seq(Thread) /\ IsInjective(j.list[sem])
      /\ j.stat \in [Thread -> Stat] /\ j.cur \in Thread
  BY BaseTypes
<1>2. Waiters(r) = Waiters(j) \ {t}
  BY <1>1, WithoutElements DEF Waiters
<1>3. \A x \in Thread : r.stat[x] = IF x # t THEN j.stat[x]
                                   ELSE IF t = j.cur THEN "RUNNING" ELSE "READY"
  BY <1>1
<1>4. \A x \in Thread : CallAgrees(r, p, x)
  BY <1>2, <1>3 DEF Base, CallAgrees
<1>5. Flag = "PRIO" => SortedBy(r.list[sem], InitPrio)
  BY <1>1, WithoutOrder DEF Base
<1>6. Base(r, p)
  BY <1>2, <1>4, <1>5 DEF Base
<1>7. r.stat[r.cur] = "SUSPEND" => j.stat[j.cur] = "SUSPEND"
  BY <1>1, <1>3
<1> QED BY <1>2, <1>6, <1>7 DEF Executes

\* rt_ipc_list_resume
LEMMA ResumeKeeps ==
    ASSUME NEW j, NEW p, Base(j, p), ~Empty(j)
    PROVE  LET h == Head(j.list[sem])
               r == rt_ipc_list_resume(j, sem)
           IN  /\ h \in Waiters(j) /\ h \in Thread
               /\ Base(r, p) /\ Waiters(r) = Waiters(j) \ {h}
               /\ r.list[sem] = Without(j.list[sem], h)
               /\ r.error = j.error /\ r.cur = j.cur /\ r.nest = j.nest
               /\ r.timer = j.timer \ {h}
               /\ Executes(j, p) => Executes(r, p)
               /\ r.stat[r.cur] = "SUSPEND" => j.stat[j.cur] = "SUSPEND"
<1> DEFINE h == Head(j.list[sem])
           r == rt_ipc_list_resume(j, sem)
<1>1. h \in Waiters(j) /\ h \in Thread /\ j.stat[h] = "SUSPEND"
  BY BaseTypes DEF Base, CallAgrees
<1>2. r = rt_thread_resume(j, h)
  BY DEF rt_ipc_list_resume
<1> HIDE DEF h, r
<1> DEFINE z == rt_thread_resume(j, h)
<1>3. /\ z \in KernelState /\ KernelInv(z, {})
      /\ z.stat = [j.stat EXCEPT ![h] = IF h = j.cur THEN "RUNNING" ELSE "READY"]
      /\ z.timer = j.timer \ {h}
      /\ \A l \in WaitList : z.list[l] = Without(j.list[l], h)
      /\ z.cur = j.cur /\ z.prio = j.prio /\ z.error = j.error /\ z.nest = j.nest
  <2>1. j \in KernelState /\ KernelInv(j, {})  BY DEF Base
  <2> HIDE DEF z
  <2> QED BY <1>1, <2>1, ResumePreserves DEF z
<1> HIDE DEF z
<1>4. r = z  BY <1>2 DEF z
<1>5. r.list[sem] = Without(j.list[sem], h)
  BY <1>3, <1>4, Types
<1>6. /\ Base(r, p) /\ Waiters(r) = Waiters(j) \ {h}
      /\ Executes(j, p) => Executes(r, p)
      /\ r.stat[r.cur] = "SUSPEND" => j.stat[j.cur] = "SUSPEND"
  BY <1>1, <1>3, <1>4, <1>5, WakeKeeps
<1> QED BY <1>1, <1>3, <1>4, <1>5, <1>6 DEF h, r

\* one turn of rt_ipc_list_resume_all
LEMMA ResumeErrorKeeps ==
    ASSUME NEW j, NEW p, Base(j, p), ~Empty(j)
    PROVE  LET h == Head(j.list[sem])
               r == rt_ipc_list_resume_error(j, sem)
           IN  /\ h \in Waiters(j) /\ h \in Thread
               /\ Base(r, p) /\ Waiters(r) = Waiters(j) \ {h}
               /\ r.list[sem] = Without(j.list[sem], h)
               /\ r.error = [j.error EXCEPT ![h] = "ERROR"]
               /\ r.cur = j.cur /\ r.nest = j.nest
               /\ r.timer = j.timer \ {h}
               /\ Executes(j, p) => Executes(r, p)
               /\ r.stat[r.cur] = "SUSPEND" => j.stat[j.cur] = "SUSPEND"
<1> DEFINE h == Head(j.list[sem])
           r == rt_ipc_list_resume_error(j, sem)
<1>1. /\ h \in Waiters(j) /\ h \in Thread /\ j.stat[h] = "SUSPEND"
      /\ j.error \in [Thread -> Error] /\ j.list[sem] # << >>
  BY BaseTypes DEF Base, CallAgrees, Empty
<1>3. /\ r \in KernelState /\ KernelInv(r, {})
      /\ r.stat = [j.stat EXCEPT ![h] = IF h = j.cur THEN "RUNNING" ELSE "READY"]
      /\ r.timer = j.timer \ {h}
      /\ \A l \in WaitList : r.list[l] = Without(j.list[l], h)
      /\ r.cur = j.cur /\ r.prio = j.prio
      /\ r.error = [j.error EXCEPT ![h] = "ERROR"] /\ r.nest = j.nest
  <2>1. j \in KernelState /\ KernelInv(j, {}) /\ sem \in WaitList
    BY Types DEF Base
  <2> HIDE DEF r
  <2> QED BY <1>1, <2>1, ResumeErrorPreserves DEF r, h
<1> HIDE DEF h, r
<1>5. r.list[sem] = Without(j.list[sem], h) /\ \A x \in Thread : x # h => r.error[x] = j.error[x]
  BY <1>1, <1>3, Types
<1>6. /\ Base(r, p) /\ Waiters(r) = Waiters(j) \ {h}
      /\ Executes(j, p) => Executes(r, p)
      /\ r.stat[r.cur] = "SUSPEND" => j.stat[j.cur] = "SUSPEND"
  BY <1>1, <1>3, <1>5, WakeKeeps
<1> QED BY <1>1, <1>3, <1>5, <1>6 DEF h, r

\* a timer, up to the rt_schedule of rt_thread_timeout
LEMMA TimeoutKeeps ==
    ASSUME NEW j, NEW p, Base(j, p), NEW t \in Waiters(j)
    PROVE  LET r == TimedOut(j, t) IN
           /\ rt_thread_timeout(j, t) = rt_schedule(r)
           /\ Base(r, p) /\ Waiters(r) = Waiters(j) \ {t}
           /\ r.list[sem] = Without(j.list[sem], t)
           /\ r.error = [j.error EXCEPT ![t] = "ETIMEOUT"]
           /\ r.cur = j.cur /\ r.nest = j.nest
           /\ r.timer = j.timer \ {t}
           /\ Executes(j, p) => Executes(r, p)
           /\ r.stat[r.cur] = "SUSPEND" => j.stat[j.cur] = "SUSPEND"
<1> DEFINE r == TimedOut(j, t)
<1>1. t \in Thread /\ j.stat[t] = "SUSPEND" /\ j.error \in [Thread -> Error]
  BY BaseTypes DEF Base, CallAgrees
<1>3. /\ rt_thread_timeout(j, t) = rt_schedule(r)
      /\ r \in KernelState /\ KernelInv(r, {})
      /\ r.stat = [j.stat EXCEPT ![t] = IF t = j.cur THEN "RUNNING" ELSE "READY"]
      /\ r.timer = j.timer \ {t}
      /\ \A l \in WaitList : r.list[l] = Without(j.list[l], t)
      /\ r.cur = j.cur /\ r.prio = j.prio
      /\ r.error = [j.error EXCEPT ![t] = "ETIMEOUT"] /\ r.nest = j.nest
  <2>1. j \in KernelState /\ KernelInv(j, {})
    BY DEF Base
  <2> HIDE DEF r
  <2> QED BY <1>1, <2>1, TimeoutPreserves DEF r
<1> HIDE DEF r
<1>5. r.list[sem] = Without(j.list[sem], t) /\ \A x \in Thread : x # t => r.error[x] = j.error[x]
  BY <1>1, <1>3, Types
<1>6. /\ Base(r, p) /\ Waiters(r) = Waiters(j) \ {t}
      /\ Executes(j, p) => Executes(r, p)
      /\ r.stat[r.cur] = "SUSPEND" => j.stat[j.cur] = "SUSPEND"
  BY <1>1, <1>3, <1>5, WakeKeeps
<1> QED BY <1>1, <1>3, <1>5, <1>6 DEF r

\* The turns of rt_ipc_list_resume_all make a function: there is one for each
\* number of turns.
LEMMA TurnsExist ==
    ASSUME NEW j, NEW n \in Nat
    PROVE  \E f : f = [i \in 0 .. n |-> IF i = 0 THEN j
                                       ELSE rt_ipc_list_resume_error(f[i - 1], sem)]
<1> DEFINE Turns(f, m) ==
               f = [i \in 0 .. m |-> IF i = 0 THEN j
                                    ELSE rt_ipc_list_resume_error(f[i - 1], sem)]
           G == {m \in 0 .. n : \E f : Turns(f, m)}
<1>1. 0 \in G
  <2> DEFINE f == [i \in 0 .. 0 |-> j]
  <2>1. Turns(f, 0)
    <3>1. \A i \in 0 .. 0 : j = IF i = 0 THEN j
                               ELSE rt_ipc_list_resume_error(f[i - 1], sem)
      OBVIOUS
    <3> QED BY <3>1
  <2> HIDE DEF f, Turns
  <2> QED BY <2>1
<1>2. ASSUME NEW m \in 0 .. n - 1, m \in G PROVE m + 1 \in G
  <2>1. PICK f : Turns(f, m)
    <3> HIDE DEF Turns
    <3> QED BY <1>2
  <2> DEFINE g == [i \in 0 .. m + 1 |->
                      IF i = m + 1 THEN rt_ipc_list_resume_error(f[m], sem) ELSE f[i]]
             h == [i \in 0 .. m + 1 |->
                      IF i = 0 THEN j ELSE rt_ipc_list_resume_error(g[i - 1], sem)]
  <2>2. ASSUME NEW i \in 0 .. m + 1 PROVE g[i] = h[i]
    <3>0. m \in Nat /\ m + 1 # 0 /\ i \in Int  OBVIOUS
    <3>1. CASE i = m + 1
      <4>1. i # 0 /\ i - 1 = m /\ m \in 0 .. m + 1 /\ m # m + 1  BY <3>0, <3>1
      <4>2. g[i - 1] = f[m]  BY <4>1
      <4>3. h[i] = rt_ipc_list_resume_error(g[i - 1], sem)  BY <4>1
      <4>4. g[i] = rt_ipc_list_resume_error(f[m], sem)  BY <3>1
      <4> HIDE DEF g, h
      <4> QED BY <4>2, <4>3, <4>4
    <3>2. CASE i = 0
      <4>1. 0 \in 0 .. m /\ 0 \in 0 .. m + 1 /\ 0 # m + 1  BY <3>0
      <4>2. f[0] = j  BY <2>1, <4>1
      <4> QED BY <3>2, <4>1, <4>2
    <3>3. CASE i # m + 1 /\ i # 0
      <4>1. i \in 0 .. m /\ i - 1 \in 0 .. m + 1 /\ i - 1 # m + 1  BY <3>0, <3>3
      <4>2. f[i] = rt_ipc_list_resume_error(f[i - 1], sem)  BY <2>1, <3>3, <4>1
      <4>3. g[i - 1] = f[i - 1]  BY <4>1
      <4>4. g[i] = f[i]  BY <3>3
      <4>5. h[i] = rt_ipc_list_resume_error(g[i - 1], sem)  BY <3>3
      <4> HIDE DEF g, h
      <4> QED BY <4>2, <4>3, <4>4, <4>5
    <3> QED BY <3>1, <3>2, <3>3
  <2>3. g = h
    <3>1. g = [i \in 0 .. m + 1 |-> g[i]] /\ h = [i \in 0 .. m + 1 |-> h[i]]
      OBVIOUS
    <3> HIDE DEF g, h
    <3> QED BY <2>2, <3>1
  <2>4. Turns(g, m + 1)
    <3> HIDE DEF g
    <3> QED BY <2>3
  <2>5. m + 1 \in 0 .. n  OBVIOUS
  <2> HIDE DEF g, h, Turns
  <2> QED BY <2>4, <2>5
<1>3. n \in 0 .. n  OBVIOUS
<1> HIDE DEF G
<1>4. n \in G
  BY <1>1, <1>2, <1>3, InductionUpTo
<1> QED BY <1>4 DEF G

\* rt_ipc_list_resume_all: all waiters are told and resumed.
LEMMA ResumeAllKeeps ==
    ASSUME NEW j, NEW p, Base(j, p)
    PROVE  LET r == rt_ipc_list_resume_all(j) IN
           /\ Base(r, p) /\ Waiters(r) = {}
           /\ \A x \in Thread : r.error[x] = IF x \in Waiters(j) THEN "ERROR" ELSE j.error[x]
           /\ r.cur = j.cur /\ r.nest = j.nest
           /\ Executes(j, p) => Executes(r, p)
           /\ r.stat[r.cur] = "SUSPEND" => j.stat[j.cur] = "SUSPEND"
<1> DEFINE n == Len(j.list[sem])
           F == CHOOSE f : f = [i \in 0 .. n |-> IF i = 0 THEN j
                                       ELSE rt_ipc_list_resume_error(f[i - 1], sem)]
           r == rt_ipc_list_resume_all(j)
<1>1. n \in Nat /\ j.list[sem] \in Seq(Thread)
  BY BaseTypes, LenProperties
<1>2. r = F[n]
  BY DEF rt_ipc_list_resume_all
<1>3. F = [i \in 0 .. n |-> IF i = 0 THEN j
                            ELSE rt_ipc_list_resume_error(F[i - 1], sem)]
  <2>1. \E f : f = [i \in 0 .. n |-> IF i = 0 THEN j
                                    ELSE rt_ipc_list_resume_error(f[i - 1], sem)]
    <3> HIDE DEF n
    <3> QED BY <1>1, TurnsExist
  <2> HIDE DEF n
  <2> QED BY <2>1
<1> HIDE DEF F, r
<1> DEFINE Good(i) ==
               /\ Base(F[i], p) /\ Waiters(F[i]) \subseteq Waiters(j)
               /\ Len(F[i].list[sem]) = n - i
               /\ \A x \in Thread : F[i].error[x] =
                      IF x \in Waiters(j) \ Waiters(F[i]) THEN "ERROR" ELSE j.error[x]
               /\ F[i].cur = j.cur /\ F[i].nest = j.nest
               /\ Executes(j, p) => Executes(F[i], p)
               /\ F[i].stat[F[i].cur] = "SUSPEND" => j.stat[j.cur] = "SUSPEND"
           G == {i \in 0 .. n : Good(i)}
<1>4. 0 \in G
  <2>1. F[0] = j /\ 0 \in 0 .. n
    <3> HIDE DEF n
    <3> QED BY <1>1, <1>3
  <2>2. Good(0)
    <3>1. n - 0 = n  BY <1>1
    <3> QED BY <2>1, <3>1
  <2> QED BY <2>1, <2>2
<1>5. ASSUME NEW i \in 0 .. n - 1, i \in G PROVE i + 1 \in G
  <2> HIDE DEF n
  <2>0. /\ i \in Int /\ i + 1 \in 0 .. n /\ i + 1 # 0 /\ (i + 1) - 1 = i
        /\ n - (i + 1) = (n - i) - 1 /\ n - i # 0
    BY <1>1
  <2>1. Good(i)  BY <1>5
  <2>2. F[i + 1] = rt_ipc_list_resume_error(F[i], sem)
    BY <1>3, <2>0
  <2>3. F[i].list[sem] \in Seq(Thread) /\ F[i].error \in [Thread -> Error]
    BY <2>1, BaseTypes
  <2>4. ~Empty(F[i])
    <3>1. Len(F[i].list[sem]) # 0  BY <2>0, <2>1
    <3> QED BY <2>3, <3>1, EmptySeq DEF Empty
  <2> DEFINE q == F[i]
             h == Head(q.list[sem])
             z == rt_ipc_list_resume_error(q, sem)
  <2>5. /\ h \in Waiters(q) /\ h \in Thread
        /\ Base(z, p) /\ Waiters(z) = Waiters(q) \ {h}
        /\ z.list[sem] = Without(q.list[sem], h)
        /\ z.error = [q.error EXCEPT ![h] = "ERROR"]
        /\ z.cur = q.cur /\ z.nest = q.nest
        /\ Executes(q, p) => Executes(z, p)
        /\ z.stat[z.cur] = "SUSPEND" => q.stat[q.cur] = "SUSPEND"
    <3>1. Base(q, p) /\ ~Empty(q)  BY <2>1, <2>4
    <3> HIDE DEF q, z
    <3> QED BY <3>1, ResumeErrorKeeps DEF z
  <2>6. F[i + 1] = z  BY <2>2
  <2> HIDE DEF h, z
  <2>7. Len(z.list[sem]) = n - (i + 1)
    <3>1. Len(Without(q.list[sem], h)) = Len(q.list[sem]) - 1
      BY <2>3, <2>5, WithoutLength DEF Waiters
    <3> QED BY <2>0, <2>1, <2>5, <3>1
  <2>8. \A x \in Thread : z.error[x] =
            IF x \in Waiters(j) \ Waiters(z) THEN "ERROR" ELSE j.error[x]
    BY <2>1, <2>3, <2>5
  <2>9. Good(i + 1)
    BY <2>1, <2>5, <2>6, <2>7, <2>8
  <2> QED BY <2>0, <2>9
<1>6. Good(n)
  <2>1. n \in 0 .. n  BY <1>1
  <2> HIDE DEF n, G
  <2>2. n \in G
    BY <1>1, <1>4, <1>5, <2>1, InductionUpTo
  <2> QED BY <2>2 DEF G
<1>7. Waiters(r) = {}
  <2>1. Len(r.list[sem]) = 0
    BY <1>1, <1>2, <1>6
  <2>2. r.list[sem] = << >>
    <3>1. r.list[sem] \in Seq(Thread)  BY <1>2, <1>6, BaseTypes
    <3> QED BY <2>1, <3>1, EmptySeq
  <2> QED BY <1>2, <1>6, <2>2, BaseTypes DEF Empty
<1>8. \A x \in Thread : r.error[x] = IF x \in Waiters(j) THEN "ERROR" ELSE j.error[x]
  BY <1>2, <1>6, <1>7
<1> QED BY <1>2, <1>6, <1>7, <1>8 DEF r

-----------------------------------------------------------------------------
(* What the steps have in common.                                          *)

\* thread t goes on at label l
LEMMA GotoPlaces ==
    ASSUME NEW j, Base(j, pc), NEW t \in Thread, NEW l \in Label,
           pc' = [pc EXCEPT ![t] = l]
    PROVE  /\ pc' \in [Thread -> Label]
           /\ \A x \in Thread : pc'[x] = IF x = t THEN l ELSE pc[x]
BY DEF Base

LEMMA GotoKeeps ==
    ASSUME NEW j, Base(j, pc), NEW t \in Thread, t # Idle, NEW l \in Label,
           pc' = [pc EXCEPT ![t] = l],
           l \in {"wait", "woken", "got", "failed"} => t \in Taker,
           l \in {"detach", "detach_one"} => t \in Owner,
           t \in Waiters(j) => l \in {"wait", "woken"}
    PROVE  Base(j, pc')
<1>1. /\ pc' \in [Thread -> Label]
      /\ \A x \in Thread : pc'[x] = IF x = t THEN l ELSE pc[x]
  BY GotoPlaces
<1>2. \A x \in Thread : CallAgrees(j, pc', x)
  BY <1>1 DEF Base, CallAgrees, Detaching
<1> QED BY <1>1, <1>2, Types DEF Base

\* the thread that executes at a label other than wait is not suspended
LEMMA CallerRuns ==
    ASSUME IInv, NEW t, k.cur = t, pc[t] # "wait"
    PROVE  /\ t \in Thread /\ k.stat[t] = "RUNNING" /\ t \notin Waiters(k)
           /\ Base(k, pc)
<1>1. /\ t \in Thread /\ k.stat[t] \in {"RUNNING", "SUSPEND"} /\ Base(k, pc)
  BY BaseTypes DEF IInv
<1>2. k.stat[t] = "RUNNING"
  BY <1>1 DEF IInv, Executes
<1> QED BY <1>1, <1>2 DEF Base, CallAgrees

\* No step but those of the owner moves a thread into or out of the loop of
\* rt_sem_detach, and while the loop runs nobody else changes the list.
LEMMA ObjectStep ==
    ASSUME ObjectAgrees(k, pc, value, inuse), NEW j, NEW p,
           \A x \in Thread : Detaching(p, x) <=> Detaching(pc, x),
           \A x \in Thread : p[x] = "detach_one" => pc[x] = "detach_one",
           NEW v \in 0 .. ValueRange - 1, v > 0 => Empty(j),
           inuse \/ (j.timer \subseteq k.timer /\ (Empty(j) <=> Empty(k)))
    PROVE  ObjectAgrees(j, p, v, inuse)
BY DEF ObjectAgrees, Detaching

LEMMA GotoObject ==
    ASSUME IInv, NEW t \in Thread, NEW l \in Label, pc' = [pc EXCEPT ![t] = l],
           pc[t] \notin {"detach", "detach_one"}, l \notin {"detach", "detach_one"},
           NEW j, NEW v \in 0 .. ValueRange - 1, v > 0 => Empty(j),
           inuse \/ (j.timer \subseteq k.timer /\ (Empty(j) <=> Empty(k)))
    PROVE  ObjectAgrees(j, pc', v, inuse)
<1>1. \A x \in Thread : pc'[x] = IF x = t THEN l ELSE pc[x]
  BY GotoPlaces DEF IInv
<1>2. /\ \A x \in Thread : Detaching(pc', x) <=> Detaching(pc, x)
      /\ \A x \in Thread : pc'[x] = "detach_one" => pc[x] = "detach_one"
  BY <1>1 DEF Detaching
<1> QED BY <1>2, ObjectStep DEF IInv

\* The best thread has the processor, or a call of rt_schedule is due, or the
\* scheduler is locked.
LEMMA StillBest ==
    ASSUME IInv, Owner = {}, k'.cur = k.cur,
           \/ pc'[k.cur] \in {"schedule", "wait"}
           \/ k'.nest # 0
           \/ k' = k /\ pc[k.cur] \notin {"schedule", "wait"}
    PROVE  HighestPriorityRuns'
BY DEF IInv, HighestPriorityRuns

LEMMA NowBest ==
    ASSUME k'.nest = 0 => BestRuns(k')
    PROVE  HighestPriorityRuns'
BY DEF BestRuns, HighestPriorityRuns

\* A step in which the kernel state stays and t goes on at another label.
LEMMA PlainKeeps ==
    ASSUME IInv, NEW t \in Thread, k.cur = t, t # Idle, pc[t] # "wait",
           pc[t] \notin {"detach", "detach_one"},
           NEW l \in Label, l \notin {"detach", "detach_one", "wait", "woken"},
           l \in {"got", "failed"} => t \in Taker,
           pc[t] # "schedule", Goto(t, k, l),
           value' \in 0 .. ValueRange - 1, value' > 0 => Empty(k), inuse' = inuse
    PROVE  IInv'
<1>1. k' = k /\ pc' = [pc EXCEPT ![t] = l]
  BY DEF Goto
<1>2. Base(k, pc) /\ t \notin Waiters(k) /\ k.stat[t] = "RUNNING"
  BY CallerRuns
<1>3. Base(k', pc')
  BY <1>1, <1>2, GotoKeeps
<1>4. Executes(k', pc')
  BY <1>1, <1>2 DEF Executes
<1>5. ObjectAgrees(k', pc', value', inuse')
  BY <1>1, GotoObject
<1>6. Owner = {} => HighestPriorityRuns'
  BY <1>1, StillBest
<1> QED BY <1>3, <1>4, <1>5, <1>6 DEF IInv

\* A call of rt_schedule, in a thread or in an interrupt.
LEMMA ScheduledKeeps ==
    ASSUME NEW j, Base(j, pc'), j.nest = 0 \/ j.stat[j.cur] # "SUSPEND",
           k' = rt_schedule(j), ObjectAgrees(j, pc', value', inuse')
    PROVE  IInv' /\ Waiters(k') = Waiters(j) /\ k'.error = j.error
<1>1. /\ Base(k', pc') /\ Executes(k', pc')
      /\ k'.list[sem] = j.list[sem] /\ k'.timer = j.timer /\ k'.error = j.error
      /\ k'.nest = 0 => BestRuns(k')
  BY ScheduleKeeps
<1>2. ObjectAgrees(k', pc', value', inuse') /\ Waiters(k') = Waiters(j)
  BY <1>1 DEF ObjectAgrees, Empty, Waiters
<1>3. HighestPriorityRuns'
  BY <1>1, NowBest
<1> QED BY <1>1, <1>2, <1>3 DEF IInv

-----------------------------------------------------------------------------
(* rt_sem_take                                                             *)

LEMMA TakeTokenKeeps ==
    ASSUME IInv, NEW t \in Thread, TakeToken(t)
    PROVE  IInv'
<1>1. k.cur = t /\ pc[t] = "user" /\ t \in Taker /\ t # Idle /\ value > 0
      /\ value' = value - 1 /\ inuse' = inuse /\ Goto(t, k, "got")
  BY Types DEF TakeToken, At
<1>2. value' \in 0 .. ValueRange - 1 /\ Empty(k)
  BY <1>1, Types DEF IInv, ObjectAgrees
<1>3. "got" \in Label  BY DEF Label
<1> QED BY <1>1, <1>2, <1>3, PlainKeeps

LEMMA TakeNoWaitKeeps ==
    ASSUME IInv, NEW t \in Thread, TakeNoWait(t)
    PROVE  IInv'
<1>1. k.cur = t /\ pc[t] = "user" /\ t \in Taker /\ t # Idle
      /\ value' = value /\ inuse' = inuse /\ Goto(t, k, "failed")
  BY Types DEF TakeNoWait, At
<1>2. value' \in 0 .. ValueRange - 1 /\ (value' > 0 => Empty(k))
  BY <1>1 DEF IInv, ObjectAgrees
<1>3. "failed" \in Label  BY DEF Label
<1> QED BY <1>1, <1>2, <1>3, PlainKeeps

LEMMA TakeReturnKeeps ==
    ASSUME IInv, NEW t \in Thread, TakeReturn(t)
    PROVE  IInv'
<1> DEFINE l == IF k.error[t] = "EOK" THEN "got" ELSE "failed"
<1>1. k.cur = t /\ pc[t] = "woken" /\ value' = value /\ inuse' = inuse /\ Goto(t, k, l)
  BY DEF TakeReturn, At
<1>2. t \in Taker /\ t # Idle
  BY <1>1 DEF IInv, Base, CallAgrees
<1>3. value' \in 0 .. ValueRange - 1 /\ (value' > 0 => Empty(k))
  BY <1>1 DEF IInv, ObjectAgrees
<1>4. l \in Label /\ l \in {"got", "failed"}  BY DEF Label
<1> HIDE DEF l
<1> QED BY <1>1, <1>2, <1>3, <1>4, PlainKeeps

LEMMA FinishKeeps ==
    ASSUME IInv, NEW t \in Thread, Finish(t)
    PROVE  IInv'
<1>1. k.cur = t /\ pc[t] \in {"got", "failed"}
      /\ value' = value /\ inuse' = inuse /\ Goto(t, k, "user")
  BY DEF Finish
<1>2. t # Idle
  BY <1>1 DEF IInv, Base
<1>3. value' \in 0 .. ValueRange - 1 /\ (value' > 0 => Empty(k))
  BY <1>1 DEF IInv, ObjectAgrees
<1>4. "user" \in Label  BY DEF Label
<1> QED BY <1>1, <1>2, <1>3, <1>4, PlainKeeps

\* what a take that waits does to the kernel state
Suspended(t, time) ==
    LET listed == rt_ipc_list_suspend([k EXCEPT !.error[t] = "EOK"], sem, t, Flag)
    IN  IF time = "ticks" THEN rt_timer_start(listed, t) ELSE listed

\* The thread is in the list, and its timer runs if it gave a time.
LEMMA WaitEffect ==
    ASSUME IInv, NEW t \in Thread, k.cur = t, pc[t] = "user", t \in Taker,
           NEW time, pc' = [pc EXCEPT ![t] = "wait"]
    PROVE  LET r == Suspended(t, time) IN
           /\ Base(r, pc') /\ Waiters(r) = Waiters(k) \cup {t}
           /\ r.error = [k.error EXCEPT ![t] = "EOK"]
           /\ r.cur = k.cur /\ r.nest = k.nest
           /\ r.timer \subseteq k.timer \cup {t}
<1> DEFINE E == [k.error EXCEPT ![t] = "EOK"]
           j == [k EXCEPT !.error = E]
           listed == rt_ipc_list_suspend(j, sem, t, Flag)
           r == Suspended(t, time)
<1>1. Base(k, pc) /\ t \notin Waiters(k) /\ k.stat[t] = "RUNNING" /\ t # Idle
      /\ k \in KernelState /\ KernelInv(k, {})
  BY CallerRuns, Types DEF Base
<1>2. E \in [Thread -> Error]
  BY <1>1 DEF KernelState, Error
<1>3. [k EXCEPT !.error[t] = "EOK"] = j
  BY <1>1 DEF KernelState
<1> HIDE DEF E
<1>4. /\ j \in KernelState /\ j.cur = k.cur /\ j.stat = k.stat /\ j.yield = k.yield
      /\ j.prio = k.prio /\ j.error = E /\ j.timer = k.timer
      /\ j.list = k.list /\ j.group = k.group /\ j.nest = k.nest
  BY <1>1, <1>2 DEF KernelState
<1> HIDE DEF j
<1>5. KernelInv(j, {})
  BY <1>1, <1>4, SameLists
<1>6. /\ listed \in KernelState /\ KernelInv(listed, {})
      /\ ToSet(listed.list[sem]) = ToSet(j.list[sem]) \cup {t}
      /\ Flag = "PRIO" /\ SortedBy(j.list[sem], j.prio) =>
             SortedBy(listed.list[sem], j.prio)
      /\ listed.stat = [j.stat EXCEPT ![t] = "SUSPEND"]
      /\ listed.timer = j.timer \ {t}
      /\ listed.cur = j.cur /\ listed.yield = j.yield
      /\ listed.prio = j.prio /\ listed.error = j.error /\ listed.nest = j.nest
  <2>1. j.stat[t] \in {"READY", "RUNNING"}  BY <1>1, <1>4
  <2> HIDE DEF listed
  <2>2. sem \in WaitList /\ Flag \in IPCFlag  BY Types
  <2>3. /\ listed \in KernelState /\ KernelInv(listed, {})
        /\ AsleepOn(listed, j, t, sem, Flag)
    BY <1>4, <1>5, <2>1, <2>2, IpcSuspendPreserves DEF listed
  <2> QED BY <2>3 DEF AsleepOn
<1>7. r = IF time = "ticks" THEN rt_timer_start(listed, t) ELSE listed
  BY <1>3 DEF Suspended
<1> HIDE DEF listed, r
<1>8. listed.stat[t] = "SUSPEND"
  BY <1>1, <1>4, <1>6 DEF KernelState
<1>9. /\ r \in KernelState /\ KernelInv(r, {})
      /\ r.timer \subseteq listed.timer \cup {t} /\ r.list = listed.list
      /\ r.cur = listed.cur /\ r.stat = listed.stat /\ r.yield = listed.yield
      /\ r.prio = listed.prio /\ r.error = listed.error /\ r.nest = listed.nest
  <2>1. CASE time = "ticks"
    <3> DEFINE z == rt_timer_start(listed, t)
    <3>1. /\ z \in KernelState /\ KernelInv(z, {})
          /\ z.timer = listed.timer \cup {t} /\ z.list = listed.list
          /\ z.cur = listed.cur /\ z.stat = listed.stat /\ z.yield = listed.yield
          /\ z.prio = listed.prio /\ z.error = listed.error /\ z.nest = listed.nest
      <4> HIDE DEF z
      <4>1. listed \in KernelState /\ KernelInv(listed, {})
        BY <1>6
      <4> QED BY ONLY ZenonT(60), <4>1, <1>8, t \in Thread, TimerStartPreserves DEF z
    <3>2. r = z  BY <1>7, <2>1
    <3> HIDE DEF z
    <3> QED BY <3>1, <3>2
  <2>2. CASE time # "ticks"
    BY <1>6, <1>7, <2>2
  <2> QED BY <2>1, <2>2
<1>10. Waiters(r) = Waiters(k) \cup {t}
  BY <1>4, <1>6, <1>9 DEF Waiters
<1>11. /\ \A x \in Thread : r.stat[x] = IF x = t THEN "SUSPEND" ELSE k.stat[x]
       /\ \A x \in Thread : r.error[x] = IF x = t THEN "EOK" ELSE k.error[x]
  BY <1>1, <1>4, <1>6, <1>9 DEF KernelState, E
<1>12. "wait" \in Label /\ pc' \in [Thread -> Label]
       /\ \A x \in Thread : pc'[x] = IF x = t THEN "wait" ELSE pc[x]
  <2>1. "wait" \in Label  BY DEF Label
  <2> QED BY <1>1, <2>1, GotoPlaces
<1>13. \A x \in Thread : CallAgrees(r, pc', x)
  <2> SUFFICES ASSUME NEW x \in Thread PROVE CallAgrees(r, pc', x)
    OBVIOUS
  <2>1. CallAgrees(k, pc, x)  BY <1>1 DEF Base
  <2>2. CASE x = t
    BY <1>10, <1>11, <1>12, <2>2 DEF CallAgrees, Detaching
  <2>3. CASE x # t
    BY <1>10, <1>11, <1>12, <2>1, <2>3 DEF CallAgrees, Detaching
  <2> QED BY <2>2, <2>3
<1>14. Flag = "PRIO" => SortedBy(r.list[sem], InitPrio)
  BY <1>1, <1>4, <1>6, <1>9 DEF Base
<1>15. Base(r, pc')
  <2>1. r.prio = InitPrio /\ r.nest = k.nest /\ r.cur = k.cur
    BY <1>1, <1>4, <1>6, <1>9 DEF Base
  <2>2. r.timer \subseteq Waiters(r)
    BY <1>1, <1>4, <1>6, <1>9, <1>10 DEF Base
  <2>3. pc'[Idle] = "user"
    BY <1>1, <1>12, Types DEF Base
  <2>4. r.nest \in {0, 1} /\ (r.nest = 1 => r.cur # Idle)
    BY <1>1, <2>1 DEF Base
  <2> QED BY <1>9, <1>12, <1>13, <1>14, <2>1, <2>2, <2>3, <2>4 DEF Base
<1> QED BY <1>4, <1>6, <1>9, <1>10, <1>15 DEF E, r

LEMMA TakeWaitKeeps ==
    ASSUME Discipline, IInv, NEW t \in Thread, NEW time, TakeWait(t, time)
    PROVE  IInv'
<1>1. k.cur = t /\ pc[t] = "user" /\ t \in Taker /\ inuse /\ value = 0 /\ k.nest = 0
      /\ pc' = [pc EXCEPT ![t] = "wait"] /\ value' = value /\ inuse' = inuse
  BY DEF TakeWait, At, Goto, Discipline
<1>2. /\ Base(k', pc') /\ k'.cur = k.cur /\ k'.nest = k.nest
  <2>1. k' = Suspended(t, time)
    BY DEF TakeWait, Goto, Suspended
  <2> QED BY <1>1, <2>1, WaitEffect
<1>3. pc'[t] = "wait"
  BY <1>1 DEF IInv, Base
<1>4. Executes(k', pc')
  BY <1>1, <1>2, <1>3 DEF Executes
<1>5. ObjectAgrees(k', pc', value', inuse')
  <2>1. "wait" \in Label /\ value' \in 0 .. ValueRange - 1 /\ ~(value' > 0)
    BY <1>1 DEF Label, IInv, ObjectAgrees
  <2> QED BY <1>1, <2>1, GotoObject
<1>6. Owner = {} => HighestPriorityRuns'
  BY <1>1, <1>2, <1>3, StillBest
<1> QED BY <1>2, <1>4, <1>5, <1>6 DEF IInv

LEMMA TakeScheduleKeeps ==
    ASSUME IInv, NEW t \in Thread, TakeSchedule(t)
    PROVE  IInv' /\ Waiters(k') = Waiters(k) /\ k'.error = k.error
<1>1. k.cur = t /\ pc[t] = "wait" /\ k' = rt_schedule(k)
      /\ pc' = [pc EXCEPT ![t] = "woken"] /\ value' = value /\ inuse' = inuse
  BY DEF TakeSchedule, Schedule, Goto, At
<1>2. Base(k, pc) /\ t \in Taker /\ t # Idle /\ "woken" \in Label
  BY <1>1 DEF IInv, Base, CallAgrees, Label
<1>3. Base(k, pc')
  BY <1>1, <1>2, GotoKeeps
<1>4. k.nest = 0 \/ k.stat[k.cur] # "SUSPEND"
  BY DEF IInv, Executes
<1>5. ObjectAgrees(k, pc', value', inuse')
  <2>1. value' \in 0 .. ValueRange - 1 /\ (value' > 0 => Empty(k))
    BY <1>1 DEF IInv, ObjectAgrees
  <2> QED BY <1>1, <1>2, <2>1, GotoObject
<1> QED BY <1>1, <1>3, <1>4, <1>5, ScheduledKeeps

LEMMA CallScheduleKeeps ==
    ASSUME IInv, NEW t \in Thread, CallSchedule(t)
    PROVE  IInv' /\ Waiters(k') = Waiters(k) /\ k'.error = k.error
<1>1. k.cur = t /\ pc[t] = "schedule" /\ k' = rt_schedule(k)
      /\ pc' = [pc EXCEPT ![t] = "user"] /\ value' = value /\ inuse' = inuse
  BY DEF CallSchedule, Schedule, Goto, At
<1>2. Base(k, pc) /\ t # Idle /\ "user" \in Label /\ k.stat[t] = "RUNNING"
      /\ t \notin Waiters(k)
  BY <1>1, CallerRuns DEF IInv, Base, Label
<1>3. Base(k, pc')
  BY <1>1, <1>2, GotoKeeps
<1>4. ObjectAgrees(k, pc', value', inuse')
  <2>1. value' \in 0 .. ValueRange - 1 /\ (value' > 0 => Empty(k))
    BY <1>1 DEF IInv, ObjectAgrees
  <2> QED BY <1>1, <1>2, <2>1, GotoObject
<1> QED BY <1>1, <1>2, <1>3, <1>4, ScheduledKeeps

-----------------------------------------------------------------------------
(* rt_sem_release and RT_IPC_CMD_RESET                                     *)

LEMMA ReleasedValue ==
    ASSUME IInv
    PROVE  /\ ValueAfterRelease \in 0 .. ValueRange - 1
           /\ ~Empty(k) => ValueAfterRelease = value /\ value = 0
<1>1. value \in Nat /\ value \in 0 .. ValueRange - 1 /\ (value > 0 => Empty(k))
  BY Types DEF IInv, ObjectAgrees
<1>2. ValueRange \in Nat /\ ValueRange > 0
  BY Types
<1>3. (value + 1) % ValueRange \in 0 .. ValueRange - 1
  BY <1>1, <1>2
<1> QED BY <1>1, <1>3 DEF ValueAfterRelease

\* A call that has resumed waiters, up to its rt_schedule.
LEMMA WokenKeeps ==
    ASSUME IInv, NEW t \in Thread, k.cur = t, pc[t] = "user", t # Idle, inuse,
           NEW j, Base(j, pc), j.cur = k.cur, Waiters(j) \subseteq Waiters(k),
           j.stat[j.cur] = "SUSPEND" => k.stat[k.cur] = "SUSPEND",
           Goto(t, j, "schedule"), inuse' = inuse,
           value' \in 0 .. ValueRange - 1, value' > 0 => Empty(j)
    PROVE  IInv'
<1>1. k' = j /\ pc' = [pc EXCEPT ![t] = "schedule"] /\ "schedule" \in Label
  BY DEF Goto, Label
<1>2. Base(k, pc) /\ t \notin Waiters(k) /\ k.stat[t] = "RUNNING"
  BY CallerRuns
<1>3. Base(k', pc')
  BY <1>1, <1>2, GotoKeeps
<1>4. Executes(k', pc')
  BY <1>1, <1>2 DEF Executes
<1>5. ObjectAgrees(k', pc', value', inuse')
  BY <1>1, GotoObject
<1>6. pc'[t] = "schedule"
  BY <1>1, <1>2 DEF Base
<1>7. Owner = {} => HighestPriorityRuns'
  BY <1>1, <1>6, StillBest
<1> QED BY <1>3, <1>4, <1>5, <1>7 DEF IInv

LEMMA ReleaseKeeps ==
    ASSUME IInv, NEW t \in Thread, Release(t)
    PROVE  IInv'
<1>1. k.cur = t /\ pc[t] = "user" /\ t # Idle /\ inuse /\ inuse' = inuse
      /\ value' = ValueAfterRelease
      /\ Goto(t, AfterRelease, IF Empty(k) THEN "user" ELSE "schedule")
  BY Types DEF Release, At
<1>2. value' \in 0 .. ValueRange - 1 /\ (~Empty(k) => value' = 0)
  BY <1>1, ReleasedValue
<1>3. CASE Empty(k)
  <2>1. Goto(t, k, "user") /\ "user" \in Label
    BY <1>1, <1>3 DEF AfterRelease, Label
  <2> QED BY <1>1, <1>2, <1>3, <2>1, PlainKeeps
<1>4. CASE ~Empty(k)
  <2> DEFINE j == rt_ipc_list_resume(k, sem)
  <2>1. Goto(t, j, "schedule")
    BY <1>1, <1>4 DEF AfterRelease
  <2>2. /\ Base(j, pc) /\ j.cur = k.cur /\ Waiters(j) \subseteq Waiters(k)
        /\ j.stat[j.cur] = "SUSPEND" => k.stat[k.cur] = "SUSPEND"
    <3>1. Base(k, pc)  BY DEF IInv
    <3> HIDE DEF j
    <3> QED BY <1>4, <3>1, ResumeKeeps DEF j
  <2>3. ~(value' > 0)  BY <1>2, <1>4
  <2> HIDE DEF j
  <2> QED BY <1>1, <1>2, <2>1, <2>2, <2>3, WokenKeeps
<1> QED BY <1>3, <1>4

LEMMA IsrReleaseKeeps ==
    ASSUME IInv, IsrRelease
    PROVE  /\ IInv'
           /\ ~Empty(k) => LET j == rt_ipc_list_resume(k, sem) IN
                  Waiters(k') = Waiters(j) /\ k'.error = j.error
<1>1. inuse /\ inuse' = inuse /\ pc' = pc /\ value' = ValueAfterRelease
      /\ k' = IF Empty(k) THEN k ELSE rt_schedule(AfterRelease)
  BY DEF IsrRelease
<1>2. value' \in 0 .. ValueRange - 1 /\ (~Empty(k) => value' = 0)
  BY <1>1, ReleasedValue
<1>3. CASE Empty(k)
  <2>1. k' = k  BY <1>1, <1>3
  <2>2. ObjectAgrees(k', pc', value', inuse')
    BY <1>1, <1>2, <1>3, <2>1, ObjectStep DEF IInv
  <2> QED BY <1>1, <1>3, <2>1, <2>2 DEF IInv, HighestPriorityRuns
<1>4. CASE ~Empty(k)
  <2> DEFINE j == rt_ipc_list_resume(k, sem)
  <2>1. k' = rt_schedule(j)
    BY <1>1, <1>4 DEF AfterRelease
  <2>2. /\ Base(j, pc) /\ j.cur = k.cur /\ j.nest = k.nest
        /\ j.stat[j.cur] = "SUSPEND" => k.stat[k.cur] = "SUSPEND"
    <3>1. Base(k, pc)  BY DEF IInv
    <3> HIDE DEF j
    <3> QED BY <1>4, <3>1, ResumeKeeps DEF j
  <2> HIDE DEF j
  <2>3. j.nest = 0 \/ j.stat[j.cur] # "SUSPEND"
    BY <2>2 DEF IInv, Executes
  <2>4. ObjectAgrees(j, pc', value', inuse')
    <3>1. ~(value' > 0)  BY <1>2, <1>4
    <3> QED BY <1>1, <1>2, <3>1, ObjectStep DEF IInv
  <2> QED BY <1>1, <2>1, <2>2, <2>3, <2>4, ScheduledKeeps DEF j
<1> QED BY <1>3, <1>4

LEMMA ResetKeeps ==
    ASSUME IInv, NEW t \in Thread, NEW v \in ResetValue, Reset(t, v)
    PROVE  IInv'
<1> DEFINE j == rt_ipc_list_resume_all(k)
<1>1. k.cur = t /\ pc[t] = "user" /\ t # Idle /\ inuse /\ inuse' = inuse
      /\ value' = v /\ v \in 0 .. ValueRange - 1 /\ Goto(t, j, "schedule")
  BY Types DEF Reset, At
<1>2. /\ Base(j, pc) /\ j.cur = k.cur /\ Waiters(j) = {}
      /\ j.stat[j.cur] = "SUSPEND" => k.stat[k.cur] = "SUSPEND"
  <2>1. Base(k, pc)  BY DEF IInv
  <2> HIDE DEF j
  <2> QED BY <2>1, ResumeAllKeeps DEF j
<1> HIDE DEF j
<1>3. Empty(j)  BY <1>2, BaseTypes
<1> QED BY <1>1, <1>2, <1>3, WokenKeeps

-----------------------------------------------------------------------------
(* rt_sem_detach and rt_sem_init                                           *)

LEMMA DetachKeeps ==
    ASSUME Discipline, IInv, NEW t \in Thread, Detach(t)
    PROVE  IInv' /\ k' = k
<1>1. k.cur = t /\ pc[t] = "user" /\ t \in Owner /\ t # Idle /\ inuse /\ inuse' = FALSE
      /\ k.timer = {} /\ k' = k /\ pc' = [pc EXCEPT ![t] = "detach"] /\ value' = value
      /\ "detach" \in Label
  BY Types DEF Detach, At, Goto, Discipline, Label
<1>2. Base(k, pc) /\ t \notin Waiters(k) /\ k.stat[t] = "RUNNING"
  BY <1>1, CallerRuns
<1>3. Base(k', pc')
  BY <1>1, <1>2, GotoKeeps
<1>4. Executes(k', pc')
  BY <1>1, <1>2 DEF Executes
<1>5. \A x \in Thread : pc'[x] = IF x = t THEN "detach" ELSE pc[x]
  BY <1>1, <1>2, GotoPlaces
<1>6. ObjectAgrees(k', pc', value', inuse')
  <2>1. value \in 0 .. ValueRange - 1 /\ (value > 0 => Empty(k))
        /\ \A x \in Thread : pc[x] = "detach_one" => ~Empty(k)
    BY DEF IInv, ObjectAgrees
  <2>2. Detaching(pc', t) /\ \A x \in Thread : pc'[x] = "detach_one" => ~Empty(k)
    BY <1>5, <2>1 DEF Detaching
  <2>3. inuse' \in BOOLEAN /\ ~inuse'
    BY <1>1
  <2> QED BY <1>1, <2>1, <2>2, <2>3 DEF ObjectAgrees
<1> QED BY <1>1, <1>3, <1>4, <1>6 DEF IInv

LEMMA DetachCheckKeeps ==
    ASSUME IInv, NEW t \in Thread, DetachCheck(t)
    PROVE  IInv' /\ k' = k
<1> DEFINE l == IF Empty(k) THEN "user" ELSE "detach_one"
<1>1. k.cur = t /\ pc[t] = "detach" /\ inuse' = inuse /\ value' = value
      /\ k' = k /\ pc' = [pc EXCEPT ![t] = l]
  BY DEF DetachCheck, At, Goto
<1>2. Base(k, pc) /\ t \notin Waiters(k) /\ k.stat[t] = "RUNNING"
  BY <1>1, CallerRuns
<1>3. t \in Owner /\ t # Idle /\ ~inuse
  BY <1>1, Types DEF IInv, Base, CallAgrees, ObjectAgrees, Detaching
<1>4. l \in Label /\ (l = "user" <=> Empty(k)) /\ l \in {"user", "detach_one"}
  BY DEF Label
<1> HIDE DEF l
<1>5. Base(k', pc')
  BY <1>1, <1>2, <1>3, <1>4, GotoKeeps
<1>6. Executes(k', pc')
  BY <1>1, <1>2 DEF Executes
<1>7. \A x \in Thread : pc'[x] = IF x = t THEN l ELSE pc[x]
  BY <1>1, <1>2, <1>4, GotoPlaces
<1>8. ObjectAgrees(k', pc', value', inuse')
  BY <1>1, <1>3, <1>4, <1>7 DEF IInv, ObjectAgrees, Detaching
<1> QED BY <1>1, <1>3, <1>5, <1>6, <1>8 DEF IInv

LEMMA DetachOneKeeps ==
    ASSUME Discipline, IInv, NEW t \in Thread, DetachOne(t)
    PROVE  IInv'
<1> DEFINE j == rt_ipc_list_resume_error(k, sem)
<1>1. k.cur = t /\ pc[t] = "detach_one" /\ ~Empty(k) /\ inuse' = inuse /\ value' = value
      /\ k' = j /\ pc' = [pc EXCEPT ![t] = "detach"] /\ "detach" \in Label
  BY DEF DetachOne, At, Goto, Label
<1>2. Base(k, pc) /\ t \notin Waiters(k) /\ k.stat[t] = "RUNNING"
  BY <1>1, CallerRuns
<1>3. t \in Owner /\ t # Idle /\ ~inuse /\ k.timer = {} /\ value = 0
      /\ value \in 0 .. ValueRange - 1 /\ inuse \in BOOLEAN
  BY <1>1, Types DEF IInv, Base, CallAgrees, ObjectAgrees, Detaching
<1>4. /\ Base(j, pc) /\ j.cur = k.cur /\ Waiters(j) \subseteq Waiters(k)
      /\ j.stat[j.cur] = "SUSPEND" => k.stat[k.cur] = "SUSPEND"
      /\ j.timer \subseteq k.timer
  <2> HIDE DEF j
  <2> QED BY <1>1, <1>2, ResumeErrorKeeps DEF j
<1> HIDE DEF j
<1>5. Base(k', pc')
  BY <1>1, <1>2, <1>3, <1>4, GotoKeeps
<1>6. Executes(k', pc')
  BY <1>1, <1>2, <1>4 DEF Executes
<1>7. \A x \in Thread : pc'[x] = IF x = t THEN "detach" ELSE pc[x]
  BY <1>1, <1>2, GotoPlaces
<1>8. \A x \in Thread : pc[x] = "detach_one" => x = t
  BY <1>2, <1>3 DEF Base, CallAgrees, Detaching, Discipline
<1>9. ObjectAgrees(k', pc', value', inuse')
  <2>1. Detaching(pc', t)  BY <1>7 DEF Detaching
  <2>2. \A x \in Thread : pc'[x] # "detach_one"
    BY <1>7, <1>8
  <2>3. inuse' \in BOOLEAN /\ ~inuse'
    BY <1>1, <1>3
  <2>4. value' \in 0 .. ValueRange - 1 /\ ~(value' > 0)
    BY <1>1, <1>3
  <2>5. k'.timer = {}
    BY <1>1, <1>3, <1>4
  <2> QED BY <2>1, <2>2, <2>3, <2>4, <2>5 DEF ObjectAgrees
<1> QED BY <1>3, <1>5, <1>6, <1>9 DEF IInv

LEMMA ReinitKeeps ==
    ASSUME Discipline, IInv, NEW t \in Thread, Reinit(t)
    PROVE  IInv' /\ k' = k /\ Empty(k)
<1>1. k.cur = t /\ pc[t] = "user" /\ t \in Owner /\ t # Idle /\ ~inuse /\ inuse' = TRUE
      /\ k' = [k EXCEPT !.list[sem] = << >>] /\ value' = InitValue
      /\ Goto(t, [k EXCEPT !.list[sem] = << >>], "user")
  BY Types DEF Reinit, At, Goto
<1>2. Base(k, pc) /\ t \notin Waiters(k) /\ k.stat[t] = "RUNNING"
  BY <1>1, CallerRuns
<1>3. \A x \in Thread : ~Detaching(pc, x)
  BY <1>1, <1>2 DEF Base, CallAgrees, Detaching, Discipline
<1>4. Empty(k)
  BY <1>1, <1>3 DEF IInv, ObjectAgrees
<1>5. k' = k
  BY <1>1, <1>2, <1>4, Types DEF Empty, Base, KernelState
<1>6. pc' = [pc EXCEPT ![t] = "user"] /\ "user" \in Label
  BY <1>1 DEF Goto, Label
<1>7. Base(k', pc')
  BY <1>1, <1>2, <1>5, <1>6, GotoKeeps
<1>8. Executes(k', pc')
  BY <1>1, <1>2, <1>5 DEF Executes
<1>9. ObjectAgrees(k', pc', value', inuse')
  <2>1. \A x \in Thread : pc'[x] = IF x = t THEN "user" ELSE pc[x]
    BY <1>2, <1>6, GotoPlaces
  <2>2. \A x \in Thread : ~Detaching(pc', x) /\ pc'[x] # "detach_one"
    BY <1>3, <2>1 DEF Detaching
  <2> QED BY <1>1, <1>4, <1>5, <2>2, Types DEF ObjectAgrees, Empty
<1> QED BY <1>1, <1>4, <1>5, <1>7, <1>8, <1>9 DEF IInv

-----------------------------------------------------------------------------
(* Critical sections, slices and timers.                                   *)

\* the nesting count alone changes
LEMMA NestKeeps ==
    ASSUME NEW j, NEW p, Base(j, p), NEW n \in {0, 1}, j.cur # Idle
    PROVE  LET r == [j EXCEPT !.nest = n] IN
           /\ Base(r, p) /\ r.nest = n /\ r.cur = j.cur /\ r.stat = j.stat
           /\ r.list = j.list /\ r.timer = j.timer /\ r.error = j.error
<1> DEFINE r == [j EXCEPT !.nest = n]
<1>1. /\ r \in KernelState /\ r.cur = j.cur /\ r.stat = j.stat
      /\ r.prio = j.prio /\ r.error = j.error /\ r.timer = j.timer
      /\ r.list = j.list /\ r.group = j.group /\ r.nest = n
  <2>1. j \in KernelState /\ n \in Nat  BY DEF Base
  <2> QED BY <2>1 DEF KernelState
<1> HIDE DEF r
<1>2. KernelInv(r, {})
  BY <1>1, SameLists DEF Base
<1>3. Waiters(r) = Waiters(j)
  BY <1>1 DEF Waiters
<1>4. \A x \in Thread : CallAgrees(r, p, x)
  BY <1>1, <1>3 DEF Base, CallAgrees
<1>5. Base(r, p)
  BY <1>1, <1>2, <1>3, <1>4 DEF Base
<1> QED BY <1>1, <1>5 DEF r

\* A thread that executes outside a call locks or unlocks the scheduler.
LEMMA LockKeeps ==
    ASSUME IInv, NEW t \in Thread, k.cur = t, pc[t] = "user", t # Idle,
           NEW n \in {0, 1}, NEW l \in {"user", "schedule"}, n = 1 \/ l = "schedule",
           Goto(t, [k EXCEPT !.nest = n], l), value' = value, inuse' = inuse
    PROVE  IInv' /\ k'.list = k.list /\ k'.error = k.error
<1> DEFINE r == [k EXCEPT !.nest = n]
<1>1. k' = r /\ pc' = [pc EXCEPT ![t] = l] /\ l \in Label
  BY DEF Goto, Label
<1>2. Base(k, pc) /\ t \notin Waiters(k) /\ k.stat[t] = "RUNNING"
  BY CallerRuns
<1>3. /\ Base(r, pc) /\ r.nest = n /\ r.cur = k.cur /\ r.stat = k.stat
      /\ r.list = k.list /\ r.timer = k.timer /\ r.error = k.error
  <2> HIDE DEF r
  <2> QED BY <1>2, NestKeeps DEF r
<1> HIDE DEF r
<1>4. t \notin Waiters(r)
  BY <1>2, <1>3 DEF Waiters
<1>5. Base(k', pc')
  BY <1>1, <1>3, <1>4, GotoKeeps
<1>6. Executes(k', pc')
  BY <1>1, <1>2, <1>3 DEF Executes
<1>7. value \in 0 .. ValueRange - 1 /\ (value > 0 => Empty(r)) /\ (Empty(r) <=> Empty(k))
  BY <1>3 DEF IInv, ObjectAgrees, Empty
<1>8. ObjectAgrees(k', pc', value', inuse')
  BY <1>1, <1>3, <1>7, GotoObject
<1>9. pc'[t] = l
  BY <1>1, <1>2 DEF Base
<1>10. Owner = {} => HighestPriorityRuns'
  BY <1>1, <1>3, <1>9, StillBest
<1> QED BY <1>1, <1>3, <1>5, <1>6, <1>8, <1>10 DEF IInv

LEMMA EnterCriticalKeeps ==
    ASSUME IInv, NEW t \in Thread, EnterCritical(t)
    PROVE  IInv' /\ k'.list = k.list /\ k'.error = k.error
<1>1. k.cur = t /\ pc[t] = "user" /\ t # Idle /\ value' = value /\ inuse' = inuse
      /\ Goto(t, [k EXCEPT !.nest = 1], "user")
  BY Types DEF EnterCritical, At
<1> QED BY <1>1, LockKeeps

LEMMA ExitCriticalKeeps ==
    ASSUME IInv, NEW t \in Thread, ExitCritical(t)
    PROVE  IInv' /\ k'.list = k.list /\ k'.error = k.error
<1>1. k.cur = t /\ pc[t] = "user" /\ value' = value /\ inuse' = inuse
      /\ k.nest = 1 /\ Goto(t, [k EXCEPT !.nest = 0], "schedule")
  BY DEF ExitCritical, At
<1>2. t # Idle
  BY <1>1 DEF IInv, Base
<1> QED BY <1>1, <1>2, LockKeeps

LEMMA TickSliceKeeps ==
    ASSUME IInv, TickSlice, UNCHANGED <<value, inuse>>
    PROVE  IInv' /\ Waiters(k') = Waiters(k) /\ k'.error = k.error
<1> DEFINE j == [k EXCEPT !.yield[k.cur] = TRUE]
<1>1. k' = rt_schedule(j) /\ pc' = pc /\ value' = value /\ inuse' = inuse
  BY DEF TickSlice, rt_tick_slice_over
<1>2. Base(k, pc) /\ k \in KernelState /\ KernelInv(k, {})
  BY DEF IInv, Base
<1>3. /\ j \in KernelState /\ j.cur = k.cur /\ j.stat = k.stat
      /\ j.prio = k.prio /\ j.error = k.error /\ j.timer = k.timer
      /\ j.list = k.list /\ j.group = k.group /\ j.nest = k.nest
  <2>1. k.cur \in Thread /\ k.yield \in [Thread -> BOOLEAN]  BY <1>2 DEF KernelState
  <2> DEFINE y == [k.yield EXCEPT ![k.cur] = TRUE]
  <2>2. y \in [Thread -> BOOLEAN]  BY <2>1
  <2>3. j = [k EXCEPT !.yield = y]  BY <1>2 DEF KernelState
  <2> HIDE DEF y, j
  <2> QED BY <1>2, <2>2, <2>3 DEF KernelState
<1> HIDE DEF j
<1>4. KernelInv(j, {})
  BY <1>2, <1>3, SameLists
<1>5. Waiters(j) = Waiters(k)
  BY <1>3 DEF Waiters
<1>6. \A x \in Thread : CallAgrees(j, pc', x)
  BY <1>1, <1>2, <1>3, <1>5 DEF Base, CallAgrees
<1>7. Base(j, pc')
  BY <1>1, <1>2, <1>3, <1>4, <1>5, <1>6 DEF Base
<1>8. j.nest = 0 \/ j.stat[j.cur] # "SUSPEND"
  BY <1>3 DEF IInv, Executes
<1>9. ObjectAgrees(j, pc', value', inuse')
  BY <1>1, <1>3 DEF IInv, ObjectAgrees, Empty
<1> QED BY <1>1, <1>3, <1>5, <1>7, <1>8, <1>9, ScheduledKeeps

\* A timer that expires is that of a waiter.
LEMMA TimerExpiresKeeps ==
    ASSUME IInv, NEW t \in Thread, TimerExpires(t), UNCHANGED <<value, inuse>>
    PROVE  /\ IInv' /\ t \in Waiters(k) /\ Waiters(k') = Waiters(k) \ {t}
           /\ k'.error = [k.error EXCEPT ![t] = "ETIMEOUT"]
<1> DEFINE j == TimedOut(k, t)
<1>1. pc' = pc /\ value' = value /\ inuse' = inuse
      /\ t \in k.timer /\ k' = rt_thread_timeout(k, t)
  BY DEF TimerExpires
<1>2. Base(k, pc) /\ t \in Waiters(k)
  BY <1>1 DEF IInv, Base
<1>3. /\ k' = rt_schedule(j) /\ Base(j, pc) /\ Waiters(j) = Waiters(k) \ {t}
      /\ j.error = [k.error EXCEPT ![t] = "ETIMEOUT"]
      /\ j.cur = k.cur /\ j.nest = k.nest /\ j.timer = k.timer \ {t}
      /\ j.stat[j.cur] = "SUSPEND" => k.stat[k.cur] = "SUSPEND"
  <2> HIDE DEF j
  <2> QED BY <1>1, <1>2, TimeoutKeeps DEF j
<1> HIDE DEF j
<1>4. j.nest = 0 \/ j.stat[j.cur] # "SUSPEND"
  BY <1>3 DEF IInv, Executes
<1>5. inuse /\ ~(value > 0) /\ value \in 0 .. ValueRange - 1
  BY <1>1, <1>2, BaseTypes DEF IInv, ObjectAgrees
<1>6. ObjectAgrees(j, pc', value', inuse')
  BY <1>1, <1>5, ObjectStep DEF IInv
<1> QED BY <1>1, <1>2, <1>3, <1>4, <1>6, ScheduledKeeps

-----------------------------------------------------------------------------
(* The invariant.                                                          *)

LEMMA InitKeeps ==
    ASSUME Init PROVE IInv
<1>1. k = KernelInit /\ pc = [t \in Thread |-> "user"] /\ value = InitValue /\ inuse = TRUE
  BY DEF Init, CallersInit
<1>2. /\ k \in KernelState /\ KernelInv(k, {})
      /\ \A t \in Thread : k.stat[t] \in {"READY", "RUNNING"}
      /\ \A t \in Thread : k.prio[k.cur] <= k.prio[t]
  BY <1>1, KernelInitSound
<1>3. k.prio = InitPrio /\ k.timer = {} /\ k.nest = 0
  BY <1>1 DEF KernelInit
<1>4. k.list[sem] = << >>
  <2>1. sem \in ListHead /\ sem \notin Prio
    BY Types, KernelAssumption
  <2> QED BY <1>1, <2>1 DEF KernelInit
<1>5. Waiters(k) = {} /\ Empty(k)
  <2>1. ToSet(<< >>) = {}
    <3>1. << >> \in Seq(Thread)  OBVIOUS
    <3> QED BY <3>1, EmptyList
  <2> QED BY <1>4, <2>1 DEF Waiters, Empty
<1>6. \A t \in Thread : CallAgrees(k, pc, t)
  <2> SUFFICES ASSUME NEW t \in Thread PROVE CallAgrees(k, pc, t)
    OBVIOUS
  <2>1. pc[t] = "user"  BY <1>1
  <2> QED BY <1>2, <1>5, <2>1 DEF CallAgrees, Detaching
<1>7. SortedBy(k.list[sem], InitPrio)
  <2>1. DOMAIN << >> = {}  BY EmptySeq, LenProperties
  <2> QED BY <1>4, <2>1 DEF SortedBy
<1>8. Base(k, pc)
  <2>1. pc \in [Thread -> Label] /\ pc[Idle] = "user"
    BY <1>1, Types DEF Label
  <2> QED BY <1>2, <1>3, <1>5, <1>6, <1>7, <2>1 DEF Base
<1>9. Executes(k, pc)
  <2>1. k.cur \in Thread  BY <1>2 DEF KernelState
  <2> QED BY <1>2, <2>1 DEF Executes
<1>10. ObjectAgrees(k, pc, value, inuse)
  <2>1. inuse \in BOOLEAN /\ inuse  BY <1>1
  <2>2. \A t \in Thread : pc[t] # "detach_one" /\ ~Detaching(pc, t)
    BY <1>1 DEF Detaching
  <2>3. value \in 0 .. ValueRange - 1  BY <1>1, Types
  <2> QED BY <1>5, <2>1, <2>2, <2>3 DEF ObjectAgrees
<1>11. HighestPriorityRuns
  BY <1>2 DEF HighestPriorityRuns
<1> QED BY <1>8, <1>9, <1>10, <1>11 DEF IInv

LEMMA StutterKeeps ==
    ASSUME IInv, UNCHANGED vars
    PROVE  IInv'
<1>1. k' = k /\ pc' = pc /\ value' = value /\ inuse' = inuse
  BY DEF vars
<1> QED BY <1>1 DEF IInv, HighestPriorityRuns

LEMMA NextKeeps ==
    ASSUME Discipline, IInv, Next
    PROVE  IInv'
<1>1. ASSUME NEW t \in Thread, Begins(t) PROVE IInv'
  <2>1. CASE TakeToken(t) \/ TakeNoWait(t)
    BY <2>1, TakeTokenKeeps, TakeNoWaitKeeps
  <2>2. CASE Release(t)
    BY <2>2, ReleaseKeeps
  <2>3. CASE Detach(t) \/ Reinit(t)
    BY <2>3, DetachKeeps, ReinitKeeps
  <2>4. CASE \E time \in {"ticks", "forever"} : TakeWait(t, time)
    BY <2>4, TakeWaitKeeps
  <2>5. CASE \E v \in ResetValue : Reset(t, v)
    BY <2>5, ResetKeeps
  <2>6. CASE EnterCritical(t) \/ ExitCritical(t)
    BY <2>6, EnterCriticalKeeps, ExitCriticalKeeps
  <2> QED BY <1>1, <2>1, <2>2, <2>3, <2>4, <2>5, <2>6 DEF Begins
<1>2. ASSUME NEW t \in Thread, Continues(t) PROVE IInv'
  <2>1. CASE TakeSchedule(t) \/ TakeReturn(t) \/ Finish(t)
    BY <2>1, TakeScheduleKeeps, TakeReturnKeeps, FinishKeeps
  <2>2. CASE CallSchedule(t)
    BY <2>2, CallScheduleKeeps
  <2>3. CASE DetachCheck(t) \/ DetachOne(t)
    BY <2>3, DetachCheckKeeps, DetachOneKeeps
  <2> QED BY <1>2, <2>1, <2>2, <2>3 DEF Continues
<1>3. ASSUME Interrupt PROVE IInv'
  <2>1. CASE IsrRelease
    BY <2>1, IsrReleaseKeeps
  <2>2. CASE TickSlice /\ UNCHANGED <<value, inuse>>
    BY <2>2, TickSliceKeeps
  <2>3. CASE (\E t \in Thread : TimerExpires(t)) /\ UNCHANGED <<value, inuse>>
    BY <2>3, TimerExpiresKeeps
  <2> QED BY <1>3, <2>1, <2>2, <2>3 DEF Interrupt
<1> QED BY <1>1, <1>2, <1>3 DEF Next

\* The invariant holds of every program that keeps the discipline.
THEOREM Invariance ==
    ASSUME Discipline PROVE Spec => []IInv
<1>1. Init => IInv
  BY InitKeeps
<1>2. IInv /\ [Next]_vars => IInv'
  BY NextKeeps, StutterKeeps
<1> QED BY <1>1, <1>2, PTL DEF Spec

-----------------------------------------------------------------------------
(* What the runs check, for every program that keeps the discipline.       *)

\* The threads that sleep are those in the semaphore's list, each inside
\* rt_sem_take, and a timer never outlives the wait.
THEOREM WaitersAgreeAlways ==
    ASSUME Discipline PROVE Spec => []WaitersAgree
<1>1. IInv => WaitersAgree
  BY DEF IInv, Base, ObjectAgrees, CallAgrees, WaitersAgree, TypeOK, OnList, InWait, Waiters
<1> QED BY <1>1, Invariance, PTL

\* No lost wakeup: rt_sem_release adds a token only when the list is empty, and
\* rt_sem_take waits only when there is no token.
THEOREM NoLostWakeup ==
    ASSUME Discipline PROVE Spec => []NoneWaitsForNothing
<1>1. IInv => NoneWaitsForNothing
  BY DEF IInv, ObjectAgrees, NoneWaitsForNothing
<1> QED BY <1>1, Invariance, PTL

\* rt_sem_take returns RT_EOK only to a thread that has left the list.
THEOREM GrantsAreRealAlways ==
    ASSUME Discipline PROVE Spec => []GrantsAreReal
<1>1. IInv => GrantsAreReal
  BY DEF IInv, Base, CallAgrees, GrantsAreReal, OnList, Waiters
<1> QED BY <1>1, Invariance, PTL

\* Of a semaphore that is never detached: rt_sem_detach resumes the waiters and
\* does not call rt_schedule, every other call that resumes one does.
THEOREM HighestPriorityRunsAlways ==
    ASSUME Discipline, Owner = {} PROVE Spec => []HighestPriorityRuns
<1>1. IInv => HighestPriorityRuns
  BY DEF IInv
<1> QED BY <1>1, Invariance, PTL

-----------------------------------------------------------------------------
(* What each step does to the waiters.                                     *)

Stays == Waiters(k) \subseteq Waiters(k')

\* one waiter is given the token of a release
Handed ==
    /\ ~Empty(k) /\ Waiters(k') = Waiters(k) \ {Head(k.list[sem])}
    /\ k'.error = k.error

\* the wait of a thread ends with an error
Told(x, e) ==
    /\ x \in Waiters(k) /\ Waiters(k') = Waiters(k) \ {x}
    /\ k'.error = [k.error EXCEPT ![x] = e]

AllTold ==
    /\ Waiters(k') = {}
    /\ \A x \in Thread : k'.error[x] = IF x \in Waiters(k) THEN "ERROR" ELSE k.error[x]

\* rt_sem_release with waiters hands over one token, and only then is a token
\* added when there are none.
LEMMA ReleaseEffect ==
    ASSUME IInv, NEW t \in Thread, Release(t)
    PROVE  \/ Empty(k) /\ k' = k /\ value' = (value + 1) % ValueRange
           \/ Handed /\ value' = value
<1>1. /\ Empty(k) => k' = k /\ value' = (value + 1) % ValueRange
      /\ ~Empty(k) => k' = rt_ipc_list_resume(k, sem) /\ value' = value
  BY DEF Release, AfterRelease, ValueAfterRelease, Goto
<1>2. CASE ~Empty(k)
  <2> DEFINE j == rt_ipc_list_resume(k, sem)
  <2>1. Waiters(j) = Waiters(k) \ {Head(k.list[sem])} /\ j.error = k.error
    <3>1. Base(k, pc)  BY DEF IInv
    <3> HIDE DEF j
    <3> QED BY <1>2, <3>1, ResumeKeeps DEF j
  <2>2. k' = j  BY <1>1, <1>2
  <2> HIDE DEF j
  <2> QED BY <1>1, <1>2, <2>1, <2>2 DEF Handed
<1> QED BY <1>1, <1>2

LEMMA IsrReleaseEffect ==
    ASSUME IInv, IsrRelease
    PROVE  \/ Empty(k) /\ k' = k /\ value' = (value + 1) % ValueRange
           \/ Handed /\ value' = value
<1>1. /\ Empty(k) => k' = k /\ value' = (value + 1) % ValueRange
      /\ ~Empty(k) => value' = value
  BY DEF IsrRelease, ValueAfterRelease
<1>2. CASE ~Empty(k)
  <2> DEFINE j == rt_ipc_list_resume(k, sem)
  <2>1. Waiters(j) = Waiters(k) \ {Head(k.list[sem])} /\ j.error = k.error
    <3>1. Base(k, pc)  BY DEF IInv
    <3> HIDE DEF j
    <3> QED BY <1>2, <3>1, ResumeKeeps DEF j
  <2>2. Waiters(k') = Waiters(j) /\ k'.error = j.error
    <3> HIDE DEF j
    <3> QED BY <1>2, IsrReleaseKeeps DEF j
  <2> HIDE DEF j
  <2> QED BY <1>1, <1>2, <2>1, <2>2 DEF Handed
<1> QED BY <1>1, <1>2

LEMMA ResetEffect ==
    ASSUME IInv, NEW t \in Thread, NEW v, Reset(t, v)
    PROVE  AllTold
<1> DEFINE j == rt_ipc_list_resume_all(k)
<1>1. k' = j  BY DEF Reset, Goto
<1>2. /\ Waiters(j) = {}
      /\ \A x \in Thread : j.error[x] = IF x \in Waiters(k) THEN "ERROR" ELSE k.error[x]
  <2>1. Base(k, pc)  BY DEF IInv
  <2> HIDE DEF j
  <2> QED BY <2>1, ResumeAllKeeps DEF j
<1> HIDE DEF j
<1> QED BY <1>1, <1>2 DEF AllTold

LEMMA DetachOneEffect ==
    ASSUME IInv, NEW t \in Thread, DetachOne(t)
    PROVE  Told(Head(k.list[sem]), "ERROR")
<1> DEFINE j == rt_ipc_list_resume_error(k, sem)
           h == Head(k.list[sem])
<1>1. k' = j /\ ~Empty(k)  BY DEF DetachOne, Goto
<1>2. /\ h \in Waiters(k) /\ Waiters(j) = Waiters(k) \ {h}
      /\ j.error = [k.error EXCEPT ![h] = "ERROR"]
  <2>1. Base(k, pc)  BY DEF IInv
  <2> HIDE DEF j, h
  <2> QED BY <1>1, <2>1, ResumeErrorKeeps DEF j, h
<1> HIDE DEF j, h
<1>3. Told(h, "ERROR")
  BY <1>1, <1>2 DEF Told
<1> QED BY <1>3 DEF h

LEMMA TakeWaitEffect ==
    ASSUME IInv, NEW t \in Thread, NEW time, TakeWait(t, time)
    PROVE  Waiters(k') = Waiters(k) \cup {t} /\ k'.error = [k.error EXCEPT ![t] = "EOK"]
<1>1. k.cur = t /\ pc[t] = "user" /\ t \in Taker /\ pc' = [pc EXCEPT ![t] = "wait"]
  BY DEF TakeWait, At, Goto
<1>2. k' = Suspended(t, time)
  BY DEF TakeWait, Goto, Suspended
<1> QED BY <1>1, <1>2, WaitEffect

LEMMA StepWaiters ==
    ASSUME Discipline, IInv, Next
    PROVE  \/ Stays
           \/ Handed
           \/ AllTold
           \/ \E x \in Thread, e \in {"ERROR", "ETIMEOUT"} : Told(x, e)
<1>1. ASSUME k' = k \/ k'.list = k.list PROVE Stays
  BY <1>1 DEF Stays, Waiters
<1>2. ASSUME NEW t \in Thread, Begins(t) PROVE Stays \/ Handed \/ AllTold
  <2>1. CASE TakeToken(t) \/ TakeNoWait(t) \/ Detach(t)
    BY <1>1, <2>1 DEF TakeToken, TakeNoWait, Detach, Goto
  <2>2. CASE Release(t)
    BY <1>1, <2>2, ReleaseEffect
  <2>3. CASE Reinit(t)
    BY <1>1, <2>3, ReinitKeeps
  <2>4. CASE \E time \in {"ticks", "forever"} : TakeWait(t, time)
    BY <2>4, TakeWaitEffect DEF Stays
  <2>5. CASE \E v \in ResetValue : Reset(t, v)
    BY <2>5, ResetEffect
  <2>6. CASE EnterCritical(t) \/ ExitCritical(t)
    BY <1>1, <2>6, EnterCriticalKeeps, ExitCriticalKeeps
  <2> QED BY <1>2, <2>1, <2>2, <2>3, <2>4, <2>5, <2>6 DEF Begins
<1>3. ASSUME NEW t \in Thread, Continues(t)
      PROVE  Stays \/ \E x \in Thread : Told(x, "ERROR")
  <2>1. CASE TakeSchedule(t) \/ CallSchedule(t)
    BY <2>1, TakeScheduleKeeps, CallScheduleKeeps DEF Stays
  <2>2. CASE TakeReturn(t) \/ Finish(t) \/ DetachCheck(t)
    BY <1>1, <2>2 DEF TakeReturn, Finish, DetachCheck, Goto
  <2>3. CASE DetachOne(t)
    <3>1. Head(k.list[sem]) \in Thread
      BY <2>3, BaseTypes DEF DetachOne, IInv
    <3> QED BY <2>3, <3>1, DetachOneEffect
  <2> QED BY <1>3, <2>1, <2>2, <2>3 DEF Continues
<1>4. ASSUME Interrupt
      PROVE  Stays \/ Handed \/ \E x \in Thread : Told(x, "ETIMEOUT")
  <2>1. CASE IsrRelease
    BY <1>1, <2>1, IsrReleaseEffect
  <2>2. CASE TickSlice /\ UNCHANGED <<value, inuse>>
    BY <2>2, TickSliceKeeps DEF Stays
  <2>3. CASE (\E t \in Thread : TimerExpires(t)) /\ UNCHANGED <<value, inuse>>
    BY <2>3, TimerExpiresKeeps DEF Told
  <2> QED BY <1>4, <2>1, <2>2, <2>3 DEF Interrupt
<1> QED BY <1>2, <1>3, <1>4 DEF Next

\* RT_IPC_FLAG_PRIO: a waiter that leaves the list with a token is the first of
\* the list, which rt_ipc_list_suspend has kept in the order of the priorities.
THEOREM BestWaiterFirstAlways ==
    ASSUME Discipline, Flag = "PRIO" PROVE Spec => BestWaiterFirst
<1> DEFINE A == \A t, u \in Thread :
                    OnList(k, t, sem) /\ OnList(k, u, sem) /\ OnList(k', u, sem)
                        /\ ~OnList(k', t, sem) /\ k'.error[t] = "EOK"
                    => k.prio[t] <= k.prio[u]
<1>1. ASSUME IInv, [Next]_vars PROVE [A]_vars
  <2> SUFFICES ASSUME Next PROVE A
    BY <1>1
  <2> SUFFICES ASSUME NEW t \in Thread, NEW u \in Thread,
                      t \in Waiters(k), u \in Waiters(k), u \in Waiters(k'),
                      t \notin Waiters(k'), k'.error[t] = "EOK"
               PROVE  k.prio[t] <= k.prio[u]
    BY DEF OnList, Waiters
  <2>1. CASE Stays
    BY <2>1 DEF Stays
  <2>2. CASE AllTold
    BY <2>2 DEF AllTold
  <2>3. CASE \E x \in Thread, e \in {"ERROR", "ETIMEOUT"} : Told(x, e)
    <3>1. PICK x \in Thread, e \in {"ERROR", "ETIMEOUT"} : Told(x, e)
      BY <2>3
    <3>2. x = t  BY <3>1 DEF Told
    <3>3. k.error \in [Thread -> Error]  BY <1>1, BaseTypes DEF IInv
    <3> QED BY <3>1, <3>2, <3>3 DEF Told
  <2>4. CASE Handed
    <3>1. t = Head(k.list[sem])
      BY <2>4 DEF Handed
    <3>2. /\ k.list[sem] \in Seq(Thread) /\ SortedBy(k.list[sem], InitPrio)
          /\ k.prio = InitPrio /\ u \in ToSet(k.list[sem])
          /\ \A x \in Thread : InitPrio[x] \in Int
      <4>1. InitPrio \in [Thread -> Prio] /\ Prio \subseteq Int
        BY CallersAssumption, KernelAssumption DEF Prio
      <4> QED BY <1>1, <4>1, BaseTypes DEF IInv, Base, Waiters
    <3>3. InitPrio[Head(k.list[sem])] <= InitPrio[u]
      BY <3>2, HeadIsBest
    <3> QED BY <3>1, <3>2, <3>3
  <2> QED BY <1>1, <2>1, <2>2, <2>3, <2>4, StepWaiters
<1>2. Spec => [][A]_vars
  BY <1>1, Invariance, PTL DEF Spec
<1> QED BY <1>2 DEF BestWaiterFirst

-----------------------------------------------------------------------------
(* The semaphore implements AbstractSemaphore.                             *)

\* the state of a taker: of one that waits, what its list and error tell
Seen(j, p, t) ==
    IF p[t] \in {"got", "failed"} THEN p[t]
    ELSE IF p[t] \notin {"wait", "woken"} THEN "idle"
    ELSE IF t \in Waiters(j) THEN "waiting"
    ELSE IF j.error[t] = "EOK" THEN "got" ELSE "failed"

States == [t \in Taker |-> StateOf(t)]

LEMMA StatesSeen ==
    ASSUME IInv, IInv'
    PROVE  /\ States = [t \in Taker |-> Seen(k, pc, t)]
           /\ States' = [t \in Taker |-> Seen(k', pc', t)]
<1>1. ASSUME NEW t \in Taker PROVE StateOf(t) = Seen(k, pc, t)
  <2>1. t \in Thread /\ k.error[t] \in Error /\ CallAgrees(k, pc, t)
    BY Types, BaseTypes DEF IInv, Base
  <2> QED BY <2>1 DEF StateOf, Seen, Waiting, WokenWith, InWait, OnList, Waiters,
                      CallAgrees, Error
<1>2. ASSUME NEW t \in Taker PROVE StateOf(t)' = Seen(k', pc', t)
  <2>1. t \in Thread /\ k'.error[t] \in Error /\ CallAgrees(k', pc', t)
    <3>1. Base(k', pc')  BY DEF IInv
    <3> QED BY <3>1, Types, BaseTypes DEF Base
  <2> QED BY <2>1 DEF StateOf, Seen, Waiting, WokenWith, InWait, OnList, Waiters,
                      CallAgrees, Error
<1> QED BY <1>1, <1>2 DEF States

\* the state of x becomes s, and no other state changes
LEMMA StateChanges ==
    ASSUME IInv, IInv', NEW x \in Taker, NEW s,
           \A t \in Taker : Seen(k', pc', t) = IF t = x THEN s ELSE Seen(k, pc, t)
    PROVE  States' = [States EXCEPT ![x] = s]
BY StatesSeen

LEMMA StatesStay ==
    ASSUME IInv, IInv', \A t \in Taker : Seen(k', pc', t) = Seen(k, pc, t)
    PROVE  States' = States
BY StatesSeen

\* The states of the others stay when one caller moves.
LEMMA OneMoves ==
    ASSUME IInv, NEW x \in Thread, NEW l \in Label, pc' = [pc EXCEPT ![x] = l],
           \A t \in Thread : t # x => (t \in Waiters(k') <=> t \in Waiters(k))
                                      /\ k'.error[t] = k.error[t]
    PROVE  \A t \in Taker : t # x => Seen(k', pc', t) = Seen(k, pc, t)
<1>1. \A t \in Thread : pc'[t] = IF t = x THEN l ELSE pc[t]
  BY GotoPlaces DEF IInv
<1> QED BY <1>1, Types DEF Seen

\* A caller is idle before and after.
LEMMA IdleMoves ==
    ASSUME IInv, IInv', NEW x \in Thread, NEW l \in Label, pc' = [pc EXCEPT ![x] = l],
           {pc[x], l} \cap {"wait", "woken", "got", "failed"} = {},
           \A t \in Thread : t # x => (t \in Waiters(k') <=> t \in Waiters(k))
                                      /\ k'.error[t] = k.error[t]
    PROVE  States' = States
<1>1. \A t \in Thread : pc'[t] = IF t = x THEN l ELSE pc[t]
  BY GotoPlaces DEF IInv
<1>2. Seen(k', pc', x) = Seen(k, pc, x)
  BY <1>1 DEF Seen
<1>3. \A t \in Taker : Seen(k', pc', t) = Seen(k, pc, t)
  BY <1>2, OneMoves
<1> QED BY <1>3, StatesStay

LEMMA TakeTokenRefines ==
    ASSUME IInv, IInv', NEW t \in Thread, TakeToken(t)
    PROVE  Promise!Next
<1>1. k' = k /\ pc[t] = "user" /\ t \in Taker /\ pc' = [pc EXCEPT ![t] = "got"]
      /\ inuse /\ inuse' = inuse /\ value > 0 /\ value' = value - 1 /\ "got" \in Label
  BY DEF TakeToken, At, Goto, Label
<1>2. pc'[t] = "got"
  BY <1>1 DEF IInv, Base
<1>3. Seen(k, pc, t) = "idle" /\ Seen(k', pc', t) = "got"
  BY <1>1, <1>2 DEF Seen
<1>4. \A x \in Taker : x # t => Seen(k', pc', x) = Seen(k, pc, x)
  BY <1>1, OneMoves
<1>5. States[t] = "idle" /\ States' = [States EXCEPT ![t] = "got"]
  BY ZenonT(90), <1>1, <1>3, <1>4, StatesSeen, StateChanges
<1>6. Promise!Take(t)
  BY <1>1, <1>5 DEF Promise!Take, States
<1> QED BY <1>1, <1>6 DEF Promise!Next

LEMMA TakeNoWaitRefines ==
    ASSUME IInv, IInv', NEW t \in Thread, TakeNoWait(t)
    PROVE  Promise!Next
<1>1. k' = k /\ pc[t] = "user" /\ t \in Taker /\ pc' = [pc EXCEPT ![t] = "failed"]
      /\ inuse /\ inuse' = inuse /\ value = 0 /\ value' = value /\ "failed" \in Label
  BY DEF TakeNoWait, At, Goto, Label
<1>2. pc'[t] = "failed"
  BY <1>1 DEF IInv, Base
<1>3. Seen(k, pc, t) = "idle" /\ Seen(k', pc', t) = "failed"
  BY <1>1, <1>2 DEF Seen
<1>4. \A x \in Taker : x # t => Seen(k', pc', x) = Seen(k, pc, x)
  BY <1>1, OneMoves
<1>5. States[t] = "idle" /\ States' = [States EXCEPT ![t] = "failed"]
  BY ZenonT(90), <1>1, <1>3, <1>4, StatesSeen, StateChanges
<1>6. Promise!Fail(t)
  BY <1>1, <1>5 DEF Promise!Fail, States
<1> QED BY <1>1, <1>6 DEF Promise!Next

LEMMA TakeWaitRefines ==
    ASSUME IInv, IInv', NEW t \in Thread, NEW time, TakeWait(t, time)
    PROVE  Promise!Next
<1>1. pc[t] = "user" /\ t \in Taker /\ pc' = [pc EXCEPT ![t] = "wait"]
      /\ inuse /\ inuse' = inuse /\ value = 0 /\ value' = value /\ "wait" \in Label
  BY DEF TakeWait, At, Goto, Label
<1>2. pc'[t] = "wait" /\ t \in Waiters(k')
      /\ \A x \in Thread : x # t => (x \in Waiters(k') <=> x \in Waiters(k))
                                    /\ k'.error[x] = k.error[x]
  <2>1. k.error \in [Thread -> Error] /\ pc \in [Thread -> Label]
    BY BaseTypes DEF IInv, Base
  <2> QED BY <1>1, <2>1, TakeWaitEffect
<1>3. Seen(k, pc, t) = "idle" /\ Seen(k', pc', t) = "waiting"
  BY <1>1, <1>2 DEF Seen
<1>4. \A x \in Taker : x # t => Seen(k', pc', x) = Seen(k, pc, x)
  BY <1>1, <1>2, OneMoves
<1>5. States[t] = "idle" /\ States' = [States EXCEPT ![t] = "waiting"]
  BY ZenonT(60), <1>1, <1>3, <1>4, StatesSeen, StateChanges
<1>6. Promise!Wait(t)
  BY <1>1, <1>5 DEF Promise!Wait, States
<1> QED BY <1>1, <1>6 DEF Promise!Next

\* The thread knows its result when it is resumed: its return changes nothing.
LEMMA TakeReturnRefines ==
    ASSUME IInv, IInv', NEW t \in Thread, TakeReturn(t)
    PROVE  UNCHANGED Promise!vars
<1> DEFINE l == IF k.error[t] = "EOK" THEN "got" ELSE "failed"
<1>1. k.cur = t /\ pc[t] = "woken" /\ k' = k /\ pc' = [pc EXCEPT ![t] = l]
      /\ value' = value /\ inuse' = inuse /\ l \in Label /\ l \in {"got", "failed"}
  BY DEF TakeReturn, At, Goto, Label
<1>2. pc'[t] = l /\ t \notin Waiters(k)
  BY <1>1, CallerRuns DEF Base
<1>3. Seen(k', pc', t) = Seen(k, pc, t)
  BY <1>1, <1>2 DEF Seen
<1> HIDE DEF l
<1>4. \A x \in Taker : Seen(k', pc', x) = Seen(k, pc, x)
  BY <1>1, <1>3, OneMoves
<1>5. States' = States
  BY <1>4, StatesStay
<1> QED BY <1>1, <1>5 DEF Promise!vars, States

\* a step that schedules, of a thread that waits or of any other
LEMMA ScheduleRefines ==
    ASSUME IInv, IInv', Waiters(k') = Waiters(k), k'.error = k.error,
           UNCHANGED <<value, inuse>>,
           \/ pc' = pc
           \/ \E t \in Thread : pc[t] = "wait" /\ pc' = [pc EXCEPT ![t] = "woken"]
           \/ \E t \in Thread : pc[t] = "schedule" /\ pc' = [pc EXCEPT ![t] = "user"]
    PROVE  UNCHANGED Promise!vars
<1>1. pc \in [Thread -> Label]  BY DEF IInv, Base
<1>2. \A x \in Thread : \/ pc'[x] = pc[x]
                        \/ pc[x] = "wait" /\ pc'[x] = "woken"
                        \/ pc[x] = "schedule" /\ pc'[x] = "user"
  BY <1>1
<1>3. \A x \in Taker : Seen(k', pc', x) = Seen(k, pc, x)
  BY <1>2, Types DEF Seen
<1>4. States' = States
  BY <1>3, StatesStay
<1> QED BY <1>4 DEF Promise!vars, States

LEMMA FinishRefines ==
    ASSUME IInv, IInv', NEW t \in Thread, Finish(t)
    PROVE  Promise!Next
<1>1. pc[t] \in {"got", "failed"} /\ k' = k /\ pc' = [pc EXCEPT ![t] = "user"]
      /\ value' = value /\ inuse' = inuse /\ "user" \in Label
  BY DEF Finish, Goto, Label
<1>2. pc'[t] = "user" /\ t \in Taker
  BY <1>1 DEF IInv, Base, CallAgrees
<1>3. Seen(k, pc, t) \in {"got", "failed"} /\ Seen(k', pc', t) = "idle"
  BY <1>1, <1>2 DEF Seen
<1>4. \A x \in Taker : x # t => Seen(k', pc', x) = Seen(k, pc, x)
  BY <1>1, OneMoves
<1>5. States[t] \in {"got", "failed"} /\ States' = [States EXCEPT ![t] = "idle"]
  BY <1>2, <1>3, <1>4, StatesSeen, StateChanges
<1>6. Promise!Return(t)
  BY <1>1, <1>5 DEF Promise!Return, States
<1> QED BY <1>2, <1>6 DEF Promise!Next

\* rt_sem_release, in a thread or in an interrupt
LEMMA ReleaseRefines ==
    ASSUME IInv, IInv', inuse, inuse' = inuse,
           \/ Empty(k) /\ k' = k /\ value' = value + 1
           \/ Handed /\ value' = value,
           \/ pc' = pc
           \/ \E t \in Thread, l \in {"user", "schedule"} :
                  pc[t] = "user" /\ pc' = [pc EXCEPT ![t] = l]
    PROVE  Promise!Next
<1>1. pc \in [Thread -> Label]  BY DEF IInv, Base
<1>2. \A x \in Thread : \/ pc'[x] = pc[x]
                        \/ pc[x] = "user" /\ pc'[x] \in {"user", "schedule"}
  BY <1>1
<1>3. CASE Empty(k) /\ k' = k /\ value' = value + 1
  <2>1. \A x \in Taker : Seen(k', pc', x) = Seen(k, pc, x) /\ Seen(k, pc, x) # "waiting"
    <3>1. Waiters(k) = {}  BY <1>3, BaseTypes DEF IInv
    <3> QED BY <1>2, <1>3, <3>1, Types DEF Seen
  <2>2. States' = States /\ \A x \in Taker : States[x] # "waiting"
    BY <2>1, StatesSeen, StatesStay
  <2>3. Promise!Release
    BY <1>3, <2>2 DEF Promise!Release, Promise!Waiter, States
  <2> QED BY <2>3 DEF Promise!Next
<1>4. CASE Handed /\ value' = value
  <2> DEFINE h == Head(k.list[sem])
  <2>1. h \in Waiters(k) /\ h \in Thread
    BY <1>4, BaseTypes DEF IInv, Handed
  <2>2. Waiters(k') = Waiters(k) \ {h} /\ k'.error = k.error
    BY <1>4 DEF Handed
  <2> HIDE DEF h
  <2>3. h \in Taker /\ pc[h] \in {"wait", "woken"} /\ k.error[h] = "EOK"
    BY <2>1 DEF IInv, Base, CallAgrees
  <2>4. Seen(k, pc, h) = "waiting" /\ Seen(k', pc', h) = "got"
    BY <1>2, <2>1, <2>2, <2>3 DEF Seen
  <2>5. \A x \in Taker : x # h => Seen(k', pc', x) = Seen(k, pc, x)
    BY <1>2, <2>2, Types DEF Seen
  <2>6. States[h] = "waiting" /\ States' = [States EXCEPT ![h] = "got"]
    BY <2>3, <2>4, <2>5, StatesSeen, StateChanges
  <2>7. Promise!Grant(h)
    BY <1>4, <2>6 DEF Promise!Grant, States
  <2> QED BY <2>3, <2>7 DEF Promise!Next
<1> QED BY <1>3, <1>4

LEMMA ResetRefines ==
    ASSUME IInv, IInv', NEW t \in Thread, NEW v \in ResetValue, Reset(t, v)
    PROVE  Promise!Next
<1>1. pc[t] = "user" /\ pc' = [pc EXCEPT ![t] = "schedule"]
      /\ inuse /\ inuse' = inuse /\ value' = v
  BY DEF Reset, At, Goto
<1>2. AllTold  BY ResetEffect
<1>3. \A x \in Thread : \/ pc'[x] = pc[x]
                        \/ pc[x] = "user" /\ pc'[x] = "schedule"
  BY <1>1 DEF IInv, Base
<1>4. ASSUME NEW x \in Taker
      PROVE  Seen(k', pc', x) = IF Seen(k, pc, x) = "waiting" THEN "failed"
                                ELSE Seen(k, pc, x)
  <2>1. x \in Thread /\ CallAgrees(k, pc, x)  BY Types DEF IInv, Base
  <2>2. CASE x \in Waiters(k)
    <3>1. pc[x] \in {"wait", "woken"} /\ pc'[x] = pc[x]
      BY <1>3, <2>1, <2>2 DEF CallAgrees
    <3>2. x \notin Waiters(k') /\ k'.error[x] = "ERROR"
      BY <1>2, <2>1, <2>2 DEF AllTold
    <3> QED BY <2>2, <3>1, <3>2 DEF Seen
  <2>3. CASE x \notin Waiters(k)
    <3>1. x \notin Waiters(k') /\ k'.error[x] = k.error[x]
      BY <1>2, <2>1, <2>3 DEF AllTold
    <3>2. Seen(k, pc, x) # "waiting"
      BY <2>3 DEF Seen
    <3> QED BY <1>3, <2>1, <2>3, <3>1, <3>2 DEF Seen
  <2> QED BY <2>2, <2>3
<1>5. States' = [x \in Taker |-> IF States[x] = "waiting" THEN "failed" ELSE States[x]]
  BY <1>4, StatesSeen
<1>6. Promise!Reset(v)
  BY <1>1, <1>5 DEF Promise!Reset, Promise!Waiter, States
<1> QED BY <1>6 DEF Promise!Next

LEMMA DetachRefines ==
    ASSUME Discipline, IInv, IInv', NEW t \in Thread, Detach(t)
    PROVE  Promise!Next
<1>1. pc[t] = "user" /\ pc' = [pc EXCEPT ![t] = "detach"] /\ "detach" \in Label
      /\ inuse /\ inuse' = FALSE /\ value' = value /\ k' = k
  BY DEF Detach, At, Goto, Label
<1>2. States' = States
  BY <1>1, IdleMoves
<1>3. Promise!Close
  BY <1>1, <1>2 DEF Promise!Close, States
<1> QED BY <1>3 DEF Promise!Next

LEMMA ReinitRefines ==
    ASSUME Discipline, IInv, IInv', NEW t \in Thread, Reinit(t)
    PROVE  Promise!Next
<1>1. pc[t] = "user" /\ pc' = [pc EXCEPT ![t] = "user"] /\ "user" \in Label
      /\ ~inuse /\ inuse' = TRUE /\ value' = InitValue
  BY DEF Reinit, At, Goto, Label
<1>2. k' = k /\ Waiters(k) = {}
  BY ReinitKeeps, BaseTypes DEF IInv
<1>3. States' = States
  BY <1>1, <1>2, IdleMoves
<1>4. \A x \in Taker : States[x] # "waiting"
  <2>1. \A x \in Taker : Seen(k, pc, x) # "waiting"
    BY <1>2, Types DEF Seen, IInv, Base
  <2> QED BY <2>1, StatesSeen
<1>5. Promise!Open
  BY <1>1, <1>3, <1>4 DEF Promise!Open, Promise!Waiter, States
<1> QED BY <1>5 DEF Promise!Next

\* a waiter is told an error, and one caller, or none, moves on
LEMMA ToldRefines ==
    ASSUME IInv, IInv', UNCHANGED <<value, inuse>>, NEW h, NEW e \in {"ERROR", "ETIMEOUT"},
           Told(h, e),
           \/ pc' = pc
           \/ \E t \in Thread : pc[t] = "detach_one" /\ pc' = [pc EXCEPT ![t] = "detach"]
    PROVE  Promise!Next
<1>1. h \in Thread /\ h \in Taker /\ pc[h] \in {"wait", "woken"}
      /\ k.error \in [Thread -> Error]
  BY BaseTypes DEF IInv, Base, CallAgrees, Told
<1>2. \A x \in Thread : \/ pc'[x] = pc[x]
                        \/ pc[x] = "detach_one" /\ pc'[x] = "detach"
  BY DEF IInv, Base
<1>3. Seen(k, pc, h) = "waiting" /\ Seen(k', pc', h) = "failed"
  BY <1>1, <1>2 DEF Seen, Told
<1>4. \A x \in Taker : x # h => Seen(k', pc', x) = Seen(k, pc, x)
  BY <1>1, <1>2, Types DEF Seen, Told
<1>5. States[h] = "waiting" /\ States' = [States EXCEPT ![h] = "failed"]
  BY <1>1, <1>3, <1>4, StatesSeen, StateChanges
<1>6. Promise!Fail(h)
  BY <1>5 DEF Promise!Fail, States
<1> QED BY <1>1, <1>6 DEF Promise!Next

LEMMA InitRefines ==
    ASSUME Init PROVE Promise!Init
<1>1. pc = [t \in Thread |-> "user"] /\ value = InitValue /\ inuse = TRUE
  BY DEF Init, CallersInit
<1>2. \A t \in Taker : StateOf(t) = "idle"
  BY <1>1, Types DEF StateOf, Waiting, WokenWith, InWait
<1> QED BY <1>1, <1>2 DEF Promise!Init

LEMMA StepRefines ==
    ASSUME Discipline, ValueBound < ValueRange, IInv, IInv', Next
    PROVE  [Promise!Next]_(Promise!vars)
<1>1. \A v \in 0 .. ValueRange - 1 : v < ValueBound => (v + 1) % ValueRange = v + 1
  BY Types
<1>2. value \in 0 .. ValueRange - 1
  BY DEF IInv, ObjectAgrees
<1>3. ASSUME NEW t \in Thread, Begins(t) PROVE [Promise!Next]_(Promise!vars)
  <2>1. CASE TakeToken(t) \/ TakeNoWait(t)
    BY <2>1, TakeTokenRefines, TakeNoWaitRefines
  <2>2. CASE Release(t)
    <3>1. inuse /\ inuse' = inuse /\ value < ValueBound
          /\ \E l \in {"user", "schedule"} : pc[t] = "user" /\ pc' = [pc EXCEPT ![t] = l]
      BY <2>2 DEF Release, At, Goto
    <3>2. \/ Empty(k) /\ k' = k /\ value' = value + 1
          \/ Handed /\ value' = value
      BY <1>1, <1>2, <2>2, <3>1, ReleaseEffect
    <3> QED BY <3>1, <3>2, ReleaseRefines
  <2>3. CASE Detach(t) \/ Reinit(t)
    BY <2>3, DetachRefines, ReinitRefines
  <2>4. CASE \E time \in {"ticks", "forever"} : TakeWait(t, time)
    BY <2>4, TakeWaitRefines
  <2>5. CASE \E v \in ResetValue : Reset(t, v)
    BY <2>5, ResetRefines
  <2>6. CASE EnterCritical(t) \/ ExitCritical(t)
    <3>1. /\ pc[t] = "user" /\ value' = value /\ inuse' = inuse
          /\ \E l \in {"user", "schedule"} : pc' = [pc EXCEPT ![t] = l] /\ l \in Label
      BY <2>6 DEF EnterCritical, ExitCritical, At, Goto, Label
    <3>2. Waiters(k') = Waiters(k) /\ k'.error = k.error
      BY <2>6, EnterCriticalKeeps, ExitCriticalKeeps DEF Waiters
    <3>3. States' = States
      BY <3>1, <3>2, IdleMoves
    <3>4. UNCHANGED Promise!vars
      BY <3>1, <3>3 DEF Promise!vars, States
    <3> QED BY <3>4
  <2> QED BY <1>3, <2>1, <2>2, <2>3, <2>4, <2>5, <2>6 DEF Begins
<1>4. ASSUME NEW t \in Thread, Continues(t) PROVE [Promise!Next]_(Promise!vars)
  <2>1. CASE TakeSchedule(t) \/ CallSchedule(t)
    <3>1. /\ UNCHANGED <<value, inuse>>
          /\ \/ pc[t] = "wait" /\ pc' = [pc EXCEPT ![t] = "woken"]
             \/ pc[t] = "schedule" /\ pc' = [pc EXCEPT ![t] = "user"]
      BY <2>1 DEF TakeSchedule, CallSchedule, Schedule, At, Goto
    <3>2. Waiters(k') = Waiters(k) /\ k'.error = k.error
      BY <2>1, TakeScheduleKeeps, CallScheduleKeeps
    <3>3. UNCHANGED Promise!vars
      BY <3>1, <3>2, ScheduleRefines
    <3> QED BY <3>3
  <2>2. CASE TakeReturn(t)
    <3>1. UNCHANGED Promise!vars
      BY <2>2, TakeReturnRefines
    <3> QED BY <3>1
  <2>3. CASE Finish(t)
    BY <2>3, FinishRefines
  <2>4. CASE DetachCheck(t)
    <3>1. /\ pc[t] = "detach" /\ value' = value /\ inuse' = inuse /\ k' = k
          /\ \E l \in {"user", "detach_one"} : pc' = [pc EXCEPT ![t] = l] /\ l \in Label
      BY <2>4 DEF DetachCheck, At, Goto, Label
    <3>2. States' = States
      BY <3>1, IdleMoves
    <3>3. UNCHANGED Promise!vars
      BY <3>1, <3>2 DEF Promise!vars, States
    <3> QED BY <3>3
  <2>5. CASE DetachOne(t)
    <3>1. /\ UNCHANGED <<value, inuse>>
          /\ pc[t] = "detach_one" /\ pc' = [pc EXCEPT ![t] = "detach"]
      BY <2>5 DEF DetachOne, At, Goto
    <3> QED BY <2>5, <3>1, DetachOneEffect, ToldRefines
  <2> QED BY <1>4, <2>1, <2>2, <2>3, <2>4, <2>5 DEF Continues
<1>5. ASSUME Interrupt PROVE [Promise!Next]_(Promise!vars)
  <2>1. CASE IsrRelease
    <3>1. inuse /\ inuse' = inuse /\ value < ValueBound /\ pc' = pc
      BY <2>1 DEF IsrRelease
    <3>2. \/ Empty(k) /\ k' = k /\ value' = value + 1
          \/ Handed /\ value' = value
      BY <1>1, <1>2, <2>1, <3>1, IsrReleaseEffect
    <3> QED BY <3>1, <3>2, ReleaseRefines
  <2>2. CASE TickSlice /\ UNCHANGED <<value, inuse>>
    <3>1. Waiters(k') = Waiters(k) /\ k'.error = k.error /\ pc' = pc
      BY <2>2, TickSliceKeeps DEF TickSlice
    <3>2. UNCHANGED Promise!vars
      BY <2>2, <3>1, ScheduleRefines
    <3> QED BY <3>2
  <2>3. CASE (\E t \in Thread : TimerExpires(t)) /\ UNCHANGED <<value, inuse>>
    <3>1. PICK t \in Thread : TimerExpires(t)
      BY <2>3
    <3>2. Told(t, "ETIMEOUT") /\ pc' = pc
      BY <2>3, <3>1, TimerExpiresKeeps DEF Told, TimerExpires
    <3> QED BY <2>3, <3>2, ToldRefines
  <2> QED BY <1>5, <2>1, <2>2, <2>3 DEF Interrupt
<1> QED BY <1>3, <1>4, <1>5 DEF Next

\* Every step of the semaphore is a step of its promise, or none: takes consume
\* tokens or are handed them, failures consume none, a reset or a detach fails
\* all that wait.  Releases stop before the 16-bit value wraps.
THEOREM Refinement ==
    ASSUME Discipline, ValueBound < ValueRange PROVE Spec => ImplementsAbstract
<1>1. Init => Promise!Init
  BY InitRefines
<1>2. IInv /\ IInv' /\ [Next]_vars => [Promise!Next]_(Promise!vars)
  <2> SUFFICES ASSUME IInv, IInv', [Next]_vars PROVE [Promise!Next]_(Promise!vars)
    OBVIOUS
  <2>1. CASE Next
    BY <2>1, StepRefines
  <2>2. CASE UNCHANGED vars
    <3>1. k' = k /\ pc' = pc /\ value' = value /\ inuse' = inuse
      BY <2>2 DEF vars
    <3>2. States' = States
      BY <3>1, StatesStay
    <3>3. UNCHANGED Promise!vars
      BY <3>1, <3>2 DEF Promise!vars, States
    <3> QED BY <3>3
  <2> QED BY <2>1, <2>2
<1>3. Spec => []IInv
  BY Invariance
<1>4. Spec => Promise!Spec
  BY <1>1, <1>2, <1>3, PTL DEF Spec, Promise!Spec
<1> QED BY <1>4 DEF ImplementsAbstract
=============================================================================
