---------------------------- MODULE ThreadsProofs ----------------------------
(***************************************************************************)
(* Under the discipline of its callers, every step of Threads preserves    *)
(* the lists, the states and the calls in progress, and leaves the         *)
(* processor to the best thread: for any number of threads, of priorities  *)
(* and of nested calls.                                                    *)
(***************************************************************************)
EXTENDS Threads, RTKernelProofs

-----------------------------------------------------------------------------
(* The inductive invariant, as a property of a kernel state j, the places  *)
(* p the threads have reached, and the threads a their calls are about.    *)

Base(j, p, a) ==
    /\ j \in KernelState
    /\ p \in [Thread -> Label]
    /\ a \in [Thread -> Thread]
    /\ KernelInv(j, Taken(p, a))
    /\ \A t \in Thread : CallAgrees(j, p, a, t)
    /\ RestAgrees(j, p)

IInv == Base(k, pc, arg) /\ HighestPriorityRuns /\ OnlyRunnableRuns

\* what rt_schedule leaves, but for the threads of O, when it is unlocked
BestRunsBut(j, O) ==
    /\ j.stat[j.cur] = "RUNNING"
    /\ \A t \in Thread \ O : j.stat[t] = "READY" => j.prio[j.cur] <= j.prio[t]

\* A thread that sleeps, or has been taken from the lists, is off them.
LEMMA SuspendedIsOffLists ==
    ASSUME NEW j, NEW p, NEW a, Base(j, p, a), NEW t \in Thread,
           j.stat[t] \notin {"READY", "CLOSE"}
    PROVE  OffLists(j, t)
<1> QED
  BY DEF Base, KernelInv, ReadyListsAgree, RestAgrees, OffLists, OnList, ListHead

\* rt_schedule preserves the invariant and picks the best thread.
LEMMA ScheduleKeeps ==
    ASSUME NEW j, NEW p, NEW a, Base(j, p, a)
    PROVE  LET r == rt_schedule(j) IN
           /\ Base(r, p, a)
           /\ r.nest = j.nest
           /\ r.nest = 0 => BestRunsBut(r, Taken(p, a))
           /\ r.nest # 0 => r = j
<1> DEFINE r == rt_schedule(j)
           O == Taken(p, a)
<1>1. /\ j \in KernelState /\ KernelInv(j, O)
      /\ \A t \in Thread : CallAgrees(j, p, a, t)
      /\ RestAgrees(j, p)
      /\ Idle \in Thread /\ p \in [Thread -> Label] /\ a \in [Thread -> Thread]
  BY ThreadsAssumption DEF Base
<1>2. /\ r \in KernelState /\ KernelInv(r, O)
      /\ r.prio = j.prio /\ r.error = j.error /\ r.timer = j.timer /\ r.nest = j.nest
      /\ \A t \in Thread :
             \/ r.stat[t] = j.stat[t]
             \/ {r.stat[t], j.stat[t]} \subseteq {"READY", "RUNNING"}
      /\ \A l \in WaitList : ToSet(r.list[l]) = ToSet(j.list[l])
      /\ r.cur # j.cur => j.stat[r.cur] = "READY" /\ ~OffLists(j, r.cur)
      /\ \A t \in Thread : OffLists(j, t) /\ j.stat[t] # "RUNNING" => OffLists(r, t)
      /\ j.nest # 0 \/ j.group = {} => r = j
      /\ j.nest = 0 /\ j.group # {} =>
             /\ r.stat[r.cur] = "RUNNING"
             /\ \A t \in Thread : r.stat[t] = "READY" /\ OnList(r, t, r.prio[t]) =>
                    r.prio[r.cur] <= r.prio[t]
  <2> HIDE DEF r, O
  <2> QED BY <1>1, SchedulePreserves DEF r
<1> HIDE DEF r
<1>3. ASSUME NEW t \in Thread PROVE CallAgrees(r, p, a, t)
  <2>1. CallAgrees(j, p, a, t) /\ a[t] \in Thread
    BY <1>1
  <2>2. \A u \in Thread : r.stat[u] = "RUNNING" => u = r.cur
    BY <1>2 DEF KernelInv, OneRunning
  <2>3. p[t] \in {"delete_timer", "delete_close"} =>
            /\ r.stat[a[t]] \in {"INIT", "READY", "SUSPEND"}
            /\ OffLists(r, a[t]) /\ a[t] # r.cur
    BY <1>2, <2>1, <2>2 DEF CallAgrees
  <2>4. p[t] = "free" => r.stat[a[t]] = "CLOSE" /\ OffLists(r, a[t])
    BY <1>2, <2>1 DEF CallAgrees
  <2>5. p[t] \in {"resume", "insert", "startup", "started"} =>
            r.stat[a[t]] = "SUSPEND" /\ a[t] \notin r.timer /\ a[t] # r.cur
    BY <1>2, <2>1 DEF CallAgrees
  <2>6. \A u \in Thread : j.stat[u] \in {"READY", "RUNNING", "SUSPEND"} =>
            r.stat[u] \in {"READY", "RUNNING", "SUSPEND"}
    BY <1>2
  <2> HIDE <1>2
  <2> QED BY <2>1, <2>3, <2>4, <2>5, <2>6 DEF CallAgrees
<1>4. RestAgrees(r, p)
  <2>1. \A l \in WaitList : \A t \in ToSet(r.list[l]) :
            l = rt_thread_defunct /\ r.stat[t] = "CLOSE" /\ t \notin Static
    <3> SUFFICES ASSUME NEW l \in WaitList, NEW t \in ToSet(r.list[l])
                 PROVE  l = rt_thread_defunct /\ r.stat[t] = "CLOSE" /\ t \notin Static
      OBVIOUS
    <3>1. t \in ToSet(j.list[l]) /\ t \in Thread
      BY <1>2, ListsHoldThreads DEF ListHead
    <3> QED BY <1>1, <1>2, <3>1 DEF RestAgrees
  <2>2. r.stat[Idle] \in {"READY", "RUNNING"}
    BY <1>1, <1>2 DEF RestAgrees
  <2> QED BY <1>1, <1>2, <2>1, <2>2 DEF RestAgrees
<1>5. ASSUME j.nest = 0 PROVE BestRunsBut(r, O)
  <2>1. CASE j.group # {}
    <3>1. \A t \in Thread \ O : r.stat[t] = "READY" => OnList(r, t, r.prio[t])
      BY <1>2 DEF KernelInv, ReadyListsAgree
    <3> QED BY <1>2, <1>5, <2>1, <3>1 DEF BestRunsBut
  <2>2. CASE j.group = {}
    <3>1. \A t \in Thread \ O : j.stat[t] # "READY"
      <4> SUFFICES ASSUME NEW t \in Thread \ O, j.stat[t] = "READY" PROVE FALSE
        OBVIOUS
      <4>1. j.prio[t] \in Prio /\ OnList(j, t, j.prio[t])
        BY <1>1 DEF KernelInv, ReadyListsAgree, KernelState
      <4>2. j.list[j.prio[t]] \in Seq(Thread)
        BY <1>1, <4>1 DEF KernelState, ListHead
      <4>3. j.list[j.prio[t]] # << >>
        BY <4>1, <4>2, EmptyList DEF OnList
      <4> QED BY <1>1, <2>2, <4>1, <4>3 DEF KernelInv, GroupAgrees
    <3>2. Idle \notin O
      BY <1>1, ThreadsAssumption DEF Taken, CallAgrees
    <3>3. j.stat[Idle] = "RUNNING"
      BY <1>1, <3>1, <3>2 DEF RestAgrees
    <3>4. j.stat[j.cur] = "RUNNING"
      BY <1>1, <3>3 DEF KernelInv, OneRunning
    <3> QED BY <1>2, <2>2, <3>1, <3>4 DEF BestRunsBut
  <2> QED BY <2>1, <2>2
<1>6. Base(r, p, a)
  BY <1>1, <1>2, <1>3, <1>4 DEF Base
<1> QED BY <1>2, <1>5, <1>6 DEF r

-----------------------------------------------------------------------------
(* A step of thread t changes its own place and call, and what the calls   *)
(* of the other threads rely on is left alone.                             *)

Alive == {"READY", "RUNNING", "SUSPEND"}

\* what the call of another thread x sees of the step from j to i
Undisturbed(j, i, p, a, x) ==
    /\ j.stat[x] \in Alive => i.stat[x] \in Alive
    /\ \/ i.stat[a[x]] = j.stat[a[x]]
       \/ p[x] = "suspend" /\ i.stat[a[x]] \in Alive
    /\ a[x] \in i.timer => a[x] \in j.timer \/ a[x] = j.cur
    /\ OffLists(j, a[x]) => OffLists(i, a[x])

Busy == {"suspend", "resume", "insert", "startup", "started",
         "delete_timer", "delete_close", "free"}

LEMMA BaseStep ==
    ASSUME Base(k, pc, arg), NEW i \in KernelState,
           NEW t \in Thread, k.cur = t, i.cur = t,
           NEW l \in Label, NEW u \in Thread,
           pc' = [pc EXCEPT ![t] = l], arg' = [arg EXCEPT ![t] = u],
           KernelInv(i, Taken(pc', arg')), RestAgrees(i, pc'),
           CallAgrees(i, pc', arg', t),
           \A x \in Thread : x # t /\ pc[x] \in Busy => Undisturbed(k, i, pc, arg, x)
    PROVE  Base(i, pc', arg')
<1>1. pc' \in [Thread -> Label] /\ arg' \in [Thread -> Thread]
  BY DEF Base
<1>2. ASSUME NEW x \in Thread, x # t PROVE CallAgrees(i, pc', arg', x)
  <2>1. /\ pc'[x] = pc[x] /\ arg'[x] = arg[x] /\ arg[x] \in Thread
        /\ CallAgrees(k, pc, arg, x)
        /\ pc'[arg[x]] = pc[arg[x]] \/ arg[x] = k.cur
    BY <1>2 DEF Base
  <2>2. CASE pc[x] \notin Busy
    BY <2>1, <2>2 DEF CallAgrees, Busy
  <2>3. CASE pc[x] \in Busy
    <3>1. Undisturbed(k, i, pc, arg, x)
      BY <1>2, <2>3
    <3> QED BY <2>1, <3>1 DEF CallAgrees, Undisturbed, Alive
  <2> QED BY <2>2, <2>3
<1> QED BY <1>1, <1>2 DEF Base

\* UNCHANGED arg, in the form the lemmas use
LEMMA ArgUnchanged ==
    ASSUME NEW a \in [Thread -> Thread], NEW t \in Thread
    PROVE  a = [a EXCEPT ![t] = a[t]]
OBVIOUS

\* After rt_schedule nothing is left to prove.
LEMMA ScheduleStep ==
    ASSUME NEW j, Base(j, pc', arg'), k' = rt_schedule(j),
           j.nest # 0 => j.stat[j.cur] = "RUNNING"
    PROVE  IInv'
<1>1. /\ Base(k', pc', arg') /\ k'.nest = j.nest
      /\ k'.nest = 0 => BestRunsBut(k', Off')
      /\ k'.nest # 0 => k' = j
  BY ScheduleKeeps DEF Off
<1>2. HighestPriorityRuns'
  BY <1>1 DEF HighestPriorityRuns, BestRunsBut
<1>3. OnlyRunnableRuns'
  BY <1>1 DEF OnlyRunnableRuns, BestRunsBut, Base, KernelState
<1> QED BY <1>1, <1>2, <1>3 DEF IInv

\* A step without rt_schedule: the processor stays where it is, and no thread
\* becomes ready unless the call has still to call rt_schedule, or leaves it to
\* its caller.
LEMMA PlainStep ==
    ASSUME IInv, Base(k', pc', arg'), k'.cur = k.cur,
           \/ pc'[k.cur] \in {"schedule", "sleep"}
           \/ k'.nest # 0
           \/ /\ k.nest = 0 /\ pc[k.cur] \notin {"schedule", "sleep"}
              /\ k'.prio[k.cur] = k.prio[k.cur] /\ late \subseteq late'
              /\ \A x \in Thread \ (Off' \cup late') : k'.stat[x] = "READY" =>
                     k.stat[x] = "READY" /\ x \notin Off /\ k'.prio[x] = k.prio[x],
           pc'[k.cur] = "sleep" \/ k'.stat[k.cur] = "RUNNING"
    PROVE  IInv'
<1>1. HighestPriorityRuns'
  BY DEF IInv, HighestPriorityRuns
<1>2. OnlyRunnableRuns'
  BY DEF OnlyRunnableRuns
<1> QED BY <1>1, <1>2 DEF IInv

InDelete == {"delete_timer", "delete_close"}

\* Who is in the hands of a deletion after a step of t.
LEMMA TakenStep ==
    ASSUME Base(k, pc, arg), NEW t \in Thread, NEW l, NEW u,
           pc' = [pc EXCEPT ![t] = l], arg' = [arg EXCEPT ![t] = u]
    PROVE  /\ l \notin InDelete /\ pc[t] \notin InDelete =>
                  Taken(pc', arg') = Taken(pc, arg)
           /\ l \in InDelete /\ pc[t] \notin InDelete =>
                  Taken(pc', arg') = Taken(pc, arg) \cup {u}
           /\ l \in InDelete /\ pc[t] \in InDelete /\ u = arg[t] =>
                  Taken(pc', arg') = Taken(pc, arg)
           /\ l \notin InDelete => Taken(pc, arg) \ {arg[t]} \subseteq Taken(pc', arg')
<1>1. \A x \in Thread : /\ pc'[x] = (IF x = t THEN l ELSE pc[x])
                       /\ arg'[x] = (IF x = t THEN u ELSE arg[x])
  BY DEF Base
<1> QED BY <1>1 DEF Taken, InDelete

-----------------------------------------------------------------------------
(* The calls of a thread on another.                                       *)

\* A thread whose owner makes no call on it is in no call at all.
LEMMA OnlyOwnersCall ==
    ASSUME IInv, NEW t \in Thread, NEW u, Owns(t, u), NEW x \in Thread, x # t,
           pc[x] \in Busy, arg[x] = u
    PROVE  x = Idle /\ pc[x] = "free" /\ k.stat[u] = "CLOSE" /\ u \notin Static
BY DEF IInv, Base, CallAgrees, Owns, Busy

LEMMA ResumeKeeps ==
    ASSUME Discipline, IInv, NEW t \in Thread, NEW u \in Thread, Resume(t, u)
    PROVE  IInv'
<1>1. /\ Base(k, pc, arg) /\ k.cur = t /\ pc[t] = "user" /\ k' = k
      /\ pc' = [pc EXCEPT ![t] = "resume"] /\ arg' = [arg EXCEPT ![t] = u]
      /\ Owns(t, u) /\ u \in Controlled /\ k.stat[u] = "SUSPEND"
      /\ k.stat[t] = "RUNNING"
  BY DEF Resume, Enter, At, IInv, OnlyRunnableRuns
<1>2. Taken(pc', arg') = Taken(pc, arg)
  BY <1>1, TakenStep DEF InDelete, Base
<1>3. CallAgrees(k', pc', arg', t)
  BY <1>1 DEF CallAgrees, Discipline, Base, RestAgrees
<1>4. RestAgrees(k', pc')
  BY <1>1, ThreadsAssumption DEF RestAgrees, Base, Owns
<1>5. Base(k', pc', arg')
  <2>1. \A x \in Thread : Undisturbed(k, k', pc, arg, x)
    BY <1>1 DEF Undisturbed
  <2>2. KernelInv(k', Taken(pc', arg')) /\ k' \in KernelState /\ "resume" \in Label
    BY <1>1, <1>2 DEF Base, Label
  <2> QED BY <1>1, <1>3, <1>4, <2>1, <2>2, BaseStep
<1>h. late' = late
  BY DEF Resume, Enter
<1> QED BY <1>1, <1>2, <1>5, <1>h, PlainStep DEF Base, Off, IInv, HighestPriorityRuns

LEMMA SuspendOtherKeeps ==
    ASSUME Discipline, IInv, NEW t \in Thread, NEW u \in Thread, SuspendOther(t, u)
    PROVE  IInv'
<1>1. /\ Base(k, pc, arg) /\ k.cur = t /\ pc[t] = "user" /\ k' = k
      /\ pc' = [pc EXCEPT ![t] = "suspend"] /\ arg' = [arg EXCEPT ![t] = u]
      /\ Owns(t, u) /\ u \in Controlled /\ k.stat[u] = "READY"
      /\ k.stat[t] = "RUNNING"
  BY DEF SuspendOther, Enter, At, IInv, OnlyRunnableRuns
<1>2. Taken(pc', arg') = Taken(pc, arg)
  BY <1>1, TakenStep DEF InDelete
<1>3. CallAgrees(k', pc', arg', t)
  BY <1>1 DEF CallAgrees, Base
<1>4. RestAgrees(k', pc')
  BY <1>1, ThreadsAssumption DEF RestAgrees, Base, Owns
<1>5. Base(k', pc', arg')
  <2>1. \A x \in Thread : Undisturbed(k, k', pc, arg, x)
    BY <1>1 DEF Undisturbed
  <2>2. KernelInv(k', Taken(pc', arg')) /\ k' \in KernelState /\ "suspend" \in Label
    BY <1>1, <1>2 DEF Base, Label
  <2> QED BY <1>1, <1>3, <1>4, <2>1, <2>2, BaseStep
<1>h. late' = late
  BY DEF SuspendOther, Enter
<1> QED BY <1>1, <1>2, <1>5, <1>h, PlainStep DEF Base, Off, IInv, HighestPriorityRuns

LEMMA YieldKeeps ==
    ASSUME IInv, NEW t \in Thread, Yield(t)
    PROVE  IInv'
<1>1. /\ Base(k, pc, arg) /\ k.cur = t /\ pc[t] = "user" /\ k' = k
      /\ pc' = [pc EXCEPT ![t] = "yield"] /\ arg' = [arg EXCEPT ![t] = arg[t]]
      /\ k.stat[t] = "RUNNING" /\ arg[t] \in Thread
  BY ArgUnchanged DEF Yield, Goto, At, IInv, OnlyRunnableRuns, Base
<1>2. Taken(pc', arg') = Taken(pc, arg)
  BY <1>1, TakenStep DEF InDelete
<1>3. CallAgrees(k', pc', arg', t)
  BY <1>1 DEF CallAgrees, Base
<1>4. RestAgrees(k', pc')
  BY <1>1 DEF RestAgrees, Base
<1>5. Base(k', pc', arg')
  <2>1. \A x \in Thread : Undisturbed(k, k', pc, arg, x)
    BY <1>1 DEF Undisturbed
  <2>2. KernelInv(k', Taken(pc', arg')) /\ k' \in KernelState /\ "yield" \in Label
    BY <1>1, <1>2 DEF Base, Label
  <2> QED BY <1>1, <1>3, <1>4, <2>1, <2>2, BaseStep
<1>h. late' = late
  BY DEF Yield, Goto
<1> QED BY <1>1, <1>2, <1>5, <1>h, PlainStep DEF Base, Off, IInv, HighestPriorityRuns

\* rt_thread_init works on an object that nothing refers to.
LEMMA CreateKeeps ==
    ASSUME Discipline, IInv, NEW t \in Thread, NEW u \in Thread, Create(t, u)
    PROVE  IInv'
<1> DEFINE S == [k.stat EXCEPT ![u] = "INIT"]
           Y == [k.yield EXCEPT ![u] = FALSE]
           P == [k.prio EXCEPT ![u] = InitPrio[u]]
           E == [k.error EXCEPT ![u] = "EOK"]
<1>1. /\ Base(k, pc, arg) /\ k.cur = t /\ pc[t] = "user" /\ Owns(t, u)
      /\ k' = [k EXCEPT !.stat = S, !.yield = Y, !.prio = P, !.error = E]
      /\ pc' = [pc EXCEPT ![u] = "user"] /\ arg' = arg
      /\ k.stat[u] = "NONE" \/ (k.stat[u] = "CLOSE" /\ u \in Static)
      /\ k.stat[t] = "RUNNING" /\ u # t /\ u # Idle /\ u # Main
      /\ k \in KernelState /\ arg \in [Thread -> Thread] /\ pc \in [Thread -> Label]
  BY ThreadsAssumption DEF Create, At, Owns, IInv, OnlyRunnableRuns, Base, KernelState
<1>2. /\ S \in [Thread -> Stat] /\ Y \in [Thread -> BOOLEAN]
      /\ P \in [Thread -> Prio] /\ E \in [Thread -> Error]
      /\ \A x \in Thread : S[x] = IF x = u THEN "INIT" ELSE k.stat[x]
      /\ \A x \in Thread : x # u => P[x] = k.prio[x]
  BY <1>1, ThreadsAssumption DEF KernelState, Stat, Error
<1> HIDE DEF Y, P, E
<1>3. /\ k' \in KernelState /\ k'.stat = S /\ k'.prio = P /\ k'.list = k.list
      /\ k'.group = k.group /\ k'.cur = k.cur /\ k'.timer = k.timer /\ k'.nest = k.nest
  <2> HIDE DEF S
  <2> QED BY <1>1, <1>2 DEF KernelState
<1>4. OffLists(k, u) /\ u \notin k.timer
  BY <1>1 DEF Base, KernelInv, ReadyListsAgree, RestAgrees, OffLists, OnList, ListHead,
              TimersAgree
<1>5. ASSUME NEW x \in Thread PROVE pc[x] \in InDelete => x # u /\ arg[x] # u
  BY <1>1 DEF Base, CallAgrees, InDelete, Owns
<1>6. Taken(pc', arg') = Taken(pc, arg)
  <2>1. \A x \in Thread : pc'[x] = IF x = u THEN "user" ELSE pc[x]
    BY <1>1
  <2> QED BY <1>1, <1>5, <2>1 DEF Taken, InDelete
<1>7. KernelInv(k', Taken(pc', arg'))
  <2>1. KernelInv(k, Taken(pc, arg))  BY <1>1 DEF Base
  <2>2. KernelInv(k', Taken(pc, arg) \ {u})
    <3>1. /\ u \notin k'.timer /\ "INIT" \in {"NONE", "INIT", "SUSPEND", "CLOSE"}
          /\ \A x \in Thread : x # u => k'.prio[x] = k.prio[x]
          /\ k'.timer \subseteq k.timer
      BY <1>2, <1>3, <1>4
    <3> QED BY <1>1, <1>3, <1>4, <2>1, <3>1, ChangeUnlinked
  <2> QED BY <1>3, <1>6, <2>2, SameLists
<1>8. ASSUME NEW x \in Thread PROVE CallAgrees(k', pc', arg', x)
  <2>1. CallAgrees(k, pc, arg, x) /\ arg[x] \in Thread
    BY <1>1 DEF Base
  <2>2. pc'[x] = (IF x = u THEN "user" ELSE pc[x]) /\ arg'[x] = arg[x]
    BY <1>1
  <2>3. pc'[arg[x]] = (IF arg[x] = u THEN "user" ELSE pc[arg[x]])
    BY <1>1, <2>1
  <2>4. k'.stat[x] = (IF x = u THEN "INIT" ELSE k.stat[x])
        /\ k'.stat[arg[x]] = (IF arg[x] = u THEN "INIT" ELSE k.stat[arg[x]])
    BY <1>2, <1>3, <2>1
  <2>5. OffLists(k, arg[x]) => OffLists(k', arg[x])
    BY <1>3 DEF OffLists, OnList
  <2> QED BY <1>1, <1>3, <2>1, <2>2, <2>3, <2>4, <2>5 DEF CallAgrees, Owns
<1>9. RestAgrees(k', pc')
  <2>1. \A l \in WaitList : \A x \in ToSet(k.list[l]) : x \in Thread /\ x # u
    BY <1>1, <1>4, ListsHoldThreads DEF OffLists, OnList, ListHead
  <2>2. RestAgrees(k, pc) /\ Idle \in Thread
    BY <1>1, ThreadsAssumption DEF Base
  <2> QED BY <1>1, <1>2, <1>3, <2>1, <2>2 DEF RestAgrees
<1>10. Base(k', pc', arg')
  BY <1>1, <1>3, <1>7, <1>8, <1>9 DEF Base
<1>11. /\ pc'[t] = "user" /\ k'.stat[t] = "RUNNING" /\ k'.prio[t] = k.prio[t]
       /\ \A x \in Thread : k'.stat[x] = "READY" =>
              k.stat[x] = "READY" /\ k'.prio[x] = k.prio[x]
  BY <1>1, <1>2, <1>3
<1>h. late' = late
  BY DEF Create
<1> QED BY <1>1, <1>3, <1>6, <1>10, <1>11, <1>h, PlainStep DEF Off, IInv, HighestPriorityRuns

LEMMA StartupKeeps ==
    ASSUME Discipline, IInv, NEW t \in Thread, NEW u \in Thread, Startup(t, u)
    PROVE  IInv'
<1> DEFINE S == [k.stat EXCEPT ![u] = "SUSPEND"]
           Y == [k.yield EXCEPT ![u] = FALSE]
           P == [k.prio EXCEPT ![u] = InitPrio[u]]
<1>1. /\ Base(k, pc, arg) /\ k.cur = t /\ pc[t] = "user" /\ Owns(t, u)
      /\ k' = [k EXCEPT !.stat = S, !.yield = Y, !.prio = P]
      /\ pc' = [pc EXCEPT ![t] = "startup"] /\ arg' = [arg EXCEPT ![t] = u]
      /\ k.stat[u] = "INIT"
      /\ k.stat[t] = "RUNNING" /\ u # t /\ u # Idle /\ u # Main
      /\ k \in KernelState /\ arg \in [Thread -> Thread] /\ pc \in [Thread -> Label]
  BY ThreadsAssumption
     DEF Startup, Enter, At, Owns, IInv, OnlyRunnableRuns, Base, KernelState
<1>2. /\ S \in [Thread -> Stat] /\ Y \in [Thread -> BOOLEAN]
      /\ P \in [Thread -> Prio]
      /\ \A x \in Thread : S[x] = IF x = u THEN "SUSPEND" ELSE k.stat[x]
      /\ \A x \in Thread : x # u => P[x] = k.prio[x]
  BY <1>1, ThreadsAssumption DEF KernelState, Stat
<1> HIDE DEF Y, P
<1>3. /\ k' \in KernelState /\ k'.stat = S /\ k'.prio = P /\ k'.list = k.list
      /\ k'.group = k.group /\ k'.cur = k.cur /\ k'.timer = k.timer /\ k'.nest = k.nest
  <2> HIDE DEF S
  <2> QED BY <1>1, <1>2 DEF KernelState
<1>4. OffLists(k, u) /\ u \notin k.timer
  BY <1>1, SuspendedIsOffLists DEF Base, KernelInv, TimersAgree
<1>5. Taken(pc', arg') = Taken(pc, arg)
  BY <1>1, TakenStep DEF InDelete
<1>6. KernelInv(k', Taken(pc', arg'))
  <2>1. KernelInv(k, Taken(pc, arg))  BY <1>1 DEF Base
  <2>2. KernelInv(k', Taken(pc, arg) \ {u})
    <3>1. /\ u \notin k'.timer /\ "SUSPEND" \in {"NONE", "INIT", "SUSPEND", "CLOSE"}
          /\ \A x \in Thread : x # u => k'.prio[x] = k.prio[x]
          /\ k'.timer \subseteq k.timer
      BY <1>2, <1>3, <1>4
    <3> QED BY <1>1, <1>3, <1>4, <2>1, <3>1, ChangeUnlinked
  <2> QED BY <1>3, <1>5, <2>2, SameLists
<1>7. CallAgrees(k', pc', arg', t)
  <2>1. /\ pc'[t] = "startup" /\ arg'[t] = u /\ k'.stat[u] = "SUSPEND"
        /\ k'.stat[t] = "RUNNING" /\ pc'[u] = pc[u]
    BY <1>1, <1>2, <1>3
  <2>2. u \in IsrResumes => pc[u] \notin {"sleep", "woken"}
    BY <1>1 DEF Base, RestAgrees
  <2> QED BY <1>1, <1>3, <1>4, <2>1, <2>2 DEF CallAgrees
<1>8. RestAgrees(k', pc')
  <2>1. \A l \in WaitList : \A x \in ToSet(k.list[l]) : x \in Thread /\ x # u
    BY <1>1, <1>4, ListsHoldThreads DEF OffLists, OnList, ListHead
  <2>2. RestAgrees(k, pc) /\ Idle \in Thread /\ t # Idle
    BY <1>1, ThreadsAssumption DEF Base, Owns
  <2> QED BY <1>1, <1>2, <1>3, <2>1, <2>2 DEF RestAgrees
<1>9. Base(k', pc', arg')
  <2>1. ASSUME NEW x \in Thread, x # t, pc[x] \in Busy
        PROVE  Undisturbed(k, k', pc, arg, x)
    <3>1. arg[x] # u /\ arg[x] \in Thread
      BY <1>1, <2>1, OnlyOwnersCall
    <3>2. OffLists(k, arg[x]) => OffLists(k', arg[x])
      BY <1>3 DEF OffLists, OnList
    <3> QED BY <1>1, <1>2, <1>3, <3>1, <3>2 DEF Undisturbed, Alive
  <2>2. "startup" \in Label  BY DEF Label
  <2> QED BY <1>1, <1>3, <1>6, <1>7, <1>8, <2>1, <2>2, BaseStep
<1>10. /\ pc'[t] = "startup" /\ k'.stat[t] = "RUNNING" /\ k'.prio[t] = k.prio[t]
       /\ \A x \in Thread : k'.stat[x] = "READY" =>
              k.stat[x] = "READY" /\ k'.prio[x] = k.prio[x]
  BY <1>1, <1>2, <1>3
<1>h. late' = late
  BY DEF Startup, Enter
<1> QED BY <1>1, <1>3, <1>5, <1>9, <1>10, <1>h, PlainStep DEF Off, IInv, HighestPriorityRuns

\* The thread was found suspended and is still on no list.
LEMMA ResumeUnlinkKeeps ==
    ASSUME IInv, NEW t \in Thread, ResumeUnlink(t)
    PROVE  IInv'
<1> DEFINE u == arg[t]
           q == rt_list_remove(k, u)
<1>0. PICK l \in {"insert", "started"} :
          /\ At(t, IF l = "insert" THEN "resume" ELSE "startup")
          /\ Goto(t, rt_thread_unlink(k, u), l)
  BY DEF ResumeUnlink
<1>1. /\ Base(k, pc, arg) /\ k.cur = t /\ pc[t] \in {"resume", "startup"}
      /\ k' = [q EXCEPT !.timer = @ \ {u}]
      /\ pc' = [pc EXCEPT ![t] = l] /\ arg' = [arg EXCEPT ![t] = u]
      /\ u = arg[t] /\ Owns(t, u) /\ k.stat[u] = "SUSPEND" /\ u \notin k.timer
      /\ u # k.cur /\ k.stat[t] = "RUNNING" /\ u \in Thread /\ t # Idle
      /\ k \in KernelState /\ arg \in [Thread -> Thread] /\ pc \in [Thread -> Label]
  <2>1. /\ Base(k, pc, arg) /\ k.cur = t /\ pc[t] \in {"resume", "startup"}
        /\ CallAgrees(k, pc, arg, t)
        /\ k.stat[t] = "RUNNING" /\ RestAgrees(k, pc)
        /\ k \in KernelState /\ arg \in [Thread -> Thread] /\ pc \in [Thread -> Label]
    BY <1>0 DEF At, IInv, OnlyRunnableRuns, Base
  <2> QED BY <1>0, <2>1, ArgUnchanged
          DEF CallAgrees, RestAgrees, Goto, rt_thread_unlink, rt_timer_stop
<1> HIDE DEF u
<1>2. /\ q \in KernelState /\ KernelInv(q, Taken(pc, arg)) /\ q.list = k.list
      /\ q.cur = k.cur /\ q.stat = k.stat /\ q.prio = k.prio /\ q.timer = k.timer
      /\ q.group = k.group /\ q.nest = k.nest
  <2>1. KernelInv(k, Taken(pc, arg)) /\ OffLists(k, u) /\ k.stat[u] # "READY"
    BY <1>1, SuspendedIsOffLists DEF Base
  <2> HIDE DEF q
  <2> QED BY <1>1, <2>1, UnlinkPreserves DEF q
<1> HIDE DEF q
<1>3. /\ k' \in KernelState /\ k'.stat = k.stat /\ k'.prio = k.prio /\ k'.list = k.list
      /\ k'.group = k.group /\ k'.cur = k.cur /\ k'.timer = k.timer /\ k'.nest = k.nest
  BY ZenonT(60), <1>1, <1>2 DEF KernelState
<1>4. Taken(pc', arg') = Taken(pc, arg)
  BY <1>1, TakenStep DEF InDelete
<1>5. KernelInv(k', Taken(pc', arg'))
  BY <1>1, <1>3, <1>4, SameLists DEF Base
<1>6. CallAgrees(k', pc', arg', t)
  <2>1. CallAgrees(k, pc, arg, t) /\ pc'[t] = l /\ pc'[u] = pc[u]
    BY <1>1 DEF Base
  <2> QED BY <1>1, <1>3, <2>1 DEF CallAgrees
<1>7. RestAgrees(k', pc')
  <2>1. RestAgrees(k, pc) /\ Idle \in Thread
    BY <1>1, ThreadsAssumption DEF Base
  <2> QED BY <1>1, <1>3, <2>1 DEF RestAgrees
<1>8. Base(k', pc', arg')
  <2>1. \A x \in Thread : Undisturbed(k, k', pc, arg, x)
    BY <1>3 DEF Undisturbed, OffLists, OnList
  <2>2. l \in Label  BY DEF Label
  <2> QED BY <1>1, <1>3, <1>5, <1>6, <1>7, <2>1, <2>2, BaseStep
<1>h. late' = late
  BY <1>0 DEF Goto
<1> QED BY ZenonT(60), <1>1, <1>3, <1>4, <1>8, <1>h, PlainStep DEF Off, IInv, HighestPriorityRuns

LEMMA ResumeInsertKeeps ==
    ASSUME IInv, NEW t \in Thread, ResumeInsert(t)
    PROVE  IInv'
<1> DEFINE u == arg[t]
           q == rt_schedule_insert_thread(k, u)
<1>0. PICK next \in {"user", "schedule"} :
          /\ At(t, IF next = "user" THEN "insert" ELSE "started")
          /\ k' = q /\ pc' = [pc EXCEPT ![t] = next] /\ UNCHANGED arg
          /\ late' = IF next = "user" THEN late \cup {u} ELSE late
  BY DEF ResumeInsert, Goto
<1>1. /\ Base(k, pc, arg) /\ k.cur = t /\ pc[t] \in {"insert", "started"} /\ k' = q
      /\ pc' = [pc EXCEPT ![t] = next] /\ arg' = [arg EXCEPT ![t] = u]
      /\ u = arg[t] /\ Owns(t, u) /\ k.stat[u] = "SUSPEND" /\ u \notin k.timer
      /\ u # k.cur /\ k.stat[t] = "RUNNING" /\ u \in Thread /\ t # Idle
      /\ k \in KernelState /\ arg \in [Thread -> Thread] /\ pc \in [Thread -> Label]
  <2>1. /\ Base(k, pc, arg) /\ k.cur = t /\ pc[t] \in {"insert", "started"}
        /\ CallAgrees(k, pc, arg, t)
        /\ k.stat[t] = "RUNNING" /\ RestAgrees(k, pc)
        /\ k \in KernelState /\ arg \in [Thread -> Thread] /\ pc \in [Thread -> Label]
    BY <1>0 DEF At, IInv, OnlyRunnableRuns, Base
  <2> HIDE DEF q
  <2> QED BY <1>0, <2>1, ArgUnchanged DEF CallAgrees, RestAgrees
<1> HIDE DEF u
<1>2. /\ q \in KernelState /\ KernelInv(q, Taken(pc, arg))
      /\ q.stat = [k.stat EXCEPT ![u] = IF u = k.cur THEN "RUNNING" ELSE "READY"]
      /\ \A l \in ListHead : ToSet(q.list[l]) =
             IF l = k.prio[u] /\ u # k.cur THEN ToSet(k.list[l]) \cup {u}
                                         ELSE ToSet(k.list[l])
      /\ q.cur = k.cur /\ q.yield = k.yield /\ q.prio = k.prio
      /\ q.error = k.error /\ q.timer = k.timer /\ q.nest = k.nest
  <2>1. KernelInv(k, Taken(pc, arg)) /\ OffLists(k, u)
    BY <1>1, SuspendedIsOffLists DEF Base
  <2> HIDE DEF q
  <2> QED BY ZenonT(60), <1>1, <2>1, MakeReadyPreserves DEF q
<1> HIDE DEF q
<1>3. /\ \A x \in Thread : q.stat[x] = IF x = u THEN "READY" ELSE k.stat[x]
      /\ \A x \in Thread : x # u /\ OffLists(k, x) => OffLists(q, x)
      /\ \A l \in WaitList : ToSet(q.list[l]) = ToSet(k.list[l])
  <2>1. \A x \in Thread : q.stat[x] = IF x = u THEN "READY" ELSE k.stat[x]
    BY <1>1, <1>2 DEF KernelState
  <2>2. \A x \in Thread : x # u /\ OffLists(k, x) => OffLists(q, x)
    BY ZenonT(60), <1>2 DEF OffLists, OnList
  <2>3. \A l \in WaitList : l \in ListHead /\ l # k.prio[u]
    BY <1>1, KernelAssumption DEF KernelState, ListHead
  <2> QED BY <1>2, <2>1, <2>2, <2>3
<1>4. Taken(pc', arg') = Taken(pc, arg)
  BY <1>1, TakenStep DEF InDelete
<1>5. CallAgrees(k', pc', arg', t)
  BY <1>1 DEF CallAgrees, Base
<1>6. RestAgrees(k', pc')
  <2>1. RestAgrees(k, pc) /\ Idle \in Thread /\ u # Idle
    BY <1>1, ThreadsAssumption DEF Base, Owns
  <2>2. \A l \in WaitList : \A x \in ToSet(k.list[l]) : x \in Thread /\ x # u
    BY <1>1, <2>1, ListsHoldThreads DEF RestAgrees, ListHead
  <2> QED BY <1>1, <1>2, <1>3, <2>1, <2>2 DEF RestAgrees
<1>7. Base(k', pc', arg')
  <2>1. ASSUME NEW x \in Thread, x # t, pc[x] \in Busy
        PROVE  Undisturbed(k, k', pc, arg, x)
    <3>1. arg[x] # u /\ arg[x] \in Thread
      BY <1>1, <2>1, OnlyOwnersCall
    <3> QED BY <1>1, <1>2, <1>3, <3>1 DEF Undisturbed, Alive
  <2>2. next \in Label  BY DEF Label
  <2> QED BY <1>1, <1>2, <1>4, <1>5, <1>6, <2>1, <2>2, BaseStep
<1>8. CASE next = "schedule"
  BY <1>1, <1>2, <1>3, <1>7, <1>8, PlainStep
<1>9. CASE next = "user"
  <2>1. late' = late \cup {u} /\ pc[t] \notin {"schedule", "sleep"} /\ pc'[k.cur] = "user"
    BY <1>0, <1>1, <1>9
  <2>2. \A x \in Thread \ (Off' \cup late') : k'.stat[x] = "READY" =>
            k.stat[x] = "READY" /\ x \notin Off /\ k'.prio[x] = k.prio[x]
    BY <1>1, <1>2, <1>3, <1>4, <2>1 DEF Off
  <2> QED BY <1>1, <1>2, <1>3, <1>7, <2>1, <2>2, PlainStep
<1> QED BY <1>8, <1>9

LEMMA SuspendSectionKeeps ==
    ASSUME Discipline, IInv, NEW t \in Thread, SuspendSection(t)
    PROVE  IInv'
<1> DEFINE u == arg[t]
           q == rt_thread_suspend_section(k, u)
<1>1. /\ Base(k, pc, arg) /\ k.cur = t /\ pc[t] = "suspend" /\ k' = q
      /\ pc' = [pc EXCEPT ![t] = "user"] /\ arg' = [arg EXCEPT ![t] = u]
      /\ u = arg[t] /\ Owns(t, u) /\ u \in Controlled /\ k.stat[u] \in Alive
      /\ u # t /\ k.stat[t] = "RUNNING" /\ u \in Thread /\ t # Idle
      /\ k \in KernelState /\ arg \in [Thread -> Thread] /\ pc \in [Thread -> Label]
  <2>1. /\ Base(k, pc, arg) /\ k.cur = t /\ pc[t] = "suspend" /\ CallAgrees(k, pc, arg, t)
        /\ k.stat[t] = "RUNNING" /\ RestAgrees(k, pc)
        /\ k \in KernelState /\ arg \in [Thread -> Thread] /\ pc \in [Thread -> Label]
    BY DEF SuspendSection, At, IInv, OnlyRunnableRuns, Base
  <2>2. Owns(t, u) /\ u \in Controlled /\ k.stat[u] \in Alive
    BY <2>1 DEF CallAgrees, Alive
  <2>3. u # t  BY <2>2 DEF Discipline, Owns
  <2> QED BY <2>1, <2>2, <2>3, ArgUnchanged DEF RestAgrees, SuspendSection, Goto
<1> HIDE DEF u
<1>2. /\ q \in KernelState /\ KernelInv(q, Taken(pc, arg)) /\ OffLists(q, u)
      /\ \A l \in ListHead : ToSet(q.list[l]) = ToSet(k.list[l]) \ {u}
      /\ q.stat = [k.stat EXCEPT ![u] = "SUSPEND"]
      /\ q.timer = k.timer \ {u}
      /\ q.cur = k.cur /\ q.prio = k.prio /\ q.nest = k.nest
  <2>1. KernelInv(k, Taken(pc, arg))  BY <1>1 DEF Base
  <2> HIDE DEF q
  <2> QED BY ZenonT(60), <1>1, <2>1, SuspendPreserves DEF q
<1> HIDE DEF q
<1>3. /\ \A x \in Thread : q.stat[x] = IF x = u THEN "SUSPEND" ELSE k.stat[x]
      /\ \A x \in Thread : OffLists(k, x) => OffLists(q, x)
  <2>1. \A x \in Thread : q.stat[x] = IF x = u THEN "SUSPEND" ELSE k.stat[x]
    BY <1>1, <1>2 DEF KernelState
  <2>2. \A x \in Thread : OffLists(k, x) => OffLists(q, x)
    BY <1>2 DEF OffLists, OnList
  <2> QED BY <2>1, <2>2
<1>4. Taken(pc', arg') = Taken(pc, arg)
  BY ZenonT(60), <1>1, TakenStep DEF InDelete
<1>5. CallAgrees(k', pc', arg', t)
  BY <1>1 DEF CallAgrees
<1>6. RestAgrees(k', pc')
  <2>1. RestAgrees(k, pc) /\ Idle \in Thread /\ u # Idle
    BY <1>1, ThreadsAssumption DEF Base, Owns
  <2>2. \A l \in WaitList : \A x \in ToSet(q.list[l]) :
            x \in Thread /\ x # u /\ x \in ToSet(k.list[l])
    BY <1>2, ListsHoldThreads DEF ListHead
  <2> QED BY <1>1, <1>2, <1>3, <2>1, <2>2 DEF RestAgrees
<1>7. Base(k', pc', arg')
  <2>1. ASSUME NEW x \in Thread, x # t, pc[x] \in Busy
        PROVE  Undisturbed(k, k', pc, arg, x)
    <3>1. arg[x] # u /\ arg[x] \in Thread
      BY <1>1, <2>1, OnlyOwnersCall DEF Alive
    <3> QED BY <1>1, <1>2, <1>3, <3>1 DEF Undisturbed, Alive
  <2>2. "user" \in Label  BY DEF Label
  <2> QED BY <1>1, <1>2, <1>4, <1>5, <1>6, <2>1, <2>2, BaseStep
<1>8. /\ pc'[t] = "user" /\ k'.stat[t] = "RUNNING" /\ k'.prio = k.prio
      /\ \A x \in Thread : k'.stat[x] = "READY" => k.stat[x] = "READY"
  BY <1>1, <1>2, <1>3
<1>h. late' = late
  BY DEF SuspendSection, Goto
<1> QED BY <1>1, <1>2, <1>4, <1>7, <1>8, <1>h, PlainStep DEF Off, IInv, HighestPriorityRuns

LEMMA ChangePriorityKeeps ==
    ASSUME Discipline, IInv, NEW t \in Thread, NEW u \in Thread, NEW p \in Prio,
           ChangePriority(t, u, p)
    PROVE  IInv'
<1> DEFINE q == rt_thread_change_priority(k, u, p)
<1>1. /\ Base(k, pc, arg) /\ k.cur = t /\ pc[t] = "user" /\ k' = q
      /\ pc' = [pc EXCEPT ![t] = "user"] /\ arg' = [arg EXCEPT ![t] = arg[t]]
      /\ Owns(t, u) /\ u \in Controlled /\ k.stat[u] \in {"READY", "SUSPEND"}
      /\ u # t /\ u # Idle /\ k.stat[t] = "RUNNING" /\ arg[t] \in Thread /\ t # Idle
      /\ k \in KernelState /\ arg \in [Thread -> Thread] /\ pc \in [Thread -> Label]
      /\ late' = late \cup {u}
  <2>1. /\ arg \in [Thread -> Thread] /\ k.stat[t] = "RUNNING" /\ Base(k, pc, arg)
        /\ k \in KernelState /\ pc \in [Thread -> Label]
    BY DEF IInv, Base, ChangePriority, At, OnlyRunnableRuns
  <2>2. u # Idle /\ t # Idle
    BY ThreadsAssumption DEF ChangePriority, Owns
  <2>3. pc' = pc /\ arg' = arg /\ k' = q /\ late' = late \cup {u} /\ pc[t] = "user"
    BY DEF ChangePriority, At
  <2>4. pc' = [pc EXCEPT ![t] = "user"]
    BY <2>1, <2>3
  <2> HIDE DEF q
  <2> QED BY <2>1, <2>2, <2>3, <2>4, ArgUnchanged DEF ChangePriority, At, Discipline, Owns
<1>2. u \notin Taken(pc, arg)
  BY <1>1 DEF Base, Taken, CallAgrees, Owns
<1>3. /\ q \in KernelState /\ KernelInv(q, Taken(pc, arg))
      /\ q.prio = [k.prio EXCEPT ![u] = p]
      /\ \A l \in WaitList : ToSet(q.list[l]) = ToSet(k.list[l])
      /\ \A x \in Thread : x # u /\ OffLists(k, x) => OffLists(q, x)
      /\ q.cur = k.cur /\ q.stat = k.stat /\ q.timer = k.timer /\ q.nest = k.nest
  <2>1. /\ KernelInv(k, Taken(pc, arg)) /\ u \in Thread \ Taken(pc, arg) /\ u # k.cur
        /\ k.stat[u] = "READY" \/ OffLists(k, u)
    BY <1>1, <1>2, SuspendedIsOffLists DEF Base
  <2> HIDE DEF q
  <2> QED BY <1>1, <2>1, ChangePriorityPreserves DEF q
<1> HIDE DEF q
<1>4. Taken(pc', arg') = Taken(pc, arg)
  BY <1>1, TakenStep DEF InDelete
<1>5. CallAgrees(k', pc', arg', t)
  BY <1>1 DEF CallAgrees
<1>6. RestAgrees(k', pc')
  <2>1. RestAgrees(k, pc) /\ Idle \in Thread
    BY <1>1, ThreadsAssumption DEF Base
  <2>2. q.prio[Idle] = k.prio[Idle]
    BY <1>1, <1>3, <2>1 DEF KernelState
  <2> QED BY <1>1, <1>3, <2>1, <2>2 DEF RestAgrees
<1>7. Base(k', pc', arg')
  <2>1. ASSUME NEW x \in Thread, x # t, pc[x] \in Busy
        PROVE  Undisturbed(k, k', pc, arg, x)
    <3>1. arg[x] # u /\ arg[x] \in Thread
      BY <1>1, <2>1, OnlyOwnersCall
    <3> QED BY <1>1, <1>3, <3>1 DEF Undisturbed
  <2>2. "user" \in Label  BY DEF Label
  <2> QED BY <1>1, <1>3, <1>4, <1>5, <1>6, <2>1, <2>2, BaseStep
<1>8. /\ pc'[k.cur] = "user" /\ k'.prio[k.cur] = k.prio[k.cur] /\ k'.stat[k.cur] = "RUNNING"
      /\ \A x \in Thread \ late' : k'.prio[x] = k.prio[x] /\ k'.stat[x] = k.stat[x]
  BY <1>1, <1>3 DEF KernelState
<1> QED BY <1>1, <1>3, <1>4, <1>7, <1>8, PlainStep DEF Off

\* From here to DeleteClose the thread is on no list, and nothing else has it.
LEMMA DeleteKeeps ==
    ASSUME Discipline, IInv, NEW t \in Thread, NEW u \in Thread, Delete(t, u)
    PROVE  IInv'
<1> DEFINE q == IF k.stat[u] = "INIT" THEN k ELSE rt_schedule_remove_thread(k, u)
<1>1. /\ Base(k, pc, arg) /\ k.cur = t /\ pc[t] = "user" /\ k' = q
      /\ pc' = [pc EXCEPT ![t] = "delete_timer"] /\ arg' = [arg EXCEPT ![t] = u]
      /\ Owns(t, u) /\ u \in Deletable /\ k.stat[u] \in {"INIT", "READY", "SUSPEND"}
      /\ u # t /\ k.stat[t] = "RUNNING" /\ t # Idle
      /\ k \in KernelState /\ arg \in [Thread -> Thread] /\ pc \in [Thread -> Label]
  BY ThreadsAssumption DEF IInv, Base, Delete, At, OnlyRunnableRuns, Enter, Owns
<1>2. Taken(pc', arg') = Taken(pc, arg) \cup {u}
  BY ZenonT(90), <1>1, TakenStep DEF InDelete
<1>3. /\ q \in KernelState /\ KernelInv(q, Taken(pc', arg')) /\ OffLists(q, u)
      /\ \A l \in ListHead : ToSet(q.list[l]) \subseteq ToSet(k.list[l])
      /\ q.cur = k.cur /\ q.stat = k.stat /\ q.prio = k.prio
      /\ q.timer = k.timer /\ q.nest = k.nest
  <2>1. KernelInv(k, Taken(pc, arg))  BY <1>1 DEF Base
  <2>2. CASE k.stat[u] = "INIT"
    <3>1. KernelInv(k, Taken(pc', arg'))
      BY <1>1, <1>2, <2>1, SameLists
    <3>2. OffLists(k, u)
      BY <1>1, <2>2, SuspendedIsOffLists
    <3> QED BY <1>1, <2>2, <3>1, <3>2
  <2>3. CASE k.stat[u] # "INIT"
    <3> DEFINE r == rt_schedule_remove_thread(k, u)
    <3>1. /\ r \in KernelState /\ KernelInv(r, Taken(pc, arg) \cup {u}) /\ OffLists(r, u)
          /\ \A l \in ListHead : ToSet(r.list[l]) = ToSet(k.list[l]) \ {u}
          /\ r.cur = k.cur /\ r.stat = k.stat /\ r.prio = k.prio
          /\ r.timer = k.timer /\ r.nest = k.nest
      BY <1>1, <2>1, TakeThread
    <3>2. q = r  BY <2>3
    <3> HIDE DEF q, r
    <3> QED BY <1>2, <3>1, <3>2
  <2> QED BY <2>2, <2>3
<1> HIDE DEF q
<1>4. CallAgrees(k', pc', arg', t)
  <2>1. pc'[t] = "delete_timer" /\ arg'[t] = u  BY <1>1
  <2> QED BY <1>1, <1>3, <2>1 DEF CallAgrees
<1>5. RestAgrees(k', pc')
  <2>1. RestAgrees(k, pc) /\ Idle \in Thread
    BY <1>1, ThreadsAssumption DEF Base
  <2> QED BY SMTT(30), <1>1, <1>3, <2>1 DEF RestAgrees, ListHead
<1>6. Base(k', pc', arg')
  <2>1. \A x \in Thread : OffLists(k, x) => OffLists(q, x)
    BY <1>3 DEF OffLists, OnList
  <2>2. \A x \in Thread : Undisturbed(k, k', pc, arg, x)
    BY <1>1, <1>3, <2>1 DEF Undisturbed, Base
  <2>3. "delete_timer" \in Label  BY DEF Label
  <2> QED BY <1>1, <1>3, <1>4, <1>5, <2>2, <2>3, BaseStep
<1>h. late' = late
  BY DEF Delete, Enter
<1> QED BY <1>1, <1>2, <1>3, <1>6, <1>h, PlainStep DEF Off, IInv, HighestPriorityRuns

LEMMA DeleteTimerKeeps ==
    ASSUME IInv, NEW t \in Thread, DeleteTimer(t)
    PROVE  IInv'
<1> DEFINE u == arg[t]
<1>1. /\ Base(k, pc, arg) /\ k.cur = t /\ pc[t] = "delete_timer"
      /\ k' = [k EXCEPT !.timer = @ \ {u}]
      /\ pc' = [pc EXCEPT ![t] = "delete_close"] /\ arg' = [arg EXCEPT ![t] = u]
      /\ u = arg[t] /\ u \in Thread /\ k.stat[t] = "RUNNING" /\ t # Idle
      /\ k \in KernelState /\ arg \in [Thread -> Thread] /\ pc \in [Thread -> Label]
      /\ CallAgrees(k, pc, arg, t)
  <2>1. /\ Base(k, pc, arg) /\ k.cur = t /\ pc[t] = "delete_timer" /\ CallAgrees(k, pc, arg, t)
        /\ k.stat[t] = "RUNNING" /\ RestAgrees(k, pc)
        /\ k \in KernelState /\ arg \in [Thread -> Thread] /\ pc \in [Thread -> Label]
    BY DEF DeleteTimer, At, IInv, OnlyRunnableRuns, Base
  <2> QED BY <2>1, ArgUnchanged DEF RestAgrees, DeleteTimer, Goto, rt_timer_stop
<1> HIDE DEF u
<1>2. /\ k' \in KernelState /\ k'.stat = k.stat /\ k'.prio = k.prio /\ k'.list = k.list
      /\ k'.group = k.group /\ k'.cur = k.cur /\ k'.timer = k.timer \ {u} /\ k'.nest = k.nest
  BY <1>1 DEF KernelState
<1>3. Taken(pc', arg') = Taken(pc, arg)
  BY <1>1, TakenStep DEF InDelete
<1>4. KernelInv(k', Taken(pc', arg'))
  BY <1>1, <1>2, <1>3, SameLists DEF Base
<1>5. \A x \in Thread : OffLists(k, x) => OffLists(k', x)
  BY <1>2 DEF OffLists, OnList
<1>6. CallAgrees(k', pc', arg', t)
  <2>1. pc'[t] = "delete_close" /\ arg'[t] = u  BY <1>1
  <2> QED BY <1>1, <1>2, <1>5, <2>1 DEF CallAgrees
<1>7. RestAgrees(k', pc')
  <2>1. RestAgrees(k, pc) /\ Idle \in Thread
    BY <1>1, ThreadsAssumption DEF Base
  <2> QED BY <1>1, <1>2, <2>1 DEF RestAgrees
<1>8. Base(k', pc', arg')
  <2>1. \A x \in Thread : Undisturbed(k, k', pc, arg, x)
    BY <1>1, <1>2, <1>5 DEF Undisturbed
  <2>2. "delete_close" \in Label  BY DEF Label
  <2> QED BY <1>1, <1>2, <1>4, <1>6, <1>7, <2>1, <2>2, BaseStep
<1>h. late' = late
  BY DEF DeleteTimer, Goto
<1> QED BY <1>1, <1>2, <1>3, <1>8, <1>h, PlainStep DEF Off, IInv, HighestPriorityRuns

LEMMA DeleteCloseKeeps ==
    ASSUME Discipline, IInv, NEW t \in Thread, DeleteClose(t)
    PROVE  IInv'
<1> DEFINE u == arg[t]
           S == [k.stat EXCEPT ![u] = "CLOSE"]
           Y == [k.yield EXCEPT ![u] = FALSE]
           c == [k EXCEPT !.stat = S, !.yield = Y]
           d == IF u \in Static THEN c ELSE rt_list_insert_after(c, rt_thread_defunct, u)
<1>0. k \in KernelState /\ c = [k EXCEPT !.stat[u] = "CLOSE", !.yield[u] = FALSE]
  BY DEF IInv, Base, KernelState
<1>1. /\ Base(k, pc, arg) /\ k.cur = t /\ pc[t] = "delete_close" /\ k' = d
      /\ pc' = [pc EXCEPT ![t] = "user"] /\ arg' = [arg EXCEPT ![t] = u]
      /\ u = arg[t] /\ u \in Thread /\ k.stat[t] = "RUNNING" /\ t # Idle
      /\ Owns(t, u) /\ u \in Deletable /\ k.stat[u] \in {"INIT", "READY", "SUSPEND"}
      /\ OffLists(k, u) /\ u # t
      /\ arg \in [Thread -> Thread] /\ pc \in [Thread -> Label]
  <2>1. /\ Base(k, pc, arg) /\ k.cur = t /\ pc[t] = "delete_close"
        /\ CallAgrees(k, pc, arg, t) /\ k.stat[t] = "RUNNING" /\ RestAgrees(k, pc)
        /\ arg \in [Thread -> Thread] /\ pc \in [Thread -> Label]
    BY DEF DeleteClose, At, IInv, OnlyRunnableRuns, Base
  <2>2. k' = d /\ pc' = [pc EXCEPT ![t] = "user"] /\ UNCHANGED arg
    BY <1>0 DEF DeleteClose, Goto
  <2> HIDE DEF d
  <2> QED BY <2>1, <2>2, ArgUnchanged DEF RestAgrees, CallAgrees
<1>1a. Taken(pc, arg) \ {u} \subseteq Taken(pc', arg')
  <2> HIDE DEF d
  <2> QED BY <1>1, TakenStep DEF InDelete
<1> HIDE DEF u
<1>2. /\ S \in [Thread -> Stat] /\ Y \in [Thread -> BOOLEAN]
      /\ \A x \in Thread : S[x] = IF x = u THEN "CLOSE" ELSE k.stat[x]
  BY <1>0, <1>1 DEF KernelState, Stat
<1> HIDE DEF Y
<1>3. /\ c \in KernelState /\ c.stat = S /\ c.prio = k.prio /\ c.list = k.list
      /\ c.group = k.group /\ c.cur = k.cur /\ c.timer = k.timer /\ c.nest = k.nest
  <2> HIDE DEF S
  <2> QED BY <1>0, <1>2 DEF KernelState
<1> HIDE DEF c
<1>4. u \notin k.timer
  BY <1>1 DEF Base, RestAgrees, Discipline
<1>5. KernelInv(c, Taken(pc, arg) \ {u})
  <2>1. KernelInv(k, Taken(pc, arg))  BY <1>1 DEF Base
  <2>2. /\ u \notin c.timer /\ "CLOSE" \in {"NONE", "INIT", "SUSPEND", "CLOSE"}
        /\ \A x \in Thread : x # u => c.prio[x] = k.prio[x]
        /\ c.timer \subseteq k.timer
    BY <1>3, <1>4
  <2> QED BY ZenonT(60), <1>0, <1>1, <1>3, <2>1, <2>2, ChangeUnlinked
<1> HIDE DEF S
<1>6. /\ d \in KernelState /\ KernelInv(d, Taken(pc, arg) \ {u})
      /\ d.stat = S /\ d.prio = k.prio /\ d.cur = k.cur /\ d.timer = k.timer
      /\ d.nest = k.nest
      /\ \A l \in ListHead : ToSet(d.list[l]) =
             IF u \notin Static /\ l = rt_thread_defunct
             THEN ToSet(k.list[l]) \cup {u} ELSE ToSet(k.list[l])
  <2>1. CASE u \in Static
    BY <1>3, <1>5, <2>1
  <2>2. CASE u \notin Static
    <3> DEFINE e == rt_list_insert_after(c, rt_thread_defunct, u)
    <3>1. /\ e \in KernelState /\ KernelInv(e, Taken(pc, arg) \ {u})
          /\ \A l \in ListHead : ToSet(e.list[l]) =
                 IF l = rt_thread_defunct THEN ToSet(c.list[l]) \cup {u}
                                          ELSE ToSet(c.list[l])
          /\ e.cur = c.cur /\ e.stat = c.stat /\ e.prio = c.prio
          /\ e.timer = c.timer /\ e.nest = c.nest
      <4>1. /\ OffLists(c, u) /\ c.stat[u] \in {"SUSPEND", "CLOSE"}
            /\ rt_thread_defunct \in WaitList
        BY <1>1, <1>2, <1>3, ThreadsAssumption DEF OffLists, OnList
      <4> DEFINE O == Taken(pc, arg) \ {u}
      <4>2. c \in KernelState /\ KernelInv(c, O) /\ u \in Thread
        BY <1>1, <1>3, <1>5
      <4> HIDE DEF e, O
      <4>3. /\ e \in KernelState /\ KernelInv(e, O)
            /\ \A l \in ListHead : ToSet(e.list[l]) =
                   IF l = rt_thread_defunct THEN ToSet(c.list[l]) \cup {u}
                                            ELSE ToSet(c.list[l])
            /\ e.cur = c.cur /\ e.stat = c.stat /\ e.prio = c.prio
            /\ e.timer = c.timer /\ e.nest = c.nest
        BY SMTT(30), <4>1, <4>2, LinkPreserves DEF e
      <4> QED BY <4>3 DEF O
    <3>2. d = e  BY <2>2
    <3> HIDE DEF d, e
    <3> QED BY <1>3, <2>2, <3>1, <3>2
  <2> QED BY <2>1, <2>2
<1> HIDE DEF d
<1>7. KernelInv(k', Taken(pc', arg'))
  <2>1. d.timer \subseteq d.timer  OBVIOUS
  <2> QED BY <1>1, <1>6, <1>1a, <2>1, SameLists
<1>8. CallAgrees(k', pc', arg', t)
  BY <1>1 DEF CallAgrees
<1>9. RestAgrees(k', pc')
  <2>1. RestAgrees(k, pc) /\ Idle \in Thread /\ u # Idle
    BY <1>1, ThreadsAssumption DEF Base, Owns
  <2>2. ASSUME NEW l \in WaitList, NEW x \in ToSet(d.list[l])
        PROVE  l = rt_thread_defunct /\ d.stat[x] = "CLOSE" /\ x \notin Static
    <3>1. l \in ListHead /\ x \in Thread
      BY <1>6, <2>2, ListsHoldThreads DEF ListHead
    <3>2. x \in ToSet(k.list[l]) \/ (x = u /\ u \notin Static /\ l = rt_thread_defunct)
      <4>1. ToSet(d.list[l]) = IF u \notin Static /\ l = rt_thread_defunct
                               THEN ToSet(k.list[l]) \cup {u} ELSE ToSet(k.list[l])
        BY <1>6, <3>1
      <4> QED BY <2>2, <4>1
    <3> QED BY <1>2, <1>6, <2>1, <3>1, <3>2 DEF RestAgrees
  <2> QED BY <1>1, <1>2, <1>6, <2>1, <2>2 DEF RestAgrees
<1>10. Base(k', pc', arg')
  <2>1. ASSUME NEW x \in Thread, x # t, pc[x] \in Busy
        PROVE  Undisturbed(k, k', pc, arg, x)
    <3>1. arg[x] # u /\ arg[x] \in Thread /\ x # u
      <4>1. x # u
        <5>1. u # Idle /\ CallAgrees(k, pc, arg, x)
          BY <1>1, ThreadsAssumption DEF Base, Owns
        <5>2. CASE pc[x] = "free"
          BY <5>1, <5>2 DEF CallAgrees
        <5>3. CASE pc[x] # "free"
          <6>1. Owns(x, arg[x])
            BY <2>1, <5>1, <5>3 DEF CallAgrees, Busy
          <6> QED BY <1>1, <6>1 DEF Owns, Discipline
        <5> QED BY <5>2, <5>3
      <4> QED BY <1>1, <2>1, <4>1, OnlyOwnersCall
    <3>2. OffLists(k, arg[x]) => OffLists(k', arg[x])
      <4> SUFFICES ASSUME OffLists(k, arg[x]), NEW l \in ListHead
                   PROVE  arg[x] \notin ToSet(d.list[l])
        BY <1>1 DEF OffLists, OnList
      <4>1. arg[x] \notin ToSet(k.list[l])  BY DEF OffLists, OnList
      <4> QED BY <1>6, <3>1, <4>1
    <3> QED BY <1>1, <1>2, <1>6, <3>1, <3>2 DEF Undisturbed, Alive
  <2>2. "user" \in Label  BY DEF Label
  <2> QED BY <1>1, <1>6, <1>7, <1>8, <1>9, <2>1, <2>2, BaseStep
<1>11. /\ pc'[t] = "user" /\ k'.stat[t] = "RUNNING" /\ k'.prio = k.prio
       /\ \A x \in Thread \ Off' : k'.stat[x] = "READY" => k.stat[x] = "READY" /\ x \notin Off
  <2> QED BY ZenonT(60), <1>1, <1>2, <1>6, <1>1a DEF Off
<1>h. late' = late
  BY DEF DeleteClose, Goto
<1> QED BY <1>1, <1>6, <1>10, <1>11, <1>h, PlainStep DEF IInv, HighestPriorityRuns

-----------------------------------------------------------------------------
(* The calls of a thread on itself.                                        *)

\* A step of t that moves no thread: its call goes on, or ends.
LEMMA OwnStep ==
    ASSUME Base(k, pc, arg), NEW i \in KernelState, NEW t \in Thread, k.cur = t,
           NEW l \in {"user", "schedule", "yield", "woken"}, pc[t] \notin InDelete,
           pc' = [pc EXCEPT ![t] = l], arg' = [arg EXCEPT ![t] = arg[t]],
           i.stat = k.stat, i.prio = k.prio, i.list = k.list, i.group = k.group,
           i.cur = k.cur, i.timer \subseteq k.timer,
           l = "user" \/ (t # Idle /\ k.stat[t] # "INIT")
    PROVE  Base(i, pc', arg') /\ Taken(pc', arg') = Taken(pc, arg)
<1>1. /\ pc \in [Thread -> Label] /\ arg \in [Thread -> Thread] /\ Idle \in Thread
      /\ l \in Label /\ arg[t] \in Thread /\ KernelInv(k, Taken(pc, arg))
      /\ RestAgrees(k, pc) /\ k \in KernelState
  BY ThreadsAssumption DEF Base, Label
<1>2. Taken(pc', arg') = Taken(pc, arg)
  BY TakenStep DEF InDelete
<1>3. KernelInv(i, Taken(pc', arg'))
  BY <1>1, <1>2, SameLists
<1>4. CallAgrees(i, pc', arg', t)
  BY <1>1 DEF CallAgrees
<1>5. RestAgrees(i, pc')
  BY <1>1 DEF RestAgrees
<1>6. \A x \in Thread : Undisturbed(k, i, pc, arg, x)
  BY DEF Undisturbed, OffLists, OnList
<1>7. Base(i, pc', arg')
  BY <1>1, <1>3, <1>4, <1>5, <1>6, BaseStep
<1> QED BY <1>2, <1>7

LEMMA EnterCriticalKeeps ==
    ASSUME IInv, NEW t \in Thread, EnterCritical(t)
    PROVE  IInv'
<1>1. /\ Base(k, pc, arg) /\ k.cur = t /\ pc[t] = "user"
      /\ k' = [k EXCEPT !.nest = k.nest + 1]
      /\ pc' = [pc EXCEPT ![t] = "user"] /\ arg' = [arg EXCEPT ![t] = arg[t]]
      /\ k.stat[t] = "RUNNING" /\ k \in KernelState
      /\ pc \in [Thread -> Label]
  BY ArgUnchanged DEF EnterCritical, Goto, At, IInv, OnlyRunnableRuns, Base
<1> DEFINE n == k.nest + 1
<1>1a. n \in Nat /\ n # 0
  BY <1>1 DEF KernelState
<1> HIDE DEF n
<1>2. /\ k' \in KernelState /\ k'.stat = k.stat /\ k'.prio = k.prio /\ k'.list = k.list
      /\ k'.group = k.group /\ k'.cur = k.cur /\ k'.timer = k.timer /\ k'.nest # 0
  BY <1>1, <1>1a DEF KernelState, n
<1>3. Base(k', pc', arg')
  BY <1>1, <1>2, OwnStep DEF InDelete
<1> QED BY <1>1, <1>2, <1>3, PlainStep

LEMMA ExitCriticalKeeps ==
    ASSUME IInv, NEW t \in Thread, ExitCritical(t)
    PROVE  IInv'
<1> DEFINE n == IF k.nest <= 1 THEN 0 ELSE k.nest - 1
           l == IF k.nest <= 1 THEN "schedule" ELSE "user"
<1>1. /\ Base(k, pc, arg) /\ k.cur = t /\ pc[t] = "user" /\ t # Idle
      /\ k' = [k EXCEPT !.nest = n]
      /\ pc' = [pc EXCEPT ![t] = l] /\ arg' = [arg EXCEPT ![t] = arg[t]]
      /\ k.stat[t] = "RUNNING" /\ k \in KernelState /\ k.nest \in Nat
      /\ pc \in [Thread -> Label]
  BY ArgUnchanged DEF ExitCritical, Goto, At, IInv, OnlyRunnableRuns, Base, KernelState
<1>2. n \in Nat /\ l \in {"user", "schedule"} /\ (l = "schedule" \/ n # 0)
  BY <1>1
<1> HIDE DEF n, l
<1>3. /\ k' \in KernelState /\ k'.stat = k.stat /\ k'.prio = k.prio /\ k'.list = k.list
      /\ k'.group = k.group /\ k'.cur = k.cur /\ k'.timer = k.timer /\ k'.nest = n
  BY <1>1, <1>2 DEF KernelState
<1>4. Base(k', pc', arg')
  <2>1. pc[t] \notin InDelete /\ k'.timer \subseteq k.timer
    BY <1>1, <1>3 DEF InDelete
  <2>2. /\ l \in {"user", "schedule", "yield", "woken"}
        /\ l = "user" \/ (t # Idle /\ k.stat[t] # "INIT")
    BY <1>1, <1>2
  <2> QED BY <1>1, <1>3, <2>1, <2>2, OwnStep
<1>5. pc'[k.cur] = l
  BY <1>1
<1> QED BY <1>1, <1>2, <1>3, <1>4, <1>5, PlainStep

LEMMA WokenKeeps ==
    ASSUME IInv, NEW t \in Thread, Woken(t)
    PROVE  IInv'
<1> DEFINE E == [k.error EXCEPT ![t] = IF @ = "ETIMEOUT" THEN "EOK" ELSE @]
<1>1. /\ Base(k, pc, arg) /\ k.cur = t /\ pc[t] = "woken"
      /\ k' = [k EXCEPT !.error = E]
      /\ pc' = [pc EXCEPT ![t] = "user"] /\ arg' = [arg EXCEPT ![t] = arg[t]]
      /\ k.stat[t] = "RUNNING" /\ k \in KernelState
      /\ pc \in [Thread -> Label]
  BY ArgUnchanged DEF Woken, Goto, At, IInv, OnlyRunnableRuns, Base, KernelState
<1>2. E \in [Thread -> Error]
  BY <1>1 DEF KernelState, Error
<1> HIDE DEF E
<1>3. /\ k' \in KernelState /\ k'.stat = k.stat /\ k'.prio = k.prio /\ k'.list = k.list
      /\ k'.group = k.group /\ k'.cur = k.cur /\ k'.timer = k.timer /\ k'.nest = k.nest
  BY <1>1, <1>2 DEF KernelState
<1>4. Base(k', pc', arg') /\ Taken(pc', arg') = Taken(pc, arg)
  <2>1. pc[t] \notin InDelete  BY <1>1 DEF InDelete
  <2> QED BY <1>1, <1>3, <2>1, OwnStep
<1>h. late' = late
  BY DEF Woken, Goto
<1> QED BY <1>1, <1>3, <1>4, <1>h, PlainStep DEF Off

LEMMA ScheduleCallKeeps ==
    ASSUME IInv, NEW t \in Thread, Schedule(t) \/ YieldSchedule(t) \/ SleepSchedule(t)
    PROVE  IInv'
<1>1. /\ Base(k, pc, arg) /\ k.cur = t /\ pc[t] \in {"schedule", "yield", "sleep"}
      /\ k' = rt_schedule(k) /\ k \in KernelState /\ RestAgrees(k, pc)
      /\ arg' = [arg EXCEPT ![t] = arg[t]] /\ (pc[t] = "sleep" \/ k.stat[t] = "RUNNING")
      /\ k.nest # 0 => pc[t] # "sleep"
  BY ArgUnchanged DEF Schedule, YieldSchedule, SleepSchedule, Switch, At, IInv,
                      OnlyRunnableRuns, Base, RestAgrees
<1>2. PICK l \in {"user", "woken"} :
          pc' = [pc EXCEPT ![t] = l] /\ (l = "woken" => pc[t] = "sleep")
  BY DEF Schedule, YieldSchedule, SleepSchedule, Switch, At
<1>3. l = "user" \/ (t # Idle /\ k.stat[t] # "INIT")
  BY <1>1, <1>2 DEF RestAgrees
<1>4. Base(k, pc', arg')
  <2>1. pc[t] \notin InDelete /\ l \in {"user", "schedule", "yield", "woken"}
    BY <1>1, <1>2 DEF InDelete
  <2> QED BY <1>1, <1>2, <1>3, <2>1, OwnStep
<1>5. k.nest # 0 => k.stat[k.cur] = "RUNNING"
  BY <1>1
<1> QED BY <1>1, <1>4, <1>5, ScheduleStep

-----------------------------------------------------------------------------
(* The calls that take the calling thread off the processor.               *)

LEMMA BlockKeeps ==
    ASSUME Discipline, IInv, NEW t \in Thread, SuspendSelf(t) \/ Sleep(t)
    PROVE  IInv'
<1> DEFINE q == rt_thread_suspend_section(k, t)
           T == IF SuspendSelf(t) THEN q.timer ELSE q.timer \cup {t}
           i == [q EXCEPT !.timer = T]
<1>1. /\ Base(k, pc, arg) /\ k.cur = t /\ pc[t] = "user" /\ k.nest = 0
      /\ pc' = [pc EXCEPT ![t] = "sleep"] /\ arg' = [arg EXCEPT ![t] = arg[t]]
      /\ k.stat[t] = "RUNNING" /\ t # Idle /\ arg[t] \in Thread
      /\ k \in KernelState /\ arg \in [Thread -> Thread] /\ pc \in [Thread -> Label]
  BY ArgUnchanged, ThreadsAssumption DEF SuspendSelf, Sleep, MayBlock, Goto, At, IInv,
     OnlyRunnableRuns, Base
<1>2. /\ q \in KernelState /\ KernelInv(q, Taken(pc, arg)) /\ OffLists(q, t)
      /\ \A l \in ListHead : ToSet(q.list[l]) = ToSet(k.list[l]) \ {t}
      /\ q.stat = [k.stat EXCEPT ![t] = "SUSPEND"]
      /\ q.timer = k.timer \ {t}
      /\ q.cur = k.cur /\ q.prio = k.prio /\ q.nest = k.nest
  <2>1. KernelInv(k, Taken(pc, arg))  BY <1>1 DEF Base
  <2> HIDE DEF q
  <2> QED BY ZenonT(60), <1>1, <2>1, SuspendPreserves DEF q
<1>3. k' = i
  <2>1. rt_thread_suspend(k, t) = q
    BY <1>1 DEF rt_thread_suspend
  <2> HIDE DEF q
  <2>2. q = [q EXCEPT !.timer = q.timer]
    BY <1>2 DEF KernelState
  <2>3. CASE SuspendSelf(t)
    BY <2>1, <2>2, <2>3 DEF SuspendSelf, Goto
  <2>4. CASE ~SuspendSelf(t)
    BY <2>1, <2>4 DEF Sleep, Goto, rt_timer_start
  <2> QED BY <2>3, <2>4
<1>4. T \subseteq (k.timer \ {t}) \cup {t} /\ T \subseteq Thread /\ T \subseteq Sleepers
  <2>1. k.timer \subseteq Sleepers /\ k.timer \subseteq Thread
    BY <1>1 DEF Base, RestAgrees, KernelState
  <2>2. SuspendSelf(t) \/ t \in Sleepers
    BY DEF Sleep
  <2> HIDE DEF q
  <2> QED BY <1>2, <2>1, <2>2
<1> HIDE DEF q, T
<1>5. /\ i \in KernelState /\ i.stat = q.stat /\ i.prio = k.prio /\ i.list = q.list
      /\ i.group = q.group /\ i.cur = t /\ i.timer = T /\ i.nest = 0
  BY <1>1, <1>2, <1>4 DEF KernelState
<1> HIDE DEF i
<1>6. /\ \A x \in Thread : i.stat[x] = IF x = t THEN "SUSPEND" ELSE k.stat[x]
      /\ \A x \in Thread : OffLists(k, x) => OffLists(i, x)
  <2>1. \A x \in Thread : i.stat[x] = IF x = t THEN "SUSPEND" ELSE k.stat[x]
    BY <1>1, <1>2, <1>5 DEF KernelState
  <2>2. \A x \in Thread : OffLists(k, x) => OffLists(i, x)
    BY <1>2, <1>5 DEF OffLists, OnList
  <2> QED BY <2>1, <2>2
<1>7. Taken(pc', arg') = Taken(pc, arg)
  BY <1>1, TakenStep DEF InDelete
<1>8. KernelInv(i, Taken(pc', arg'))
  <2>1. TimersAgree(i)
    <3>1. \A x \in k.timer : k.stat[x] = "SUSPEND"
      BY <1>1 DEF Base, KernelInv, TimersAgree
    <3> QED BY <1>4, <1>5, <1>6, <3>1 DEF TimersAgree
  <2>2. LinkedOnce(i) /\ ReadyListsAgree(i, Taken(pc, arg)) /\ WaitListsAgree(i)
    <3>1. q.prio = i.prio  BY <1>2, <1>5
    <3> QED BY <1>2, <1>5, <3>1 DEF KernelInv, LinkedOnce, ReadyListsAgree,
                                   WaitListsAgree, OnList
  <2>3. GroupAgrees(i) /\ OneRunning(i)
    BY <1>1, <1>2, <1>5 DEF KernelInv, GroupAgrees, OneRunning
  <2> QED BY <1>7, <2>1, <2>2, <2>3 DEF KernelInv
<1>9. CallAgrees(k', pc', arg', t)
  BY <1>1 DEF CallAgrees
<1>10. RestAgrees(k', pc')
  <2>1. RestAgrees(k, pc) /\ Idle \in Thread
    BY <1>1, ThreadsAssumption DEF Base
  <2>2. \A l \in WaitList : \A x \in ToSet(i.list[l]) :
            x \in Thread /\ x # t /\ x \in ToSet(k.list[l])
    BY <1>2, <1>5, ListsHoldThreads DEF ListHead
  <2>3. \A l \in WaitList : \A x \in ToSet(i.list[l]) :
            l = rt_thread_defunct /\ i.stat[x] = "CLOSE" /\ x \notin Static
    <3>1. \A l \in WaitList : \A x \in ToSet(k.list[l]) :
              l = rt_thread_defunct /\ k.stat[x] = "CLOSE" /\ x \notin Static
      BY <2>1 DEF RestAgrees
    <3> QED BY <1>6, <2>2, <3>1
  <2>4. \A x \in Thread : i.stat[x] = "INIT" => pc'[x] = "user"
    <3>1. \A x \in Thread : k.stat[x] = "INIT" => pc[x] = "user"
      BY <2>1 DEF RestAgrees
    <3> QED BY <1>1, <1>6, <3>1
  <2>5. i.timer \subseteq Sleepers /\ i.nest = 0
    BY <1>4, <1>5
  <2>6. /\ pc'[Idle] \in {"user", "free", "yield"}
        /\ i.stat[Idle] \in {"READY", "RUNNING"}
        /\ i.prio[Idle] = RT_THREAD_PRIORITY_MAX - 1
    BY <1>1, <1>5, <1>6, <2>1 DEF RestAgrees
  <2> QED BY <1>3, <2>3, <2>4, <2>5, <2>6 DEF RestAgrees
<1>11. Base(k', pc', arg')
  <2>1. ASSUME NEW x \in Thread, x # t, pc[x] \in Busy
        PROVE  Undisturbed(k, k', pc, arg, x)
    <3>1. arg[x] \in Thread /\ CallAgrees(k, pc, arg, x)
      BY <1>1 DEF Base
    <3>2. arg[x] = t => pc[x] = "suspend"
      BY <1>1, <2>1, <3>1 DEF CallAgrees, Busy
    <3>3. \A y \in Thread : y \in T => y \in k.timer \/ y = t
      BY <1>4
    <3> QED BY <1>1, <1>3, <1>5, <1>6, <3>1, <3>2, <3>3 DEF Undisturbed, Alive
  <2>2. "sleep" \in Label  BY DEF Label
  <2>3. k' \in KernelState /\ k'.cur = t /\ KernelInv(k', Taken(pc', arg'))
    BY <1>3, <1>5, <1>8
  <2> QED BY <1>1, <1>9, <1>10, <2>1, <2>2, <2>3, BaseStep
<1> QED BY <1>1, <1>3, <1>5, <1>11, PlainStep

\* rt_thread_exit closes its thread, and leaves it among the dead unless it is
\* static, before it calls rt_schedule.
LEMMA ExitCloses ==
    ASSUME Discipline, IInv, NEW t \in Thread, Exit(t)
    PROVE  \E d \in KernelState :
               /\ k' = rt_schedule(d) /\ KernelInv(d, Taken(pc, arg))
               /\ d.stat = [k.stat EXCEPT ![t] = "CLOSE"] /\ d.prio = k.prio
               /\ d.cur = k.cur /\ d.timer = k.timer \ {t} /\ d.nest = 0
               /\ \A l \in ListHead : ToSet(d.list[l]) =
                      IF t \notin Static /\ l = rt_thread_defunct
                      THEN ToSet(k.list[l]) \cup {t} ELSE ToSet(k.list[l])
<1> DEFINE r == rt_schedule_remove_thread(k, t)
           S == [k.stat EXCEPT ![t] = "CLOSE"]
           Y == [k.yield EXCEPT ![t] = FALSE]
           c == [k EXCEPT !.stat = S, !.yield = Y, !.timer = @ \ {t}]
           d == IF t \in Static THEN c ELSE rt_list_insert_after(c, rt_thread_defunct, t)
           O == Taken(pc, arg)
<1>1. /\ Base(k, pc, arg) /\ k.cur = t /\ pc[t] = "user" /\ k.nest = 0
      /\ pc' = [pc EXCEPT ![t] = "user"] /\ arg' = [arg EXCEPT ![t] = arg[t]]
      /\ k.stat[t] = "RUNNING" /\ t # Idle /\ arg[t] \in Thread /\ t \in Exiting
      /\ k \in KernelState /\ arg \in [Thread -> Thread] /\ pc \in [Thread -> Label]
  BY ArgUnchanged, ThreadsAssumption DEF Exit, MayBlock, Switch, At, IInv,
     OnlyRunnableRuns, Base
<1>2. KernelInv(k, O) /\ t \notin O /\ OffLists(k, t)
  <2>1. KernelInv(k, O)  BY <1>1 DEF Base
  <2>2. t \notin O
    BY <1>1 DEF Base, CallAgrees, Discipline, Taken
  <2> HIDE DEF O
  <2> QED BY <1>1, <2>1, <2>2, RunningIsOffLists
<1>3. r = k
  <2>1. \A p \in Prio : OnList(k, t, p) => k.prio[t] = p
    BY <1>2 DEF OffLists, ListHead
  <2> HIDE DEF r, O
  <2> QED BY <1>1, <1>2, <2>1, RemoveThread DEF r, KernelInv
<1>4. k' = rt_schedule(d)
  <2>1. rt_timer_stop([k EXCEPT !.stat[t] = "CLOSE", !.yield[t] = FALSE], t) = c
    BY <1>1 DEF rt_timer_stop, KernelState
  <2>2. k' = LET closed == rt_timer_stop([r EXCEPT !.stat[t] = "CLOSE", !.yield[t] = FALSE], t)
             IN  rt_schedule(IF t \in Static THEN closed
                             ELSE rt_list_insert_after(closed, rt_thread_defunct, t))
    BY DEF Exit, Switch
  <2> HIDE DEF r
  <2> QED BY <1>3, <2>1, <2>2
<1> HIDE DEF r
<1>5. /\ S \in [Thread -> Stat] /\ Y \in [Thread -> BOOLEAN]
      /\ \A x \in Thread : S[x] = IF x = t THEN "CLOSE" ELSE k.stat[x]
  BY <1>1 DEF KernelState, Stat
<1> HIDE DEF Y
<1>6. /\ c \in KernelState /\ c.stat = S /\ c.prio = k.prio /\ c.list = k.list
      /\ c.group = k.group /\ c.cur = k.cur /\ c.timer = k.timer \ {t} /\ c.nest = 0
  <2> HIDE DEF S
  <2> QED BY <1>1, <1>5 DEF KernelState
<1> HIDE DEF c
<1>7. KernelInv(c, O)
  <2>1. /\ "CLOSE" \in {"NONE", "INIT", "SUSPEND", "CLOSE"} /\ t \notin c.timer
        /\ \A x \in Thread : x # t => c.prio[x] = k.prio[x]
        /\ c.timer \subseteq k.timer
    BY <1>6
  <2>2. TRUE  OBVIOUS
  <2> HIDE DEF O
  <2>3. KernelInv(c, O \ {t})
    BY <1>1, <1>2, <1>6, <2>1, ChangeUnlinked
  <2>4. O \ {t} = O  BY <1>2
  <2> QED BY <2>3, <2>4
<1> HIDE DEF S
<1>8. /\ d \in KernelState /\ KernelInv(d, O)
      /\ d.stat = S /\ d.prio = k.prio /\ d.cur = k.cur /\ d.timer = k.timer \ {t}
      /\ d.nest = 0
      /\ \A l \in ListHead : ToSet(d.list[l]) =
             IF t \notin Static /\ l = rt_thread_defunct
             THEN ToSet(k.list[l]) \cup {t} ELSE ToSet(k.list[l])
  <2>1. CASE t \in Static
    BY <1>6, <1>7, <2>1
  <2>2. CASE t \notin Static
    <3> DEFINE e == rt_list_insert_after(c, rt_thread_defunct, t)
    <3>1. /\ OffLists(c, t) /\ c.stat[t] \in {"SUSPEND", "CLOSE"}
          /\ rt_thread_defunct \in WaitList
      BY <1>2, <1>5, <1>6, ThreadsAssumption DEF OffLists, OnList
    <3>2. d = e  BY <2>2
    <3> HIDE DEF e, d, O
    <3>3. /\ e \in KernelState /\ KernelInv(e, O)
          /\ \A l \in ListHead : ToSet(e.list[l]) =
                 IF l = rt_thread_defunct THEN ToSet(c.list[l]) \cup {t}
                                          ELSE ToSet(c.list[l])
          /\ e.cur = c.cur /\ e.stat = c.stat /\ e.prio = c.prio
          /\ e.timer = c.timer /\ e.nest = c.nest
      BY SMTT(30), <1>6, <1>7, <3>1, LinkPreserves DEF e
    <3> QED BY <1>6, <2>2, <3>2, <3>3
  <2> QED BY <2>1, <2>2
<1> HIDE DEF d
<1> QED BY <1>4, <1>8 DEF O, S

LEMMA ExitKeeps ==
    ASSUME Discipline, IInv, NEW t \in Thread, Exit(t)
    PROVE  IInv'
<1> DEFINE S == [k.stat EXCEPT ![t] = "CLOSE"]
           O == Taken(pc, arg)
<1>1. /\ Base(k, pc, arg) /\ k.cur = t /\ pc[t] = "user" /\ k.nest = 0
      /\ pc' = [pc EXCEPT ![t] = "user"] /\ arg' = [arg EXCEPT ![t] = arg[t]]
      /\ k.stat[t] = "RUNNING" /\ t # Idle /\ arg[t] \in Thread /\ t \in Exiting
      /\ k \in KernelState /\ arg \in [Thread -> Thread] /\ pc \in [Thread -> Label]
  BY ArgUnchanged, ThreadsAssumption DEF Exit, MayBlock, Switch, At, IInv,
     OnlyRunnableRuns, Base
<1>5. \A x \in Thread : S[x] = IF x = t THEN "CLOSE" ELSE k.stat[x]
  BY <1>1 DEF KernelState
<1>8. PICK d \in KernelState :
          /\ k' = rt_schedule(d) /\ KernelInv(d, O)
          /\ d.stat = S /\ d.prio = k.prio
          /\ d.cur = k.cur /\ d.timer = k.timer \ {t} /\ d.nest = 0
          /\ \A l \in ListHead : ToSet(d.list[l]) =
                 IF t \notin Static /\ l = rt_thread_defunct
                 THEN ToSet(k.list[l]) \cup {t} ELSE ToSet(k.list[l])
  BY ExitCloses
<1> HIDE DEF S
<1>9. KernelInv(d, Taken(pc', arg'))
  <2>1. Taken(pc', arg') = O
    BY <1>1, TakenStep DEF InDelete
  <2> QED BY <1>8, <2>1
<1>10. CallAgrees(d, pc', arg', t)
  BY <1>1 DEF CallAgrees
<1>11. RestAgrees(d, pc')
  <2>1. RestAgrees(k, pc) /\ Idle \in Thread
    BY <1>1, ThreadsAssumption DEF Base
  <2>2. ASSUME NEW l \in WaitList, NEW x \in ToSet(d.list[l])
        PROVE  l = rt_thread_defunct /\ d.stat[x] = "CLOSE" /\ x \notin Static
    <3>1. l \in ListHead /\ x \in Thread
      BY <1>8, <2>2, ListsHoldThreads DEF ListHead
    <3>2. x \in ToSet(k.list[l]) \/ (x = t /\ t \notin Static /\ l = rt_thread_defunct)
      <4>1. ToSet(d.list[l]) = IF t \notin Static /\ l = rt_thread_defunct
                               THEN ToSet(k.list[l]) \cup {t} ELSE ToSet(k.list[l])
        BY <1>8, <3>1
      <4> QED BY <2>2, <4>1
    <3> QED BY <1>5, <1>8, <2>1, <3>1, <3>2 DEF RestAgrees
  <2> QED BY <1>1, <1>5, <1>8, <2>1, <2>2 DEF RestAgrees
<1>12. Base(d, pc', arg')
  <2>1. ASSUME NEW x \in Thread, x # t, pc[x] \in Busy
        PROVE  Undisturbed(k, d, pc, arg, x)
    <3>1. arg[x] # t /\ arg[x] \in Thread
      BY <1>1, <2>1 DEF Base, CallAgrees, Busy, Discipline
    <3>2. OffLists(k, arg[x]) => OffLists(d, arg[x])
      <4> SUFFICES ASSUME OffLists(k, arg[x]), NEW l \in ListHead
                   PROVE  arg[x] \notin ToSet(d.list[l])
        BY <1>1 DEF OffLists, OnList
      <4>1. arg[x] \notin ToSet(k.list[l])  BY DEF OffLists, OnList
      <4> QED BY <1>8, <3>1, <4>1
    <3> QED BY <1>1, <1>5, <1>8, <2>1, <3>1, <3>2 DEF Undisturbed, Alive
  <2>2. "user" \in Label  BY DEF Label
  <2> QED BY <1>1, <1>8, <1>9, <1>10, <1>11, <2>1, <2>2, BaseStep
<1> QED BY <1>8, <1>12, ScheduleStep

-----------------------------------------------------------------------------
(* The idle thread.                                                        *)

LEMMA IdleReapKeeps ==
    ASSUME IInv, IdleReap
    PROVE  IInv'
<1> DEFINE u == Head(k.list[rt_thread_defunct])
           q == rt_list_remove(k, u)
           O == Taken(pc, arg)
<1>1. /\ Base(k, pc, arg) /\ k.cur = Idle /\ pc[Idle] = "user" /\ k' = rt_schedule(q)
      /\ pc' = [pc EXCEPT ![Idle] = "free"] /\ arg' = [arg EXCEPT ![Idle] = u]
      /\ k.stat[Idle] = "RUNNING" /\ k.list[rt_thread_defunct] # << >>
      /\ k \in KernelState /\ arg \in [Thread -> Thread] /\ pc \in [Thread -> Label]
      /\ RestAgrees(k, pc) /\ KernelInv(k, O) /\ Idle \in Thread
  BY ThreadsAssumption DEF IdleReap, At, IInv, OnlyRunnableRuns, Base
<1>2. u \in Thread /\ k.stat[u] = "CLOSE" /\ u \notin Static
  <2>1. rt_thread_defunct \in WaitList /\ k.list[rt_thread_defunct] \in Seq(Thread)
    BY <1>1, ThreadsAssumption DEF KernelState, ListHead
  <2>2. u \in ToSet(k.list[rt_thread_defunct])
    BY <1>1, <2>1, EmptyList
  <2> HIDE DEF u
  <2>3. u \in Thread
    BY <1>1, <2>1, <2>2, ListsHoldThreads DEF ListHead
  <2> QED BY <1>1, <2>1, <2>2, <2>3 DEF RestAgrees
<1> HIDE DEF u, O
<1>3. /\ q \in KernelState /\ KernelInv(q, O) /\ OffLists(q, u)
      /\ \A l \in ListHead : ToSet(q.list[l]) = ToSet(k.list[l]) \ {u}
      /\ q.cur = k.cur /\ q.stat = k.stat /\ q.prio = k.prio
      /\ q.timer = k.timer /\ q.nest = k.nest
  <2> HIDE DEF q
  <2> QED BY <1>1, <1>2, UnlinkPreserves DEF q
<1> HIDE DEF q
<1>4. KernelInv(q, Taken(pc', arg'))
  <2>1. Taken(pc', arg') = O
    BY <1>1, TakenStep DEF InDelete, O
  <2> QED BY <1>3, <2>1
<1>5. CallAgrees(q, pc', arg', Idle)
  <2>1. pc'[Idle] = "free" /\ arg'[Idle] = u  BY <1>1
  <2> QED BY <1>2, <1>3, <2>1 DEF CallAgrees
<1>6. RestAgrees(q, pc')
  <2>1. \A l \in WaitList : \A x \in ToSet(q.list[l]) : x \in ToSet(k.list[l])
    BY <1>3 DEF ListHead
  <2>2. \A l \in WaitList : \A x \in ToSet(q.list[l]) :
            l = rt_thread_defunct /\ q.stat[x] = "CLOSE" /\ x \notin Static
    <3>1. \A l \in WaitList : \A x \in ToSet(k.list[l]) :
              l = rt_thread_defunct /\ k.stat[x] = "CLOSE" /\ x \notin Static
      BY <1>1 DEF RestAgrees
    <3>2. q.stat = k.stat  BY <1>3
    <3> QED BY <2>1, <3>1, <3>2
  <2>3. /\ \A t \in Thread : q.stat[t] = "INIT" => pc'[t] = "user"
        /\ q.timer \subseteq Sleepers
    BY <1>1, <1>3 DEF RestAgrees
  <2>4. /\ q.nest # 0 => pc'[q.cur] # "sleep"
        /\ pc'[Idle] \in {"user", "free", "yield"}
    BY <1>1, <1>3
  <2>5. q.stat[Idle] \in {"READY", "RUNNING"} /\ q.prio[Idle] = RT_THREAD_PRIORITY_MAX - 1
    BY <1>1, <1>3 DEF RestAgrees
  <2> QED BY <2>2, <2>3, <2>4, <2>5 DEF RestAgrees
<1>7. Base(q, pc', arg')
  <2>1. \A x \in Thread : OffLists(k, x) => OffLists(q, x)
    BY <1>3 DEF OffLists, OnList
  <2>2. \A x \in Thread : Undisturbed(k, q, pc, arg, x)
    BY <1>1, <1>3, <2>1 DEF Undisturbed
  <2>3. "free" \in Label  BY DEF Label
  <2> QED BY <1>1, <1>2, <1>3, <1>4, <1>5, <1>6, <2>2, <2>3, BaseStep
<1> QED BY <1>1, <1>3, <1>7, ScheduleStep

LEMMA IdleFreeKeeps ==
    ASSUME IInv, IdleFree
    PROVE  IInv'
<1> DEFINE u == arg[Idle]
           S == [k.stat EXCEPT ![u] = "NONE"]
           c == [k EXCEPT !.stat = S]
           O == Taken(pc, arg)
<1>1. /\ Base(k, pc, arg) /\ k.cur = Idle /\ pc[Idle] = "free" /\ k' = c
      /\ pc' = [pc EXCEPT ![Idle] = "user"] /\ arg' = [arg EXCEPT ![Idle] = u]
      /\ u = arg[Idle] /\ u \in Thread /\ k.stat[Idle] = "RUNNING"
      /\ k \in KernelState /\ arg \in [Thread -> Thread] /\ pc \in [Thread -> Label]
      /\ RestAgrees(k, pc) /\ KernelInv(k, O) /\ Idle \in Thread
      /\ k.stat[u] = "CLOSE" /\ OffLists(k, u)
  <2>1. /\ Base(k, pc, arg) /\ k.cur = Idle /\ pc[Idle] = "free"
        /\ CallAgrees(k, pc, arg, Idle) /\ k.stat[Idle] = "RUNNING"
        /\ k \in KernelState /\ arg \in [Thread -> Thread] /\ pc \in [Thread -> Label]
        /\ RestAgrees(k, pc) /\ KernelInv(k, O) /\ Idle \in Thread
    BY ThreadsAssumption DEF IdleFree, At, IInv, OnlyRunnableRuns, Base
  <2>2. k' = c /\ pc' = [pc EXCEPT ![Idle] = "user"] /\ UNCHANGED arg
    BY <2>1 DEF IdleFree, Goto, KernelState
  <2> HIDE DEF c, O
  <2> QED BY <2>1, <2>2, ArgUnchanged DEF CallAgrees
<1> HIDE DEF u
<1>2. /\ S \in [Thread -> Stat]
      /\ \A x \in Thread : S[x] = IF x = u THEN "NONE" ELSE k.stat[x]
  BY <1>1 DEF KernelState, Stat
<1>3. /\ c \in KernelState /\ c.stat = S /\ c.prio = k.prio /\ c.list = k.list
      /\ c.group = k.group /\ c.cur = k.cur /\ c.timer = k.timer /\ c.nest = k.nest
  <2> HIDE DEF S
  <2> QED BY <1>1, <1>2 DEF KernelState
<1> HIDE DEF c
<1>4. u \notin k.timer /\ u # Idle
  BY <1>1 DEF KernelInv, TimersAgree
<1>5. u \notin O
  BY <1>1 DEF Base, CallAgrees, Taken
<1>6. Taken(pc', arg') = O
  BY <1>1, TakenStep DEF InDelete
<1>7. KernelInv(c, Taken(pc', arg'))
  <2>1. /\ "NONE" \in {"NONE", "INIT", "SUSPEND", "CLOSE"} /\ u \notin c.timer
        /\ \A x \in Thread : x # u => c.prio[x] = k.prio[x]
        /\ c.timer \subseteq k.timer
    BY <1>3, <1>4
  <2> HIDE DEF O
  <2>2. KernelInv(c, O \ {u})
    BY <1>1, <1>3, <2>1, ChangeUnlinked
  <2>3. O \ {u} = O  BY <1>5
  <2> QED BY <1>6, <2>2, <2>3
<1> HIDE DEF S, O
<1>8. CallAgrees(c, pc', arg', Idle)
  BY <1>1 DEF CallAgrees
<1>9. RestAgrees(c, pc')
  <2>1. \A l \in WaitList : u \notin ToSet(c.list[l])
    BY <1>1, <1>3 DEF OffLists, OnList, ListHead
  <2>2. ASSUME NEW l \in WaitList, NEW x \in ToSet(c.list[l])
        PROVE  l = rt_thread_defunct /\ c.stat[x] = "CLOSE" /\ x \notin Static
    <3>1. l \in ListHead /\ x \in Thread /\ x # u /\ x \in ToSet(k.list[l])
      BY <1>3, <2>1, <2>2, ListsHoldThreads DEF ListHead
    <3> QED BY <1>1, <1>2, <1>3, <3>1 DEF RestAgrees
  <2> QED BY <1>1, <1>2, <1>3, <1>4, <2>2 DEF RestAgrees
<1>10. Base(c, pc', arg')
  <2>1. ASSUME NEW x \in Thread, x # Idle, pc[x] \in Busy
        PROVE  Undisturbed(k, c, pc, arg, x)
    <3>1. arg[x] # u /\ arg[x] \in Thread
      BY <1>1, <2>1 DEF Base, CallAgrees, Busy
    <3> QED BY <1>1, <1>2, <1>3, <3>1 DEF Undisturbed, Alive, OffLists, OnList
  <2>2. "user" \in Label  BY DEF Label
  <2> QED BY <1>1, <1>3, <1>7, <1>8, <1>9, <2>1, <2>2, BaseStep
<1>11. /\ k'.stat[k.cur] = "RUNNING" /\ k'.cur = k.cur /\ k'.prio = k.prio
       /\ Off' = Off /\ \A x \in Thread : k'.stat[x] = "READY" => k.stat[x] = "READY"
  BY <1>1, <1>2, <1>3, <1>4, <1>6 DEF Off, O
<1>12. Base(k', pc', arg') /\ pc[k.cur] = "free" /\ k'.nest = k.nest
  BY <1>1, <1>3, <1>10
<1>h. late' = late
  BY DEF IdleFree, Goto
<1> QED BY <1>1, <1>11, <1>12, <1>h, PlainStep

-----------------------------------------------------------------------------
(* The interrupts.                                                         *)

LEMMA InterruptStep ==
    ASSUME Base(k, pc, arg), NEW i \in KernelState, i.cur = k.cur,
           KernelInv(i, Taken(pc, arg)), RestAgrees(i, pc),
           \A x \in Thread : pc[x] \in Busy => Undisturbed(k, i, pc, arg, x)
    PROVE  Base(i, pc, arg)
<1>1. ASSUME NEW x \in Thread PROVE CallAgrees(i, pc, arg, x)
  <2>1. CallAgrees(k, pc, arg, x) /\ arg[x] \in Thread
    BY DEF Base
  <2>2. CASE pc[x] \notin Busy
    BY <2>2 DEF CallAgrees, Busy
  <2>3. CASE pc[x] \in Busy
    <3>1. Undisturbed(k, i, pc, arg, x)
      BY <2>3
    <3> QED BY <2>1, <3>1 DEF CallAgrees, Undisturbed, Alive
  <2> QED BY <2>2, <2>3
<1> QED BY <1>1 DEF Base

LEMMA TickSliceKeeps ==
    ASSUME IInv, TickSlice
    PROVE  IInv'
<1> DEFINE Y == [k.yield EXCEPT ![k.cur] = TRUE]
           i == [k EXCEPT !.yield = Y]
<1>1. /\ Base(k, pc, arg) /\ k' = rt_schedule(i) /\ pc' = pc /\ arg' = arg
      /\ k \in KernelState /\ RestAgrees(k, pc) /\ KernelInv(k, Taken(pc, arg))
      /\ k.nest # 0 => k.stat[k.cur] = "RUNNING"
  BY DEF TickSlice, rt_tick_slice_over, IInv, OnlyRunnableRuns, Base, RestAgrees,
         KernelState
<1>2. Y \in [Thread -> BOOLEAN]
  BY <1>1 DEF KernelState
<1> HIDE DEF Y
<1>3. /\ i \in KernelState /\ i.stat = k.stat /\ i.prio = k.prio /\ i.list = k.list
      /\ i.group = k.group /\ i.cur = k.cur /\ i.timer = k.timer /\ i.nest = k.nest
  BY <1>1, <1>2 DEF KernelState
<1> HIDE DEF i
<1>4. KernelInv(i, Taken(pc, arg))
  BY <1>1, <1>3, SameLists
<1>5. RestAgrees(i, pc)
  BY <1>1, <1>3 DEF RestAgrees
<1>6. \A x \in Thread : Undisturbed(k, i, pc, arg, x)
  BY <1>3 DEF Undisturbed, OffLists, OnList
<1>7. Base(i, pc', arg')
  BY <1>1, <1>3, <1>4, <1>5, <1>6, InterruptStep
<1>8. i.nest # 0 => i.stat[i.cur] = "RUNNING"
  BY <1>1, <1>3
<1> QED BY <1>1, <1>7, <1>8, ScheduleStep

\* An interrupt wakes a suspended thread that no call in progress is about.
LEMMA WakeStep ==
    ASSUME IInv, NEW t \in Thread, k.stat[t] = "SUSPEND", NEW e \in [Thread -> Error],
           \A x \in Thread : pc[x] \in Busy => arg[x] # t,
           k' = rt_schedule(rt_schedule_insert_thread(rt_list_remove(
                    [k EXCEPT !.timer = @ \ {t}, !.error = e], t), t)),
           pc' = pc, arg' = arg
    PROVE  IInv'
<1> DEFINE q == [k EXCEPT !.timer = @ \ {t}, !.error = e]
           i == rt_schedule_insert_thread(rt_list_remove(q, t), t)
<1>1. /\ Base(k, pc, arg) /\ k' = rt_schedule(i)
      /\ k \in KernelState /\ RestAgrees(k, pc) /\ KernelInv(k, Taken(pc, arg))
      /\ k.nest # 0 => k.stat[k.cur] = "RUNNING"
      /\ arg \in [Thread -> Thread]
  BY DEF IInv, OnlyRunnableRuns, Base, RestAgrees
<1>2. /\ i \in KernelState /\ KernelInv(i, Taken(pc, arg))
      /\ i.stat = [k.stat EXCEPT ![t] = IF t = k.cur THEN "RUNNING" ELSE "READY"]
      /\ \A l \in ListHead : ToSet(i.list[l]) =
             IF l = k.prio[t] /\ t # k.cur THEN ToSet(k.list[l]) \cup {t}
                                         ELSE ToSet(k.list[l]) \ {t}
      /\ i.cur = k.cur /\ i.prio = k.prio /\ i.timer = k.timer \ {t} /\ i.nest = k.nest
  <2> DEFINE O == Taken(pc, arg)
  <2>1. KernelInv(k, O)
    BY <1>1
  <2>2. /\ q \in KernelState /\ q.cur = k.cur /\ q.stat = k.stat /\ q.prio = k.prio
        /\ q.list = k.list /\ q.group = k.group /\ q.timer = k.timer \ {t}
        /\ q.nest = k.nest
    BY <1>1 DEF KernelState
  <2> HIDE DEF i, q, O
  <2>4. KernelInv(q, O)
    BY <1>1, <2>1, <2>2, SameLists
  <2>5. /\ i \in KernelState /\ KernelInv(i, O)
        /\ i.stat = [q.stat EXCEPT ![t] = IF t = q.cur THEN "RUNNING" ELSE "READY"]
        /\ \A l \in ListHead : ToSet(i.list[l]) =
               IF l = q.prio[t] /\ t # q.cur THEN ToSet(q.list[l]) \cup {t}
                                           ELSE ToSet(q.list[l]) \ {t}
        /\ i.cur = q.cur /\ i.prio = q.prio /\ i.timer = q.timer /\ i.nest = q.nest
    <3>1. q \in KernelState /\ q.stat[t] = "SUSPEND" /\ t \notin q.timer
      BY <2>2
    <3> QED BY <2>4, <3>1, WakePreserves DEF i
  <2>6. \A l \in ListHead : ToSet(i.list[l]) =
            IF l = k.prio[t] /\ t # k.cur THEN ToSet(k.list[l]) \cup {t}
                                        ELSE ToSet(k.list[l]) \ {t}
    <3> SUFFICES ASSUME NEW l \in ListHead
                 PROVE  ToSet(i.list[l]) =
                            IF l = k.prio[t] /\ t # k.cur THEN ToSet(k.list[l]) \cup {t}
                                                        ELSE ToSet(k.list[l]) \ {t}
      OBVIOUS
    <3>1. ToSet(i.list[l]) = IF l = q.prio[t] /\ t # q.cur THEN ToSet(q.list[l]) \cup {t}
                                                         ELSE ToSet(q.list[l]) \ {t}
      BY <2>5
    <3>2. q.list[l] = k.list[l] /\ q.prio = k.prio /\ q.cur = k.cur  BY <2>2
    <3> QED BY <3>1, <3>2
  <2> QED BY <2>2, <2>5, <2>6 DEF O
<1> HIDE DEF i
<1>3. \A x \in Thread : i.stat[x] = IF x = t THEN IF t = k.cur THEN "RUNNING" ELSE "READY"
                                    ELSE k.stat[x]
  BY <1>1, <1>2 DEF KernelState
<1>4. RestAgrees(i, pc)
  <2>1. \A l \in WaitList : \A x \in ToSet(i.list[l]) :
            x \in Thread /\ x \in ToSet(k.list[l]) /\ x # t
    <3> SUFFICES ASSUME NEW l \in WaitList, NEW x \in ToSet(i.list[l])
                 PROVE  x \in Thread /\ x \in ToSet(k.list[l]) /\ x # t
      OBVIOUS
    <3>1. l \in ListHead /\ l # k.prio[t]
      BY <1>1, KernelAssumption DEF ListHead, KernelState
    <3>2. ToSet(i.list[l]) = ToSet(k.list[l]) \ {t}
      BY <1>2, <3>1
    <3> QED BY <1>1, <3>1, <3>2, ListsHoldThreads
  <2>2. Idle \in Thread /\ Idle # t
    BY <1>1, ThreadsAssumption DEF RestAgrees
  <2> QED BY <1>1, <1>2, <1>3, <2>1, <2>2 DEF RestAgrees
<1>5. ASSUME NEW x \in Thread, pc[x] \in Busy PROVE Undisturbed(k, i, pc, arg, x)
  <2>1. arg[x] \in Thread /\ arg[x] # t
    BY <1>1, <1>5
  <2>2. OffLists(k, arg[x]) => OffLists(i, arg[x])
    <3> SUFFICES ASSUME OffLists(k, arg[x]), NEW l \in ListHead
                 PROVE  arg[x] \notin ToSet(i.list[l])
      BY DEF OffLists, OnList
    <3>1. arg[x] \notin ToSet(k.list[l])  BY DEF OffLists, OnList
    <3> QED BY <1>2, <2>1, <3>1
  <2> QED BY <1>2, <1>3, <2>1, <2>2 DEF Undisturbed, Alive
<1>6. Base(i, pc', arg')
  BY <1>1, <1>2, <1>4, <1>5, InterruptStep
<1>7. i.nest # 0 => i.stat[i.cur] = "RUNNING"
  BY <1>1, <1>2, <1>3
<1> QED BY <1>1, <1>6, <1>7, ScheduleStep

LEMMA TimerExpiresKeeps ==
    ASSUME Discipline, IInv, NEW t \in Thread, TimerExpires(t)
    PROVE  IInv'
<1> DEFINE e == [k.error EXCEPT ![t] = "ETIMEOUT"]
<1>1. /\ t \in k.timer /\ t \in Sleepers /\ k.stat[t] = "SUSPEND"
      /\ k \in KernelState /\ pc' = pc /\ arg' = arg
  BY DEF TimerExpires, IInv, Base, RestAgrees, KernelInv, TimersAgree
<1>2. e \in [Thread -> Error]
  BY <1>1 DEF KernelState, Error
<1>3. k' = rt_schedule(rt_schedule_insert_thread(rt_list_remove(
               [k EXCEPT !.timer = @ \ {t}, !.error = e], t), t))
  <2>1. [rt_timer_stop(k, t) EXCEPT !.error[t] = "ETIMEOUT"] =
        [k EXCEPT !.timer = @ \ {t}, !.error = e]
    BY <1>1 DEF rt_timer_stop, KernelState
  <2> QED BY <2>1 DEF TimerExpires, rt_thread_timeout
<1> HIDE DEF e
<1>4. \A x \in Thread : pc[x] \in Busy => arg[x] # t
  BY <1>1 DEF IInv, Base, CallAgrees, Busy, Discipline
<1> QED BY <1>1, <1>2, <1>3, <1>4, WakeStep

LEMMA IsrResumeKeeps ==
    ASSUME Discipline, IInv, NEW t \in Thread, IsrResume(t)
    PROVE  IInv'
<1>1. /\ t \in IsrResumes /\ k.stat[t] = "SUSPEND" /\ pc[t] \in {"sleep", "woken"}
      /\ k' = rt_schedule(rt_thread_resume(k, t))
      /\ k \in KernelState /\ k.error \in [Thread -> Error] /\ pc' = pc /\ arg' = arg
  BY DEF IsrResume, IInv, Base, KernelState
<1>2. rt_thread_resume(k, t) = rt_schedule_insert_thread(rt_list_remove(
          [k EXCEPT !.timer = @ \ {t}, !.error = k.error], t), t)
  <2> DEFINE q == [k EXCEPT !.timer = k.timer \ {t}, !.error = k.error]
             r == [k EXCEPT !.list = [l \in ListHead |-> Without(k.list[l], t)]]
  <2>1. /\ q = [k EXCEPT !.timer = k.timer \ {t}]
        /\ q.list = k.list
    BY <1>1 DEF KernelState
  <2>2. rt_thread_unlink(k, t) = [r EXCEPT !.timer = k.timer \ {t}]
    BY <1>1 DEF rt_thread_unlink, rt_timer_stop, rt_list_remove, KernelState
  <2>3. rt_list_remove(q, t) = [q EXCEPT !.list = [l \in ListHead |-> Without(k.list[l], t)]]
    BY <2>1 DEF rt_list_remove
  <2> DEFINE L == [l \in ListHead |-> Without(k.list[l], t)]
             U == k.timer \ {t}
  <2> HIDE DEF L, U
  <2>4. [[k EXCEPT !.list = L] EXCEPT !.timer = U] = [[k EXCEPT !.timer = U] EXCEPT !.list = L]
    BY <1>1 DEF KernelState
  <2>5. rt_thread_unlink(k, t) = rt_list_remove(q, t)
    BY <2>1, <2>2, <2>3, <2>4 DEF L, U
  <2> QED BY <1>1, <2>5 DEF rt_thread_resume
<1>3. \A x \in Thread : pc[x] \in Busy => arg[x] # t
  BY <1>1 DEF IInv, Base, CallAgrees, Busy, Discipline
<1> QED BY <1>1, <1>2, <1>3, WakeStep

-----------------------------------------------------------------------------
(* The theorems.                                                           *)

\* rt_system_scheduler_start leaves two threads, the better one running.
LEMMA InitEstablishes == Init => IInv
<1> SUFFICES ASSUME Init PROVE IInv
  OBVIOUS
<1> DEFINE S == [t \in Thread |-> IF t = Main THEN "RUNNING"
                                  ELSE IF t = Idle THEN "READY" ELSE "NONE"]
           L == [l \in ListHead |-> IF l = InitPrio[Idle] THEN <<Idle>> ELSE << >>]
<1>1. /\ Idle \in Thread /\ Main \in Thread /\ Idle # Main
      /\ InitPrio \in [Thread -> Prio] /\ InitPrio[Idle] \in Prio
      /\ InitPrio[Idle] = RT_THREAD_PRIORITY_MAX - 1
      /\ InitPrio[Main] \in Nat /\ InitPrio[Main] < InitPrio[Idle]
      /\ WaitList \cap Prio = {}
  BY ThreadsAssumption, KernelAssumption DEF Prio
<1>2. /\ S \in [Thread -> Stat] /\ L \in [ListHead -> Seq(Thread)]
      /\ \A l \in ListHead : ToSet(L[l]) = IF l = InitPrio[Idle] THEN {Idle} ELSE {}
      /\ \A l \in ListHead : IsInjective(L[l]) /\ (L[l] # << >> <=> l = InitPrio[Idle])
  <2>1. ToSet(<<Idle>>) = {Idle} /\ ToSet(<< >>) = {}
    BY DEF ToSet
  <2>2. IsInjective(<<Idle>>) /\ IsInjective(<< >>)
    BY DEF IsInjective
  <2>3. S \in [Thread -> Stat]  BY DEF Stat
  <2>4. L \in [ListHead -> Seq(Thread)]  BY <1>1
  <2> QED BY <2>1, <2>2, <2>3, <2>4
<1>3. /\ k \in KernelState /\ k.stat = S /\ k.list = L /\ k.cur = Main
      /\ k.prio = InitPrio /\ k.timer = {} /\ k.group = {InitPrio[Idle]} /\ k.nest = 0
      /\ k.stat[Idle] = "READY" /\ k.stat[Main] = "RUNNING"
      /\ \A t \in Thread \ {Idle, Main} : k.stat[t] = "NONE"
  <2>1. /\ [t \in Thread |-> FALSE] \in [Thread -> BOOLEAN]
        /\ [t \in Thread |-> "EOK"] \in [Thread -> Error]
        /\ \A t \in Thread : S[t] = IF t = Main THEN "RUNNING"
                                    ELSE IF t = Idle THEN "READY" ELSE "NONE"
    BY DEF Error
  <2>2. k = [cur |-> Main, stat |-> S, yield |-> [t \in Thread |-> FALSE],
             prio |-> InitPrio, error |-> [t \in Thread |-> "EOK"], timer |-> {},
             list |-> L, group |-> {InitPrio[Idle]}, nest |-> 0]
    BY DEF Init
  <2> HIDE DEF S, L
  <2> QED BY <1>1, <1>2, <2>1, <2>2 DEF KernelState
<1> HIDE DEF S, L
<1>4. /\ pc \in [Thread -> Label] /\ \A t \in Thread : pc[t] = "user"
      /\ arg \in [Thread -> Thread] /\ Off = {}
  BY DEF Init, Label, Taken, Off
<1>5. KernelInv(k, Off)
  <2>1. LinkedOnce(k)
    BY <1>2, <1>3 DEF LinkedOnce
  <2>2. ReadyListsAgree(k, Off)
    <3>1. \A p \in Prio : ToSet(k.list[p]) = IF p = InitPrio[Idle] THEN {Idle} ELSE {}
      BY <1>2, <1>3 DEF ListHead
    <3>2. \A t \in Thread : k.stat[t] = "READY" => t = Idle
      BY <1>1, <1>3
    <3> QED BY <1>1, <1>3, <3>1, <3>2 DEF ReadyListsAgree, OnList
  <2>3. WaitListsAgree(k)
    BY <1>1, <1>2, <1>3 DEF WaitListsAgree, ListHead
  <2>4. GroupAgrees(k)
    BY <1>2, <1>3 DEF GroupAgrees, ListHead
  <2>5. OneRunning(k) /\ TimersAgree(k)
    BY <1>1, <1>3 DEF OneRunning, TimersAgree
  <2> QED BY <2>1, <2>2, <2>3, <2>4, <2>5 DEF KernelInv
<1>6. /\ \A t \in Thread : CallAgrees(k, pc, arg, t)
      /\ RestAgrees(k, pc)
  <2>1. \A l \in WaitList : ToSet(k.list[l]) = {}
    BY <1>1, <1>2, <1>3 DEF ListHead
  <2> QED BY <1>1, <1>3, <1>4, <2>1 DEF CallAgrees, RestAgrees
<1>7. HighestPriorityRuns /\ OnlyRunnableRuns
  BY <1>1, <1>3, <1>4 DEF HighestPriorityRuns, OnlyRunnableRuns, Prio
<1> QED BY <1>3, <1>4, <1>5, <1>6, <1>7 DEF IInv, Base, Off

\* Every section, and every interrupt, preserves the invariant.
LEMMA NextPreserves ==
    ASSUME Discipline, IInv, [Next]_vars
    PROVE  IInv'
<1>1. CASE UNCHANGED vars
  <2>1. k' = k /\ pc' = pc /\ arg' = arg /\ late' = late
    BY <1>1 DEF vars
  <2> QED BY <2>1 DEF IInv, Base, HighestPriorityRuns, OnlyRunnableRuns, Off
<1>2. ASSUME NEW t \in Thread, Calls(t) PROVE IInv'
  BY <1>2, BlockKeeps, YieldKeeps, ExitKeeps, EnterCriticalKeeps, ExitCriticalKeeps
     DEF Calls
<1>3. ASSUME NEW t \in Thread, Continues(t) PROVE IInv'
  BY <1>3, ResumeUnlinkKeeps, ResumeInsertKeeps, ScheduleCallKeeps,
     SuspendSectionKeeps, WokenKeeps, DeleteTimerKeeps, DeleteCloseKeeps DEF Continues
<1>4. ASSUME NEW t \in Thread, NEW u \in Thread, CallsOn(t, u) PROVE IInv'
  BY <1>4, CreateKeeps, StartupKeeps, ResumeKeeps, SuspendOtherKeeps, DeleteKeeps,
     ChangePriorityKeeps DEF CallsOn
<1>5. CASE IdleReap \/ IdleFree
  BY <1>5, IdleReapKeeps, IdleFreeKeeps
<1>6. CASE Interrupt
  BY <1>6, TickSliceKeeps, TimerExpiresKeeps, IsrResumeKeeps DEF Interrupt
<1> QED BY <1>1, <1>2, <1>3, <1>4, <1>5, <1>6 DEF Next

LEMMA Invariance == ASSUME Discipline PROVE Spec => []IInv
<1>1. IInv /\ [Next]_vars => IInv'
  BY NextPreserves
<1> QED BY <1>1, InitEstablishes, PTL DEF Spec

\* The history holds threads.
LEMMA LateStep ==
    ASSUME IInv, late \subseteq Thread, [Next]_vars
    PROVE  late' \subseteq Thread
<1>1. arg \in [Thread -> Thread]
  BY DEF IInv, Base
<1>2. CASE UNCHANGED vars
  BY <1>2 DEF vars
<1>3. ASSUME NEW t \in Thread, Calls(t) PROVE late' \subseteq Thread
  BY <1>3 DEF Calls, SuspendSelf, Yield, Sleep, Exit, EnterCritical, ExitCritical,
              Goto, Switch, Switched
<1>4. ASSUME NEW t \in Thread, Continues(t) PROVE late' \subseteq Thread
  BY <1>1, <1>4 DEF Continues, ResumeUnlink, ResumeInsert, Schedule, SuspendSection,
     YieldSchedule, SleepSchedule, Woken, DeleteTimer, DeleteClose, Goto, Switch, Switched
<1>5. ASSUME NEW t \in Thread, NEW u \in Thread, CallsOn(t, u) PROVE late' \subseteq Thread
  BY <1>5 DEF CallsOn, Create, Startup, Resume, SuspendOther, Delete, ChangePriority, Enter
<1>6. CASE IdleReap \/ IdleFree
  BY <1>6 DEF IdleReap, IdleFree, Goto, Switched
<1>7. CASE Interrupt
  BY <1>7 DEF Interrupt, TickSlice, TimerExpires, IsrResume, Switched
<1> QED BY <1>2, <1>3, <1>4, <1>5, <1>6, <1>7 DEF Next

\* The kernel state, the places and the calls keep their types.
THEOREM TypeCorrect == ASSUME Discipline PROVE Spec => []TypeOK
<1>1. Init => late \subseteq Thread
  BY DEF Init
<1>2. IInv /\ late \subseteq Thread /\ [Next]_vars => (late \subseteq Thread)'
  BY LateStep
<1>3. IInv /\ late \subseteq Thread => TypeOK
  BY DEF IInv, Base, TypeOK
<1> QED BY <1>1, <1>2, <1>3, Invariance, PTL DEF Spec

\* Between any two sections of any calls and interrupts, every thread is in one
\* list at most, the ready lists hold exactly the READY threads of their
\* priority, the bitmap has exactly their bits, and a timer finds its thread
\* suspended.
THEOREM ListsAlwaysAgree == ASSUME Discipline PROVE Spec => []ListsAgree
<1>1. IInv => ListsAgree
  BY DEF IInv, Base, ListsAgree, Off
<1> QED BY <1>1, Invariance, PTL

\* A call that interrupts have cut in two finds the thread it is about as its
\* last section left it.
THEOREM CallsAlwaysAgree == ASSUME Discipline PROVE Spec => []CallsAgree
<1>1. IInv => CallsAgree
  BY DEF IInv, Base, CallsAgree
<1> QED BY <1>1, Invariance, PTL

\* With the scheduler unlocked and no rt_schedule owed, no READY thread
\* outranks the thread that has the processor, but one that rt_thread_resume or
\* a change of priority has left to its caller since the last switch.
THEOREM HighestPriorityAlwaysRuns ==
    ASSUME Discipline PROVE Spec => []HighestPriorityRuns
<1>1. IInv => HighestPriorityRuns
  BY DEF IInv
<1> QED BY <1>1, Invariance, PTL

\* The processor executes a RUNNING thread, or one on its way to sleep.
THEOREM OnlyRunnableAlwaysRuns ==
    ASSUME Discipline PROVE Spec => []OnlyRunnableRuns
<1>1. IInv => OnlyRunnableRuns
  BY DEF IInv
<1> QED BY <1>1, Invariance, PTL

-----------------------------------------------------------------------------
(* What no step may do: bring the dead to life, or take the processor from *)
(* a running thread for a thread that is no better.                        *)

\* rt_schedule takes the processor from a running thread only for a better one,
\* or for an equal when the slice is over.
LEMMA SwitchIsJustified ==
    ASSUME NEW j \in KernelState, NEW O, KernelInv(j, O), j.stat[j.cur] = "RUNNING",
           rt_schedule(j).stat[j.cur] = "READY"
    PROVE  LET r == rt_schedule(j) IN
           \/ r.prio[r.cur] < j.prio[j.cur]
           \/ r.prio[r.cur] = j.prio[j.cur] /\ j.yield[j.cur]
<1> DEFINE r == rt_schedule(j)
           p == HighestReadyPriority(j)
           to == Head(j.list[p])
<1>0. /\ j.cur \in Thread /\ j.prio \in [Thread -> Prio] /\ j.group \subseteq Prio
      /\ j.stat \in [Thread -> Stat] /\ j.list \in [ListHead -> Seq(Thread)]
      /\ \A q \in Prio : q \in Int /\ q \in ListHead
      /\ GroupAgrees(j) /\ ReadyListsAgree(j, O)
  BY DEF KernelInv, KernelState, Prio, ListHead
<1>1. j.nest = 0 /\ j.group # {}
  BY DEF rt_schedule
<1>2. p \in j.group
  BY <1>0, <1>1, HighestIsLeast
<1> HIDE DEF p
<1>3. ~KeepsRunning(j)
  <2> SUFFICES ASSUME KeepsRunning(j) PROVE FALSE
    OBVIOUS
  <2>1. r = rt_schedule_remove_thread(j, j.cur)
    BY <1>1 DEF rt_schedule
  <2>2. \A q \in Prio : OnList(j, j.cur, q) => j.prio[j.cur] = q
    BY <1>0 DEF ReadyListsAgree, OnList
  <2> HIDE DEF r
  <2>3. r.stat = j.stat
    BY <1>0, <2>1, <2>2, RemoveThread DEF KernelInv
  <2> QED BY <2>3 DEF r
<1>4. r = SwitchTo(j, to)
  BY <1>1, <1>3 DEF rt_schedule, p
<1>5. to \in ToSet(j.list[p])
  <2>1. j.list[p] \in Seq(Thread) /\ j.list[p] # << >>
    BY <1>0, <1>2 DEF GroupAgrees
  <2> QED BY <2>1, EmptyList
<1> HIDE DEF to, r
<1>6. to \in Thread /\ j.stat[to] = "READY" /\ j.prio[to] = p /\ OnList(j, to, j.prio[to])
  BY <1>0, <1>2, <1>5, ListsHoldThreads DEF ReadyListsAgree, OnList
<1>7. r.cur = to /\ r.prio = j.prio
  BY ZenonT(90), <1>4, <1>6, SwitchPreserves
<1>8. ~(j.prio[j.cur] < p) /\ ~(j.prio[j.cur] = p /\ ~j.yield[j.cur])
  BY <1>3 DEF KeepsRunning, p
<1>9. \/ r.prio[r.cur] < j.prio[j.cur]
      \/ r.prio[r.cur] = j.prio[j.cur] /\ j.yield[j.cur]
  <2>1. j.prio[j.cur] \in Int /\ p \in Int /\ r.prio[r.cur] = p
    BY <1>0, <1>2, <1>6, <1>7
  <2> QED BY <1>8, <2>1
<1> QED BY <1>9 DEF r

DeadStay ==
    \A t \in Thread : k.stat[t] = "CLOSE" => k'.stat[t] \in {"CLOSE", "NONE", "INIT"}

Justified ==
    k.stat[k.cur] = "RUNNING" /\ k'.stat[k.cur] = "READY" =>
        \/ k'.prio[k'.cur] < k.prio[k.cur]
        \/ k'.prio[k'.cur] = k.prio[k.cur] /\ (TickSlice \/ k.yield[k.cur])

\* i leaves the dead as they are, and does not make the running thread READY
Harmless(i) ==
    /\ \A t \in Thread : k.stat[t] = "CLOSE" => i.stat[t] \in {"CLOSE", "NONE", "INIT"}
    /\ k.stat[k.cur] = "RUNNING" => i.stat[k.cur] # "READY"

LEMMA HarmlessSection ==
    ASSUME Harmless(k')
    PROVE  DeadStay /\ Justified
BY DEF Harmless, DeadStay, Justified

LEMMA HarmlessSchedule ==
    ASSUME NEW i \in KernelState, NEW O, KernelInv(i, O), Harmless(i), k \in KernelState,
           i.cur = k.cur, i.prio = k.prio, i.yield[k.cur] = k.yield[k.cur] \/ TickSlice,
           k' = rt_schedule(i)
    PROVE  DeadStay /\ Justified
<1>1. \A t \in Thread : \/ k'.stat[t] = i.stat[t]
                        \/ {k'.stat[t], i.stat[t]} \subseteq {"READY", "RUNNING"}
  BY SchedulePreserves
<1>2. DeadStay
  BY <1>1 DEF DeadStay, Harmless
<1>3. Justified
  <2> SUFFICES ASSUME k.stat[k.cur] = "RUNNING", k'.stat[k.cur] = "READY"
               PROVE  \/ k'.prio[k'.cur] < k.prio[k.cur]
                      \/ k'.prio[k'.cur] = k.prio[k.cur] /\ (TickSlice \/ k.yield[k.cur])
    BY DEF Justified
  <2>1. i.stat[i.cur] = "RUNNING"
    <3>1. k.cur \in Thread  BY DEF KernelState
    <3> QED BY <1>1, <3>1 DEF Harmless
  <2>2. \/ k'.prio[k'.cur] < i.prio[i.cur]
        \/ k'.prio[k'.cur] = i.prio[i.cur] /\ i.yield[i.cur]
    BY <2>1, SwitchIsJustified
  <2> QED BY <2>2
<1> QED BY <1>2, <1>3

\* one thread's state changes
LEMMA HarmlessChange ==
    ASSUME k \in KernelState, NEW i, NEW u \in Thread, NEW s,
           i.stat = [k.stat EXCEPT ![u] = s] \/ i.stat = k.stat,
           k.stat[u] # "CLOSE" \/ s \in {"CLOSE", "NONE", "INIT"},
           s # "READY" \/ u # k.cur \/ k.stat[u] # "RUNNING"
    PROVE  Harmless(i)
<1>1. k.stat \in [Thread -> Stat] /\ k.cur \in Thread  BY DEF KernelState
<1> QED BY <1>1 DEF Harmless

LEMMA HarmlessSame ==
    ASSUME NEW i, i.stat = k.stat
    PROVE  Harmless(i)
BY DEF Harmless

\* what the operators do to the states
LEMMA OperatorStates ==
    ASSUME NEW j \in KernelState, NEW t \in Thread
    PROVE  /\ rt_list_remove(j, t).stat = j.stat
           /\ rt_timer_stop(j, t).stat = j.stat /\ rt_timer_start(j, t).stat = j.stat
           /\ rt_thread_unlink(j, t).stat = j.stat
           /\ rt_schedule_remove_thread(j, t).stat = j.stat
           /\ \/ rt_thread_suspend(j, t).stat = j.stat
              \/ rt_thread_suspend(j, t).stat = [j.stat EXCEPT ![t] = "SUSPEND"]
           /\ rt_thread_suspend_section(j, t).stat = [j.stat EXCEPT ![t] = "SUSPEND"]
           /\ rt_schedule_insert_thread(j, t).stat =
                  [j.stat EXCEPT ![t] = IF t = j.cur THEN "RUNNING" ELSE "READY"]
<1>1. /\ rt_list_remove(j, t).stat = j.stat /\ rt_timer_stop(j, t).stat = j.stat
      /\ rt_timer_start(j, t).stat = j.stat
  BY DEF rt_list_remove, rt_timer_stop, rt_timer_start, KernelState
<1>2. rt_thread_unlink(j, t).stat = j.stat
  BY DEF rt_thread_unlink, rt_list_remove, rt_timer_stop, KernelState
<1>3. rt_schedule_remove_thread(j, t).stat = j.stat
  BY DEF rt_schedule_remove_thread, rt_list_remove, KernelState
<1>4. rt_thread_suspend_section(j, t).stat = [j.stat EXCEPT ![t] = "SUSPEND"]
  BY DEF rt_thread_suspend_section, rt_schedule_remove_thread, rt_list_remove,
         rt_timer_stop, KernelState
<1>5. rt_schedule_insert_thread(j, t).stat =
          [j.stat EXCEPT ![t] = IF t = j.cur THEN "RUNNING" ELSE "READY"]
  BY DEF rt_schedule_insert_thread, rt_list_insert_before, KernelState
<1> QED BY <1>1, <1>2, <1>3, <1>4, <1>5 DEF rt_thread_suspend

LEMMA CallHarmless ==
    ASSUME Discipline, IInv, NEW t \in Thread, NEW u \in Thread, CallsOn(t, u)
    PROVE  DeadStay /\ Justified
<1>1. k \in KernelState
  BY DEF IInv, Base
<1>2. CASE Create(t, u)
  <2>1. k'.stat = [k.stat EXCEPT ![u] = "INIT"]
    BY <1>1, <1>2 DEF Create, KernelState
  <2> QED BY <1>1, <2>1, HarmlessChange, HarmlessSection
<1>3. CASE Startup(t, u)
  <2>1. k'.stat = [k.stat EXCEPT ![u] = "SUSPEND"] /\ k.stat[u] = "INIT"
    BY <1>1, <1>3 DEF Startup, Enter, KernelState
  <2> QED BY <1>1, <2>1, HarmlessChange, HarmlessSection
<1>4. CASE Resume(t, u) \/ SuspendOther(t, u)
  <2>1. k'.stat = k.stat
    BY <1>4 DEF Resume, SuspendOther, Enter
  <2> QED BY <2>1, HarmlessSame, HarmlessSection
<1>5. CASE Delete(t, u)
  <2>1. k'.stat = k.stat
    BY <1>1, <1>5, OperatorStates DEF Delete, Enter
  <2> QED BY <2>1, HarmlessSame, HarmlessSection
<1>6. CASE \E p \in Prio : ChangePriority(t, u, p)
  <2>1. PICK p \in Prio : ChangePriority(t, u, p)
    BY <1>6
  <2>2. /\ k' = rt_thread_change_priority(k, u, p) /\ k.stat[u] \in {"READY", "SUSPEND"}
        /\ k.stat[k.cur] = "RUNNING"
    BY <2>1 DEF ChangePriority, At, IInv, OnlyRunnableRuns
  <2>3. \/ k'.stat = [k.stat EXCEPT ![u] = "READY"] /\ u # k.cur
        \/ k'.stat = k.stat
    <3>1. CASE k.stat[u] = "READY"
      <4> DEFINE r == rt_schedule_remove_thread(k, u)
                 q == [r EXCEPT !.prio[u] = p]
      <4>1. q \in KernelState /\ q.stat = k.stat /\ q.cur = k.cur
        <5>1. r \in KernelState /\ r.stat = k.stat /\ r.cur = k.cur
          <6>1. \A x \in Prio : OnList(k, u, x) => k.prio[u] = x
            BY DEF IInv, Base, KernelInv, ReadyListsAgree, OnList
          <6> HIDE DEF r
          <6> QED BY <1>1, <6>1, RemoveThread DEF IInv, Base, KernelInv, r
        <5> HIDE DEF r
        <5>2. [r.prio EXCEPT ![u] = p] \in [Thread -> Prio]
          BY <5>1 DEF KernelState
        <5> QED BY <5>1, <5>2 DEF KernelState
      <4>2. k' = rt_schedule_insert_thread(q, u)
        BY <2>2, <3>1 DEF rt_thread_change_priority
      <4> HIDE DEF q
      <4>3. u # k.cur  BY <2>2, <3>1
      <4>4. rt_schedule_insert_thread(q, u).stat =
                [q.stat EXCEPT ![u] = IF u = q.cur THEN "RUNNING" ELSE "READY"]
        BY <4>1, OperatorStates
      <4> QED BY <4>1, <4>2, <4>3, <4>4
    <3>2. CASE k.stat[u] # "READY"
      BY <1>1, <2>2, <3>2 DEF rt_thread_change_priority, KernelState
    <3> QED BY <3>1, <3>2
  <2> QED BY <1>1, <2>2, <2>3, HarmlessChange, HarmlessSame, HarmlessSection
<1> QED BY <1>2, <1>3, <1>4, <1>5, <1>6 DEF CallsOn

LEMMA OwnCallHarmless ==
    ASSUME Discipline, IInv, NEW t \in Thread, Calls(t)
    PROVE  DeadStay /\ Justified
<1>1. k \in KernelState
  BY DEF IInv, Base
<1>2. CASE SuspendSelf(t) \/ Sleep(t)
  <2> DEFINE q == rt_thread_suspend(k, t)
  <2>1. k' = q \/ k' = rt_timer_start(q, t)
    BY <1>2 DEF SuspendSelf, Sleep, Goto
  <2>2. k.stat[t] = "RUNNING"
    BY <1>2 DEF SuspendSelf, Sleep, MayBlock, At, IInv, OnlyRunnableRuns
  <2>3. q.stat = k.stat \/ q.stat = [k.stat EXCEPT ![t] = "SUSPEND"]
    <3> HIDE DEF q
    <3> QED BY <1>1, OperatorStates DEF q
  <2>4. k'.stat = q.stat
    <3>1. q \in KernelState
      <4>1. k.stat[t] \in {"READY", "RUNNING"} /\ t \in Thread  BY <2>2
      <4>2. KernelInv(k, Taken(pc, arg))  BY DEF IInv, Base
      <4>3. q = rt_thread_suspend_section(k, t)
        BY <4>1 DEF rt_thread_suspend
      <4> HIDE DEF q
      <4> QED BY <1>1, <4>1, <4>2, <4>3, SuspendPreserves
    <3> HIDE DEF q
    <3>2. rt_timer_start(q, t).stat = q.stat
      BY <3>1, OperatorStates
    <3> QED BY <2>1, <3>2
  <2> HIDE DEF q
  <2>5. k'.stat = k.stat \/ k'.stat = [k.stat EXCEPT ![t] = "SUSPEND"]
    BY <2>3, <2>4
  <2> QED BY <1>1, <2>2, <2>5, HarmlessChange, HarmlessSection
<1>3. CASE Exit(t)
  <2>1. PICK d \in KernelState :
            /\ k' = rt_schedule(d) /\ KernelInv(d, Taken(pc, arg))
            /\ d.stat = [k.stat EXCEPT ![t] = "CLOSE"] /\ d.prio = k.prio
            /\ d.cur = k.cur
    BY <1>3, ExitCloses
  <2>2. t = k.cur  BY <1>3 DEF Exit, MayBlock, At
  <2>3. Harmless(d)
    BY <1>1, <2>1, HarmlessChange
  <2>4. \A x \in Thread : \/ k'.stat[x] = d.stat[x]
                          \/ {k'.stat[x], d.stat[x]} \subseteq {"READY", "RUNNING"}
    <3> DEFINE z == rt_schedule(d)
               O == Taken(pc, arg)
    <3>1. KernelInv(d, O) /\ k' = z  BY <2>1
    <3> HIDE DEF z, O
    <3>2. \A x \in Thread : \/ z.stat[x] = d.stat[x]
                            \/ {z.stat[x], d.stat[x]} \subseteq {"READY", "RUNNING"}
      BY <3>1, SchedulePreserves DEF z
    <3> QED BY <3>1, <3>2
  <2>5. k'.stat[k.cur] # "READY"
    <3>1. d.stat[t] = "CLOSE"  BY <1>1, <2>1 DEF KernelState
    <3> QED BY <2>2, <2>4, <3>1
  <2> QED BY <2>3, <2>4, <2>5 DEF DeadStay, Justified, Harmless
<1>4. CASE Yield(t) \/ EnterCritical(t) \/ ExitCritical(t)
  <2>1. k'.stat = k.stat
    BY <1>1, <1>4 DEF Yield, EnterCritical, ExitCritical, Goto, KernelState
  <2> QED BY <2>1, HarmlessSame, HarmlessSection
<1> QED BY <1>2, <1>3, <1>4 DEF Calls

LEMMA ContinuationHarmless ==
    ASSUME Discipline, IInv, NEW t \in Thread, Continues(t)
    PROVE  DeadStay /\ Justified
<1>1. /\ k \in KernelState /\ KernelInv(k, Taken(pc, arg)) /\ arg[t] \in Thread
      /\ CallAgrees(k, pc, arg, t)
  BY DEF IInv, Base
<1>2. CASE ResumeUnlink(t) \/ DeleteTimer(t) \/ Woken(t)
  <2>1. CASE ResumeUnlink(t)
    BY <1>1, <2>1, OperatorStates, HarmlessSame, HarmlessSection DEF ResumeUnlink, Goto
  <2>2. CASE DeleteTimer(t)
    BY <1>1, <2>2, OperatorStates, HarmlessSame, HarmlessSection DEF DeleteTimer, Goto
  <2>3. CASE Woken(t)
    <3>1. k'.stat = k.stat
      BY <1>1, <2>3 DEF Woken, Goto, KernelState
    <3> QED BY <3>1, HarmlessSame, HarmlessSection
  <2> QED BY <1>2, <2>1, <2>2, <2>3
<1>3. CASE ResumeInsert(t)
  <2>1. k.stat[arg[t]] = "SUSPEND" /\ arg[t] # k.cur /\ k' = rt_schedule_insert_thread(k, arg[t])
    BY <1>1, <1>3 DEF ResumeInsert, At, Goto, CallAgrees
  <2>2. k'.stat = [k.stat EXCEPT ![arg[t]] = "READY"]
    BY <1>1, <2>1, OperatorStates
  <2> QED BY <1>1, <2>1, <2>2, HarmlessChange, HarmlessSection
<1>4. CASE Schedule(t) \/ YieldSchedule(t) \/ SleepSchedule(t)
  <2>1. k' = rt_schedule(k)
    BY <1>4 DEF Schedule, YieldSchedule, SleepSchedule, Switch
  <2> QED BY <1>1, <2>1, HarmlessSame, HarmlessSchedule
<1>5. CASE SuspendSection(t)
  <2>1. k.stat[arg[t]] \in Alive /\ k' = rt_thread_suspend_section(k, arg[t])
    BY <1>1, <1>5 DEF SuspendSection, At, Goto, CallAgrees, Alive
  <2>2. k'.stat = [k.stat EXCEPT ![arg[t]] = "SUSPEND"]
    BY <1>1, <2>1, OperatorStates
  <2> QED BY <1>1, <2>1, <2>2, HarmlessChange, HarmlessSection DEF Alive
<1>6. CASE DeleteClose(t)
  <2> DEFINE closed == [k EXCEPT !.stat[arg[t]] = "CLOSE", !.yield[arg[t]] = FALSE]
  <2>1. k' = closed \/ k' = rt_list_insert_after(closed, rt_thread_defunct, arg[t])
    BY <1>6 DEF DeleteClose, Goto
  <2>2. k'.stat = [k.stat EXCEPT ![arg[t]] = "CLOSE"]
    BY <1>1, <2>1 DEF rt_list_insert_after, KernelState
  <2> QED BY <1>1, <2>2, HarmlessChange, HarmlessSection
<1> QED BY <1>2, <1>3, <1>4, <1>5, <1>6 DEF Continues

LEMMA InterruptHarmless ==
    ASSUME Discipline, IInv, Interrupt
    PROVE  DeadStay /\ Justified
<1> DEFINE O == Taken(pc, arg)
<1>1. k \in KernelState /\ KernelInv(k, O)
  BY DEF IInv, Base
<1> HIDE DEF O
<1>2. CASE TickSlice
  <2> DEFINE Y == [k.yield EXCEPT ![k.cur] = TRUE]
             i == [k EXCEPT !.yield = Y]
  <2>1. k' = rt_schedule(i)
    BY <1>1, <1>2 DEF TickSlice, rt_tick_slice_over, KernelState
  <2>2. Y \in [Thread -> BOOLEAN]  BY <1>1 DEF KernelState
  <2> HIDE DEF Y
  <2>3. /\ i \in KernelState /\ i.stat = k.stat /\ i.prio = k.prio /\ i.list = k.list
        /\ i.group = k.group /\ i.cur = k.cur /\ i.timer = k.timer
    BY <1>1, <2>2 DEF KernelState
  <2> HIDE DEF i
  <2>4. KernelInv(i, O)
    BY <1>1, <2>3, SameLists
  <2> QED BY <1>1, <1>2, <2>1, <2>3, <2>4, HarmlessSame, HarmlessSchedule
<1>3. ASSUME NEW t \in Thread, TimerExpires(t) PROVE DeadStay /\ Justified
  <2> DEFINE i == TimedOut(k, t)
  <2>1. k.stat[t] = "SUSPEND" /\ k' = rt_thread_timeout(k, t)
    BY <1>1, <1>3 DEF TimerExpires, KernelInv, TimersAgree
  <2>2. /\ rt_thread_timeout(k, t) = rt_schedule(i)
        /\ i \in KernelState /\ KernelInv(i, O)
        /\ i.stat = [k.stat EXCEPT ![t] = IF t = k.cur THEN "RUNNING" ELSE "READY"]
        /\ i.cur = k.cur /\ i.yield = k.yield /\ i.prio = k.prio
    <3>1. k.stat[t] = "SUSPEND"  BY <2>1
    <3>2. rt_thread_timeout(k, t) = rt_schedule(i)
      BY Zenon DEF TimedOut, rt_thread_timeout
    <3>3. i \in KernelState /\ KernelInv(i, O)
      BY <1>1, <3>1, TimeoutPreserves
    <3>4. /\ i.stat = [k.stat EXCEPT ![t] = IF t = k.cur THEN "RUNNING" ELSE "READY"]
          /\ i.cur = k.cur /\ i.yield = k.yield /\ i.prio = k.prio
      BY ZenonT(60), <1>1, <3>1, TimeoutPreserves
    <3> HIDE DEF i
    <3> QED BY <3>2, <3>3, <3>4
  <2> HIDE DEF i
  <2>3. Harmless(i)
    BY <1>1, <2>1, <2>2, HarmlessChange
  <2> QED BY <1>1, <2>1, <2>2, <2>3, HarmlessSchedule
<1>4. ASSUME NEW t \in Thread, IsrResume(t) PROVE DeadStay /\ Justified
  <2> DEFINE i == rt_thread_resume(k, t)
  <2>1. k.stat[t] = "SUSPEND" /\ k' = rt_schedule(i)
    BY <1>4 DEF IsrResume
  <2>2. /\ i \in KernelState /\ KernelInv(i, O)
        /\ i.stat = [k.stat EXCEPT ![t] = IF t = k.cur THEN "RUNNING" ELSE "READY"]
        /\ i.cur = k.cur /\ i.yield = k.yield /\ i.prio = k.prio
    <3> HIDE DEF i
    <3> QED BY <1>1, <2>1, ResumePreserves DEF i
  <2> HIDE DEF i
  <2>3. Harmless(i)
    BY <1>1, <2>1, <2>2, HarmlessChange
  <2> QED BY <1>1, <2>1, <2>2, <2>3, HarmlessSchedule
<1> QED BY <1>2, <1>3, <1>4 DEF Interrupt

LEMMA IdleHarmless ==
    ASSUME Discipline, IInv, IdleReap \/ IdleFree
    PROVE  DeadStay /\ Justified
<1> DEFINE O == Taken(pc, arg)
<1>1. k \in KernelState /\ KernelInv(k, O)
  BY DEF IInv, Base
<1> HIDE DEF O
<1>2. CASE IdleReap
  <2> DEFINE u == Head(k.list[rt_thread_defunct])
             q == rt_list_remove(k, u)
  <2>1. k' = rt_schedule(q) /\ k.list[rt_thread_defunct] # << >>
    BY <1>2 DEF IdleReap
  <2>2. u \in Thread /\ k.stat[u] = "CLOSE"
    <3>1. rt_thread_defunct \in WaitList /\ k.list[rt_thread_defunct] \in Seq(Thread)
      BY <1>1, ThreadsAssumption DEF KernelState, ListHead
    <3>2. u \in ToSet(k.list[rt_thread_defunct])
      BY <2>1, <3>1, EmptyList
    <3> HIDE DEF u
    <3>3. u \in Thread
      BY <1>1, <3>1, <3>2, ListsHoldThreads DEF ListHead
    <3> QED BY <3>1, <3>2, <3>3 DEF IInv, Base, RestAgrees
  <2> HIDE DEF u
  <2>3. q.yield = k.yield
    BY <1>1 DEF rt_list_remove, KernelState
  <2>4. /\ q \in KernelState /\ KernelInv(q, O)
        /\ q.cur = k.cur /\ q.stat = k.stat /\ q.prio = k.prio
    <3>1. k.stat[u] # "READY" \/ u \in O  BY <2>2
    <3> HIDE DEF q
    <3> QED BY <1>1, <2>2, UnlinkPreserves DEF q
  <2> HIDE DEF q
  <2> QED BY <1>1, <2>1, <2>3, <2>4, HarmlessSame, HarmlessSchedule
<1>3. CASE IdleFree
  <2>1. arg[Idle] \in Thread /\ k.stat[arg[Idle]] = "CLOSE"
    BY <1>3, ThreadsAssumption DEF IdleFree, At, IInv, Base, CallAgrees
  <2>2. k'.stat = [k.stat EXCEPT ![arg[Idle]] = "NONE"]
    BY <1>1, <1>3 DEF IdleFree, Goto, KernelState
  <2> QED BY <1>1, <2>1, <2>2, HarmlessChange, HarmlessSection
<1> QED BY <1>2, <1>3

LEMMA StepHarmless ==
    ASSUME Discipline, IInv, Next
    PROVE  DeadStay /\ Justified
BY CallHarmless, OwnCallHarmless, ContinuationHarmless, InterruptHarmless, IdleHarmless
   DEF Next

\* A closed thread is freed or made anew: no section of a call, no interrupt and
\* no timer that has not been stopped brings it back.
THEOREM DeadAlwaysStayDead ==
    ASSUME Discipline PROVE Spec => DeadStaysDead
<1>1. IInv /\ [Next]_vars => [DeadStay]_vars
  BY StepHarmless
<1>2. Spec => [][DeadStay]_vars
  BY <1>1, Invariance, PTL DEF Spec
<1> QED BY <1>2 DEF DeadStaysDead, DeadStay

\* rt_schedule, from a call or from an interrupt, takes the processor from a
\* running thread for a better one, or for an equal one when its slice is over.
THEOREM PreemptionAlwaysJustified ==
    ASSUME Discipline PROVE Spec => PreemptionJustified
<1>1. IInv /\ [Next]_vars => [Justified]_vars
  BY StepHarmless
<1>2. Spec => [][Justified]_vars
  BY <1>1, Invariance, PTL DEF Spec
<1> QED BY <1>2 DEF PreemptionJustified, Justified
=============================================================================
