--------------------------- MODULE RTKernelProofs ---------------------------
(***************************************************************************)
(* What the kernel services of RTKernel preserve, for any number of        *)
(* threads, priorities and lists.                                          *)
(***************************************************************************)
EXTENDS RTKernel, ListsProofs, FiniteSetTheorems

-----------------------------------------------------------------------------
(* The lists.                                                              *)

\* Only threads are linked.
LEMMA ListsHoldThreads ==
    ASSUME NEW k \in KernelState, NEW l \in ListHead, NEW t \in ToSet(k.list[l])
    PROVE  t \in Thread
<1>1. k.list[l] \in Seq(Thread)
  BY DEF KernelState
<1>2. PICK i \in DOMAIN k.list[l] : t = k.list[l][i]
  BY DEF ToSet
<1>3. i \in 1 .. Len(k.list[l]) /\ k.list[l] \in [1 .. Len(k.list[l]) -> Thread]
  BY <1>1, <1>2, LenProperties
<1> QED BY <1>2, <1>3

\* rt_list_remove takes the node off whatever list it is on, and nothing else.
LEMMA ListRemove ==
    ASSUME NEW k \in KernelState, LinkedOnce(k), NEW t \in Thread
    PROVE  LET r == rt_list_remove(k, t) IN
           /\ r \in KernelState /\ LinkedOnce(r)
           /\ \A l \in ListHead :
                  /\ ToSet(r.list[l]) = ToSet(k.list[l]) \ {t}
                  /\ t \notin ToSet(k.list[l]) => r.list[l] = k.list[l]
           /\ r.cur = k.cur /\ r.stat = k.stat /\ r.yield = k.yield
           /\ r.prio = k.prio /\ r.error = k.error /\ r.timer = k.timer
           /\ r.group = k.group /\ r.nest = k.nest
<1> DEFINE L == [l \in ListHead |-> Without(k.list[l], t)]
           r == [k EXCEPT !.list = L]
<1>1. ASSUME NEW l \in ListHead
      PROVE  /\ L[l] \in Seq(Thread) /\ IsInjective(L[l])
             /\ ToSet(L[l]) = ToSet(k.list[l]) \ {t}
             /\ t \notin ToSet(k.list[l]) => L[l] = k.list[l]
  <2>1. k.list[l] \in Seq(Thread) /\ IsInjective(k.list[l])
    BY DEF KernelState, LinkedOnce
  <2> QED BY <2>1, WithoutElements
<1>2. L \in [ListHead -> Seq(Thread)]
  BY <1>1
<1> HIDE DEF L
<1>3. /\ r \in KernelState /\ r.list = L
      /\ r.cur = k.cur /\ r.stat = k.stat /\ r.yield = k.yield
      /\ r.prio = k.prio /\ r.error = k.error /\ r.timer = k.timer
      /\ r.group = k.group /\ r.nest = k.nest
  BY <1>2 DEF KernelState
<1>4. r = rt_list_remove(k, t)
  BY DEF rt_list_remove, L
<1> HIDE DEF r
<1>5. LinkedOnce(r)
  BY <1>1, <1>3 DEF LinkedOnce
<1> QED BY <1>1, <1>3, <1>4, <1>5

\* rt_schedule_remove_thread also keeps the bitmap in step with the lists.
LEMMA RemoveThread ==
    ASSUME NEW k \in KernelState, LinkedOnce(k), GroupAgrees(k), NEW t \in Thread,
           \A p \in Prio : OnList(k, t, p) => k.prio[t] = p
    PROVE  LET r == rt_schedule_remove_thread(k, t) IN
           /\ r \in KernelState /\ LinkedOnce(r) /\ GroupAgrees(r) /\ OffLists(r, t)
           /\ \A l \in ListHead : ToSet(r.list[l]) = ToSet(k.list[l]) \ {t}
           /\ OffLists(k, t) => r = k
           /\ r.cur = k.cur /\ r.stat = k.stat /\ r.yield = k.yield
           /\ r.prio = k.prio /\ r.error = k.error /\ r.timer = k.timer
           /\ r.nest = k.nest
<1> DEFINE q == rt_list_remove(k, t)
           G == IF q.list[k.prio[t]] = << >> THEN k.group \ {k.prio[t]} ELSE k.group
           r == [q EXCEPT !.group = G]
<1>1. /\ q \in KernelState /\ LinkedOnce(q)
      /\ \A l \in ListHead : /\ ToSet(q.list[l]) = ToSet(k.list[l]) \ {t}
                             /\ t \notin ToSet(k.list[l]) => q.list[l] = k.list[l]
      /\ q.cur = k.cur /\ q.stat = k.stat /\ q.yield = k.yield
      /\ q.prio = k.prio /\ q.error = k.error /\ q.timer = k.timer
      /\ q.group = k.group /\ q.nest = k.nest
  BY ListRemove
<1>2. r = rt_schedule_remove_thread(k, t)
  BY <1>1 DEF rt_schedule_remove_thread
<1> HIDE DEF q
<1>3. G \subseteq Prio /\ k.prio[t] \in Prio
  BY DEF KernelState
<1> HIDE DEF G
<1>4. /\ r \in KernelState /\ r.list = q.list /\ r.group = G
      /\ r.cur = q.cur /\ r.stat = q.stat /\ r.yield = q.yield
      /\ r.prio = q.prio /\ r.error = q.error /\ r.timer = q.timer
      /\ r.nest = q.nest
  BY <1>1, <1>3 DEF KernelState
<1>5. ASSUME OffLists(k, t) PROVE r = k
  <2>1. \A l \in ListHead : q.list[l] = k.list[l]
    BY <1>1, <1>5 DEF OffLists, OnList
  <2>2. q.list = k.list
    BY <2>1, <1>1 DEF KernelState
  <2>3. G = k.group
    BY <1>3, <2>2 DEF G, GroupAgrees
  <2> QED BY <1>1, <1>4, <2>2, <2>3 DEF KernelState
<1> HIDE DEF r
<1>6. LinkedOnce(r)
  BY <1>1, <1>4 DEF LinkedOnce
<1>7. GroupAgrees(r)
  <2> SUFFICES ASSUME NEW p \in Prio PROVE p \in r.group <=> r.list[p] # << >>
    BY DEF GroupAgrees
  <2>0. p \in ListHead /\ k.list[p] \in Seq(Thread) /\ q.list[p] \in Seq(Thread)
    BY <1>1 DEF ListHead, KernelState
  <2>1. CASE p = k.prio[t]
    <3>1. q.list[p] # << >> => k.list[p] # << >>
      BY <1>1, <2>0, EmptyList
    <3> QED BY <1>4, <2>1, <3>1 DEF GroupAgrees, G
  <2>2. CASE p # k.prio[t]
    <3>1. q.list[p] = k.list[p]
      BY <1>1, <2>0, <2>2 DEF OnList
    <3> QED BY <1>4, <2>2, <3>1 DEF GroupAgrees, G
  <2> QED BY <2>1, <2>2
<1>8. OffLists(r, t)
  BY <1>1, <1>4 DEF OffLists, OnList
<1> QED BY <1>1, <1>2, <1>4, <1>5, <1>6, <1>7, <1>8

\* rt_schedule_insert_thread makes an unlinked thread ready, or lets the
\* current one run on.
LEMMA InsertThread ==
    ASSUME NEW k \in KernelState, LinkedOnce(k), GroupAgrees(k), NEW t \in Thread,
           OffLists(k, t)
    PROVE  LET r == rt_schedule_insert_thread(k, t) IN
           /\ r \in KernelState /\ LinkedOnce(r) /\ GroupAgrees(r)
           /\ t = k.cur => /\ r.list = k.list /\ r.group = k.group
                           /\ r.stat = [k.stat EXCEPT ![t] = "RUNNING"]
           /\ t # k.cur => /\ r.stat = [k.stat EXCEPT ![t] = "READY"]
                           /\ \A l \in ListHead :
                                  ToSet(r.list[l]) =
                                      IF l = k.prio[t] THEN ToSet(k.list[l]) \cup {t}
                                                       ELSE ToSet(k.list[l])
           /\ r.cur = k.cur /\ r.yield = k.yield /\ r.prio = k.prio
           /\ r.error = k.error /\ r.timer = k.timer /\ r.nest = k.nest
<1> DEFINE r == rt_schedule_insert_thread(k, t)
<1>1. CASE t = k.cur
  <2> DEFINE T == [k.stat EXCEPT ![t] = "RUNNING"]
  <2>0. T \in [Thread -> Stat]
    BY DEF KernelState, Stat
  <2>1. r = [k EXCEPT !.stat = T]
    BY <1>1 DEF rt_schedule_insert_thread, KernelState
  <2> HIDE DEF T
  <2>2. /\ r \in KernelState /\ r.list = k.list /\ r.group = k.group
        /\ r.stat = T
        /\ r.cur = k.cur /\ r.yield = k.yield /\ r.prio = k.prio
        /\ r.error = k.error /\ r.timer = k.timer /\ r.nest = k.nest
    BY <2>0, <2>1 DEF KernelState
  <2> HIDE DEF r
  <2>3. LinkedOnce(r) /\ GroupAgrees(r)
    BY <2>2 DEF LinkedOnce, GroupAgrees
  <2> QED BY <1>1, <2>2, <2>3 DEF r, T
<1>2. CASE t # k.cur
  <2> DEFINE p == k.prio[t]
             L == [k.list EXCEPT ![p] = Append(@, t)]
             T == [k.stat EXCEPT ![t] = "READY"]
  <2>1. p \in Prio /\ p \in ListHead /\ k.list[p] \in Seq(Thread)
        /\ IsInjective(k.list[p]) /\ t \notin ToSet(k.list[p])
    BY DEF KernelState, ListHead, LinkedOnce, OffLists, OnList
  <2>2. /\ L[p] \in Seq(Thread) /\ IsInjective(L[p])
        /\ ToSet(L[p]) = ToSet(k.list[p]) \cup {t} /\ L[p] # << >>
    <3>1. L[p] = Append(k.list[p], t)
      BY <2>1 DEF KernelState
    <3> HIDE DEF L
    <3> QED BY <2>1, <3>1, AppendElements
  <2>3. \A l \in ListHead : l # p => L[l] = k.list[l]
    BY DEF KernelState
  <2>4. L \in [ListHead -> Seq(Thread)]
    <3>1. L = [l \in ListHead |-> IF l = p THEN L[p] ELSE k.list[l]]
      BY DEF KernelState
    <3> HIDE DEF L
    <3> QED BY <2>2, <3>1 DEF KernelState
  <2>5. r = [k EXCEPT !.list = L, !.stat = T, !.group = @ \cup {p}]
    BY <1>2 DEF rt_schedule_insert_thread, rt_list_insert_before, KernelState
  <2>9. T \in [Thread -> Stat]
    BY DEF KernelState, Stat
  <2> HIDE DEF L, T, r, p
  <2>10. k.group \cup {p} \in SUBSET Prio
    BY <2>1 DEF KernelState
  <2>6. /\ r \in KernelState /\ r.list = L /\ r.group = k.group \cup {p}
        /\ r.stat = T
        /\ r.cur = k.cur /\ r.yield = k.yield /\ r.prio = k.prio
        /\ r.error = k.error /\ r.timer = k.timer /\ r.nest = k.nest
    BY <2>10, <2>4, <2>5, <2>9 DEF KernelState
  <2>7. LinkedOnce(r)
    <3>1. ASSUME NEW l \in ListHead PROVE IsInjective(r.list[l])
      <4>1. CASE l = p  BY <4>1, <2>2, <2>6
      <4>2. CASE l # p
        <5>1. r.list[l] = k.list[l]  BY <4>2, <2>3, <2>6
        <5> QED BY <5>1 DEF LinkedOnce
      <4> QED BY <4>1, <4>2
    <3>2. ASSUME NEW l \in ListHead, NEW m \in ListHead, l # m
          PROVE  ToSet(r.list[l]) \cap ToSet(r.list[m]) = {}
      <4>1. \A x \in ListHead : t \notin ToSet(k.list[x])
        BY DEF OffLists, OnList
      <4>2. ToSet(k.list[l]) \cap ToSet(k.list[m]) = {}
        BY <3>2 DEF LinkedOnce
      <4>3. \A x \in ListHead : ToSet(r.list[x]) =
                IF x = p THEN ToSet(k.list[x]) \cup {t} ELSE ToSet(k.list[x])
        BY <2>2, <2>3, <2>6
      <4> QED BY <3>2, <4>1, <4>2, <4>3
    <3> QED BY <3>1, <3>2 DEF LinkedOnce
  <2>8. GroupAgrees(r)
    BY <2>1, <2>2, <2>3, <2>6 DEF GroupAgrees, ListHead
  <2> QED BY <1>2, <2>2, <2>3, <2>6, <2>7, <2>8 DEF r, p, T
<1> QED BY <1>1, <1>2

-----------------------------------------------------------------------------
(* The scheduler.                                                          *)

\* __rt_ffs finds the least priority of a bitmap that is not empty.
LEMMA HighestIsLeast ==
    ASSUME NEW k \in KernelState, k.group # {}
    PROVE  /\ HighestReadyPriority(k) \in k.group
           /\ \A q \in k.group : HighestReadyPriority(k) <= q
<1>1. k.group \subseteq Nat
  BY DEF KernelState, Prio
<1>2. \E p \in k.group : \A q \in k.group : p <= q
  BY <1>1, LeastElement
<1> QED BY <1>2 DEF HighestReadyPriority

\* A thread that runs or is being started is linked nowhere.
LEMMA RunningIsOffLists ==
    ASSUME NEW k \in KernelState, NEW Off, KernelInv(k, Off), NEW t \in Thread,
           k.stat[t] \notin {"READY", "SUSPEND", "CLOSE"}
    PROVE  OffLists(k, t)
<1> QED
  BY DEF KernelInv, ReadyListsAgree, WaitListsAgree, OffLists, OnList, ListHead

\* A switch: the old thread, if it still runs, goes back to its ready list.
LEMMA SwitchPreserves ==
    ASSUME NEW k \in KernelState, NEW Off, KernelInv(k, Off),
           NEW to \in Thread, OnList(k, to, k.prio[to]), k.stat[to] = "READY"
    PROVE  LET r == SwitchTo(k, to) IN
           /\ r \in KernelState /\ KernelInv(r, Off)
           /\ r.cur = to /\ r.prio = k.prio /\ r.error = k.error
           /\ r.timer = k.timer /\ r.nest = k.nest
           /\ r.stat = [t \in Thread |-> IF t = to THEN "RUNNING"
                                        ELSE IF k.stat[t] = "RUNNING" THEN "READY"
                                        ELSE k.stat[t]]
           /\ \A l \in WaitList : ToSet(r.list[l]) = ToSet(k.list[l])
           /\ \A l \in ListHead : ToSet(r.list[l]) \subseteq
                  ToSet(k.list[l]) \cup {t \in {k.cur} : k.stat[t] = "RUNNING"}
<1> DEFINE from == k.cur
           running == k.stat[from] = "RUNNING"
           Y == [k.yield EXCEPT ![from] = IF running THEN FALSE ELSE @]
           s == [k EXCEPT !.cur = to, !.yield = Y]
           q == IF running THEN rt_schedule_insert_thread(s, from) ELSE s
           m == rt_schedule_remove_thread(q, to)
           T == [m.stat EXCEPT ![to] = "RUNNING"]
           r == [m EXCEPT !.stat = T]
<1>0. /\ LinkedOnce(k) /\ GroupAgrees(k) /\ ReadyListsAgree(k, Off)
      /\ WaitListsAgree(k) /\ OneRunning(k) /\ TimersAgree(k)
      /\ from \in Thread /\ to # from
      /\ \A l \in WaitList : l \in ListHead /\ l \notin Prio
      /\ \A p \in Prio : p \in ListHead
      /\ \A t \in Thread : k.prio[t] \in Prio
  BY KernelAssumption DEF KernelInv, OneRunning, KernelState, ListHead
<1>1. /\ s \in KernelState /\ s.cur = to /\ s.stat = k.stat /\ s.prio = k.prio
      /\ s.error = k.error /\ s.timer = k.timer /\ s.list = k.list
      /\ s.group = k.group /\ s.nest = k.nest
  <2>1. Y \in [Thread -> BOOLEAN]  BY DEF KernelState
  <2> HIDE DEF Y
  <2> QED BY <2>1 DEF KernelState
<1>2. SwitchTo(k, to) = r
  <2>1. s = [k EXCEPT !.cur = to, !.yield[from] = IF running THEN FALSE ELSE @]
    BY DEF KernelState
  <2>2. [m EXCEPT !.stat[to] = "RUNNING"] = r
    OBVIOUS
  <2> HIDE DEF s
  <2> QED BY <2>1, <2>2 DEF SwitchTo
<1> HIDE DEF s
<1>3. LinkedOnce(s) /\ GroupAgrees(s) /\ (running => OffLists(s, from))
  <2>1. running => OffLists(k, from)  BY <1>0, RunningIsOffLists
  <2> QED BY <1>0, <1>1, <2>1 DEF LinkedOnce, GroupAgrees, OffLists, OnList
<1>4. /\ q \in KernelState /\ LinkedOnce(q) /\ GroupAgrees(q)
      /\ q.cur = to /\ q.prio = k.prio /\ q.error = k.error /\ q.timer = k.timer
      /\ q.nest = k.nest
      /\ q.stat = IF running THEN [k.stat EXCEPT ![from] = "READY"] ELSE k.stat
      /\ \A l \in ListHead : ToSet(q.list[l]) =
             IF running /\ l = k.prio[from] THEN ToSet(k.list[l]) \cup {from}
                                           ELSE ToSet(k.list[l])
  <2>1. CASE running
    <3> DEFINE z == rt_schedule_insert_thread(s, from)
    <3>1. /\ z \in KernelState /\ LinkedOnce(z) /\ GroupAgrees(z)
          /\ z.stat = [s.stat EXCEPT ![from] = "READY"]
          /\ \A l \in ListHead : ToSet(z.list[l]) =
                 IF l = s.prio[from] THEN ToSet(s.list[l]) \cup {from}
                                     ELSE ToSet(s.list[l])
          /\ z.cur = s.cur /\ z.yield = s.yield /\ z.prio = s.prio
          /\ z.error = s.error /\ z.timer = s.timer /\ z.nest = s.nest
      <4>1. /\ s \in KernelState /\ LinkedOnce(s) /\ GroupAgrees(s) /\ from \in Thread
            /\ OffLists(s, from) /\ from # s.cur
        BY <1>0, <1>1, <1>3, <2>1
      <4> HIDE DEF from
      <4> QED BY ZenonT(60), <4>1, InsertThread
    <3>2. q = z
      BY <2>1
    <3> HIDE DEF z, q
    <3> QED BY <1>1, <2>1, <3>1, <3>2
  <2>2. CASE ~running
    BY <1>0, <1>1, <1>3, <2>2
  <2> QED BY <2>1, <2>2
<1> HIDE DEF q
<1>5. /\ m \in KernelState /\ LinkedOnce(m) /\ GroupAgrees(m) /\ OffLists(m, to)
      /\ \A l \in ListHead : ToSet(m.list[l]) = ToSet(q.list[l]) \ {to}
      /\ m.cur = q.cur /\ m.stat = q.stat /\ m.prio = q.prio
      /\ m.error = q.error /\ m.timer = q.timer /\ m.nest = q.nest
  <2>1. \A p \in Prio : OnList(q, to, p) => q.prio[to] = p
    <3>1. \A p \in Prio : to \in ToSet(q.list[p]) => to \in ToSet(k.list[p])
      BY <1>0, <1>4
    <3> QED BY <1>0, <1>4, <3>1 DEF OnList, ReadyListsAgree
  <2> QED BY <1>4, <2>1, RemoveThread
<1> HIDE DEF m
<1>6. /\ r \in KernelState /\ r.stat = T /\ r.list = m.list /\ r.group = m.group
      /\ r.cur = to /\ r.prio = k.prio /\ r.error = k.error
      /\ r.timer = k.timer /\ r.nest = k.nest
  <2>1. T \in [Thread -> Stat]  BY <1>5 DEF KernelState, Stat
  <2> HIDE DEF T
  <2> QED BY <1>4, <1>5, <2>1 DEF KernelState
<1>7. \A t \in Thread : T[t] = IF t = to THEN "RUNNING"
                              ELSE IF k.stat[t] = "RUNNING" THEN "READY" ELSE k.stat[t]
  BY <1>0, <1>4, <1>5 DEF KernelState, OneRunning
<1>8. r.stat = [t \in Thread |-> IF t = to THEN "RUNNING"
                                ELSE IF k.stat[t] = "RUNNING" THEN "READY"
                                ELSE k.stat[t]]
  BY <1>6, <1>7 DEF KernelState
<1> HIDE DEF T, r
<1>9. \A l \in ListHead : ToSet(r.list[l]) =
          (IF running /\ l = k.prio[from] THEN ToSet(k.list[l]) \cup {from}
                                         ELSE ToSet(k.list[l])) \ {to}
  BY <1>4, <1>5, <1>6
<1>10. \A l \in WaitList : ToSet(r.list[l]) = ToSet(k.list[l])
  <2>1. \A l \in WaitList : to \notin ToSet(k.list[l])
    BY <1>0 DEF WaitListsAgree
  <2> QED BY SMTT(30), <1>0, <1>9, <2>1
<1>11. LinkedOnce(r) /\ GroupAgrees(r)
  BY <1>5, <1>6 DEF LinkedOnce, GroupAgrees
<1>12. ReadyListsAgree(r, Off)
  <2>1. ASSUME NEW p \in Prio, NEW t \in ToSet(r.list[p])
        PROVE  r.stat[t] = "READY" /\ r.prio[t] = p
    <3>1. t # to /\ ((running /\ t = from /\ p = k.prio[from]) \/ t \in ToSet(k.list[p]))
      BY <1>0, <1>9, <2>1
    <3>2. t \in Thread
      BY <1>0, <1>6, ListsHoldThreads
    <3> QED BY <1>0, <1>6, <1>8, <3>1, <3>2 DEF ReadyListsAgree
  <2>2. ASSUME NEW t \in Thread \ Off, r.stat[t] = "READY"
        PROVE  OnList(r, t, r.prio[t])
    <3>1. t # to /\ k.stat[t] \in {"READY", "RUNNING"}
      BY <1>8, <2>2
    <3>2. k.stat[t] = "RUNNING" => t = from /\ running
      BY <1>0 DEF OneRunning
    <3>3. k.stat[t] = "READY" => t \in ToSet(k.list[k.prio[t]])
      BY <1>0 DEF ReadyListsAgree, OnList
    <3> QED BY <1>0, <1>6, <1>9, <3>1, <3>2, <3>3 DEF OnList
  <2> QED BY <2>1, <2>2 DEF ReadyListsAgree
<1>13. WaitListsAgree(r)
  <2> SUFFICES ASSUME NEW l \in WaitList, NEW t \in ToSet(r.list[l])
               PROVE  r.stat[t] \in {"SUSPEND", "CLOSE"}
    BY DEF WaitListsAgree
  <2>1. k.stat[t] \in {"SUSPEND", "CLOSE"}
    BY <1>0, <1>10 DEF WaitListsAgree
  <2>2. t \in Thread
    BY <1>0, <1>6, ListsHoldThreads
  <2> QED BY <1>8, <2>1, <2>2
<1>14. OneRunning(r) /\ TimersAgree(r)
  BY <1>0, <1>6, <1>8 DEF OneRunning, TimersAgree, KernelState
<1>15. \A l \in ListHead : ToSet(r.list[l]) \subseteq
           ToSet(k.list[l]) \cup {t \in {k.cur} : k.stat[t] = "RUNNING"}
  BY <1>9
<1> QED BY <1>2, <1>6, <1>8, <1>10, <1>11, <1>12, <1>13, <1>14, <1>15 DEF KernelInv

\* What rt_schedule leaves: the kernel is well formed, only READY and RUNNING
\* have been exchanged, and if it could choose, the best thread runs.
LEMMA SchedulePreserves ==
    ASSUME NEW k \in KernelState, NEW Off, KernelInv(k, Off)
    PROVE  LET r == rt_schedule(k) IN
           /\ r \in KernelState /\ KernelInv(r, Off)
           /\ r.prio = k.prio /\ r.error = k.error /\ r.timer = k.timer /\ r.nest = k.nest
           /\ \A t \in Thread :
                  \/ r.stat[t] = k.stat[t]
                  \/ {r.stat[t], k.stat[t]} \subseteq {"READY", "RUNNING"}
           /\ \A l \in WaitList : ToSet(r.list[l]) = ToSet(k.list[l])
           /\ \A l \in ListHead : ToSet(r.list[l]) \subseteq
                  ToSet(k.list[l]) \cup {t \in {k.cur} : k.stat[t] = "RUNNING"}
           /\ r.cur # k.cur => k.stat[r.cur] = "READY" /\ ~OffLists(k, r.cur)
           /\ \A t \in Thread : t \notin {k.cur, r.cur} => r.stat[t] = k.stat[t]
           /\ \A t \in Thread : OffLists(k, t) /\ k.stat[t] # "RUNNING" => OffLists(r, t)
           /\ k.nest # 0 \/ k.group = {} => r = k
           /\ k.nest = 0 /\ k.group # {} =>
                  /\ r.stat[r.cur] = "RUNNING"
                  /\ \A t \in Thread : r.stat[t] = "READY" /\ OnList(r, t, r.prio[t]) =>
                         r.prio[r.cur] <= r.prio[t]
<1> DEFINE r == rt_schedule(k)
           p == HighestReadyPriority(k)
           to == Head(k.list[p])
<1>0. /\ LinkedOnce(k) /\ GroupAgrees(k) /\ ReadyListsAgree(k, Off)
      /\ WaitListsAgree(k) /\ OneRunning(k) /\ TimersAgree(k)
      /\ k.cur \in Thread
      /\ \A t \in Thread : k.prio[t] \in Prio /\ k.prio[t] \in ListHead
      /\ \A q \in Prio : q \in Int /\ q \in ListHead
      /\ k.group \subseteq Prio
  BY DEF KernelInv, KernelState, Prio, ListHead
<1>1. CASE k.nest # 0 \/ k.group = {}
  BY <1>1 DEF rt_schedule
<1>2. CASE k.nest = 0 /\ k.group # {}
  <2>1. p \in k.group /\ p \in Prio /\ \A q \in k.group : p <= q
    BY <1>0, <1>2, HighestIsLeast
  <2>2. \A t \in Thread : OnList(k, t, k.prio[t]) => p <= k.prio[t]
    <3> SUFFICES ASSUME NEW t \in Thread, OnList(k, t, k.prio[t]) PROVE p <= k.prio[t]
      OBVIOUS
    <3>1. k.list[k.prio[t]] \in Seq(Thread)  BY <1>0 DEF KernelState
    <3>2. k.list[k.prio[t]] # << >>  BY <3>1, EmptyList DEF OnList
    <3> QED BY <1>0, <2>1, <3>2 DEF GroupAgrees
  <2> HIDE DEF p
  <2>3. CASE KeepsRunning(k)
    <3>1. k.stat[k.cur] = "RUNNING" /\ k.prio[k.cur] <= p
      BY <1>0, <2>1, <2>3 DEF KeepsRunning, p
    <3>2. r = rt_schedule_remove_thread(k, k.cur)
      BY <1>2, <2>3 DEF rt_schedule
    <3>3. OffLists(k, k.cur)
      BY <1>0, <3>1, RunningIsOffLists
    <3>4. \A q \in Prio : OnList(k, k.cur, q) => k.prio[k.cur] = q
      BY <1>0, <3>3 DEF OffLists
    <3>5. r = k
      BY <1>0, <3>2, <3>3, <3>4, RemoveThread
    <3> HIDE DEF r
    <3>6. \A t \in Thread : OnList(k, t, k.prio[t]) => k.prio[k.cur] <= k.prio[t]
      BY <1>0, <2>1, <2>2, <3>1
    <3> QED BY <1>2, <3>1, <3>5, <3>6 DEF r
  <2>4. CASE ~KeepsRunning(k)
    <3>1. r = SwitchTo(k, to)
      BY <1>2, <2>4 DEF rt_schedule, p
    <3>2. to \in ToSet(k.list[p])
      <4>1. k.list[p] \in Seq(Thread) /\ k.list[p] # << >>
        BY <1>0, <2>1 DEF KernelState, GroupAgrees
      <4> QED BY <4>1, EmptyList
    <3>3. /\ to \in Thread /\ k.stat[to] = "READY" /\ k.prio[to] = p
          /\ OnList(k, to, k.prio[to])
      BY <1>0, <2>1, <3>2, ListsHoldThreads DEF ReadyListsAgree, OnList
    <3> HIDE DEF to, r
    <3>4. /\ r \in KernelState /\ KernelInv(r, Off)
          /\ r.cur = to /\ r.prio = k.prio /\ r.error = k.error
          /\ r.timer = k.timer /\ r.nest = k.nest
          /\ r.stat = [t \in Thread |-> IF t = to THEN "RUNNING"
                                       ELSE IF k.stat[t] = "RUNNING" THEN "READY"
                                       ELSE k.stat[t]]
          /\ \A l \in WaitList : ToSet(r.list[l]) = ToSet(k.list[l])
          /\ \A l \in ListHead : ToSet(r.list[l]) \subseteq
                 ToSet(k.list[l]) \cup {t \in {k.cur} : k.stat[t] = "RUNNING"}
      BY <3>1, <3>3, SwitchPreserves
    <3>5. ASSUME NEW t \in Thread, r.stat[t] = "READY", OnList(r, t, r.prio[t])
          PROVE  p <= k.prio[t]
      <4>1. CASE k.stat[t] = "RUNNING"
        <5>1. t = k.cur  BY <1>0, <4>1 DEF OneRunning
        <5>2. ~(k.prio[t] < p)  BY <2>4, <4>1, <5>1 DEF KeepsRunning, p
        <5> QED BY <1>0, <2>1, <5>2
      <4>2. CASE k.stat[t] # "RUNNING"
        <5>1. t \in ToSet(r.list[k.prio[t]]) /\ t # k.cur
          <6>1. t \in ToSet(r.list[k.prio[t]])  BY <3>4, <3>5 DEF OnList
          <6>2. t = k.cur => r.stat[t] = k.stat[t] \/ t = to  BY <3>4, <4>2
          <6> QED BY <1>0, <3>4, <3>5, <4>2, <6>1, <6>2 DEF OneRunning
        <5>2. OnList(k, t, k.prio[t])
          BY <1>0, <3>4, <5>1 DEF OnList
        <5> QED BY <2>2, <5>2
      <4> QED BY <4>1, <4>2
    <3>6. ~OffLists(k, to)
      BY <1>0, <3>3 DEF OffLists
    <3>7. ASSUME NEW t \in Thread, OffLists(k, t), k.stat[t] # "RUNNING"
          PROVE  OffLists(r, t)
      BY <3>4, <3>7 DEF OffLists, OnList
    <3>8. \A t \in Thread : t \notin {k.cur, r.cur} => r.stat[t] = k.stat[t]
      BY <1>0, <3>4 DEF OneRunning
    <3> QED BY <1>0, <1>2, <3>3, <3>4, <3>5, <3>6, <3>7, <3>8 DEF r
  <2> QED BY <2>3, <2>4
<1> QED BY <1>1, <1>2

-----------------------------------------------------------------------------
(* The steps from which the operations on a thread are put together.       *)

\* The invariant does not look at the flags, the errors and the lock, and a
\* timer fewer does not disturb it.
LEMMA SameLists ==
    ASSUME NEW k \in KernelState, NEW r \in KernelState, NEW Off, KernelInv(k, Off),
           NEW Off2, Off \subseteq Off2,
           r.cur = k.cur, r.stat = k.stat, r.prio = k.prio, r.list = k.list,
           r.group = k.group, r.timer \subseteq k.timer
    PROVE  KernelInv(r, Off2)
<1>1. LinkedOnce(r) /\ GroupAgrees(r) /\ WaitListsAgree(r)
  BY DEF KernelInv, LinkedOnce, GroupAgrees, WaitListsAgree
<1>2. ReadyListsAgree(r, Off2)
  BY DEF KernelInv, ReadyListsAgree, OnList
<1>3. OneRunning(r) /\ TimersAgree(r)
  BY DEF KernelInv, OneRunning, TimersAgree
<1> QED BY <1>1, <1>2, <1>3 DEF KernelInv

\* The state and the priority of a thread that is linked nowhere, not current
\* and without a timer may change, except to READY or RUNNING.
LEMMA ChangeUnlinked ==
    ASSUME NEW k \in KernelState, NEW r \in KernelState, NEW Off, KernelInv(k, Off),
           NEW t \in Thread, OffLists(k, t), t \notin r.timer,
           NEW x \in {"NONE", "INIT", "SUSPEND", "CLOSE"},
           r.stat = [k.stat EXCEPT ![t] = x],
           \A u \in Thread : u # t => r.prio[u] = k.prio[u],
           r.cur = k.cur, r.list = k.list, r.group = k.group, r.timer \subseteq k.timer
    PROVE  KernelInv(r, Off \ {t})
<1>0. \A u \in Thread : r.stat[u] = IF u = t THEN x ELSE k.stat[u]
  BY DEF KernelState
<1>1. LinkedOnce(r) /\ GroupAgrees(r)
  BY DEF KernelInv, LinkedOnce, GroupAgrees
<1>2. \A l \in ListHead : t \notin ToSet(r.list[l])
  BY DEF OffLists, OnList
<1>3. ReadyListsAgree(r, Off \ {t})
  <2>1. ASSUME NEW p \in Prio, NEW u \in ToSet(r.list[p])
        PROVE  r.stat[u] = "READY" /\ r.prio[u] = p
    <3>1. u # t /\ u \in Thread
      BY <1>2, ListsHoldThreads DEF ListHead
    <3> QED BY <1>0, <3>1 DEF KernelInv, ReadyListsAgree
  <2>2. ASSUME NEW u \in Thread \ (Off \ {t}), r.stat[u] = "READY"
        PROVE  OnList(r, u, r.prio[u])
    <3>1. u # t /\ u \notin Off  BY <1>0, <2>2
    <3> QED BY <1>0, <2>2, <3>1 DEF KernelInv, ReadyListsAgree, OnList
  <2> QED BY <2>1, <2>2 DEF ReadyListsAgree
<1>4. WaitListsAgree(r)
  <2> SUFFICES ASSUME NEW l \in WaitList, NEW u \in ToSet(r.list[l])
               PROVE  r.stat[u] \in {"SUSPEND", "CLOSE"}
    BY DEF WaitListsAgree
  <2>1. u # t /\ u \in Thread
    BY <1>2, ListsHoldThreads DEF ListHead
  <2> QED BY <1>0, <2>1 DEF KernelInv, WaitListsAgree
<1>5. OneRunning(r) /\ TimersAgree(r)
  BY <1>0 DEF KernelInv, OneRunning, TimersAgree, KernelState
<1> QED BY <1>1, <1>3, <1>4, <1>5 DEF KernelInv

\* rt_schedule_remove_thread puts a thread into the hands of its caller.
LEMMA TakeThread ==
    ASSUME NEW k \in KernelState, NEW Off, KernelInv(k, Off), NEW t \in Thread
    PROVE  LET r == rt_schedule_remove_thread(k, t) IN
           /\ r \in KernelState /\ KernelInv(r, Off \cup {t}) /\ OffLists(r, t)
           /\ \A l \in ListHead : ToSet(r.list[l]) = ToSet(k.list[l]) \ {t}
           /\ r.cur = k.cur /\ r.stat = k.stat /\ r.yield = k.yield
           /\ r.prio = k.prio /\ r.error = k.error /\ r.timer = k.timer
           /\ r.nest = k.nest
<1> DEFINE r == rt_schedule_remove_thread(k, t)
<1>1. /\ r \in KernelState /\ LinkedOnce(r) /\ GroupAgrees(r) /\ OffLists(r, t)
      /\ \A l \in ListHead : ToSet(r.list[l]) = ToSet(k.list[l]) \ {t}
      /\ r.cur = k.cur /\ r.stat = k.stat /\ r.yield = k.yield
      /\ r.prio = k.prio /\ r.error = k.error /\ r.timer = k.timer
      /\ r.nest = k.nest
  <2>1. /\ LinkedOnce(k) /\ GroupAgrees(k)
        /\ \A p \in Prio : OnList(k, t, p) => k.prio[t] = p
    BY DEF KernelInv, ReadyListsAgree, OnList
  <2> HIDE DEF r
  <2> QED BY <2>1, RemoveThread DEF r
<1> HIDE DEF r
<1>2. ReadyListsAgree(r, Off \cup {t})
  <2>1. ASSUME NEW u \in Thread \ (Off \cup {t}), r.stat[u] = "READY"
        PROVE  OnList(r, u, r.prio[u])
    <3>1. OnList(k, u, k.prio[u]) /\ k.prio[u] \in ListHead
      BY <1>1, <2>1 DEF KernelInv, ReadyListsAgree, KernelState, ListHead
    <3> QED BY <1>1, <2>1, <3>1 DEF OnList
  <2>2. \A p \in Prio : \A u \in ToSet(r.list[p]) : r.stat[u] = "READY" /\ r.prio[u] = p
    BY <1>1 DEF KernelInv, ReadyListsAgree, ListHead
  <2> QED BY <2>1, <2>2 DEF ReadyListsAgree
<1>3. WaitListsAgree(r) /\ OneRunning(r) /\ TimersAgree(r)
  BY <1>1 DEF KernelInv, WaitListsAgree, OneRunning, TimersAgree, ListHead
<1> QED BY <1>1, <1>2, <1>3 DEF KernelInv, r

\* The section of rt_thread_suspend.
LEMMA SuspendPreserves ==
    ASSUME NEW k \in KernelState, NEW Off, KernelInv(k, Off), NEW t \in Thread
    PROVE  LET r == rt_thread_suspend_section(k, t) IN
           /\ r \in KernelState /\ KernelInv(r, Off) /\ OffLists(r, t)
           /\ \A l \in ListHead : ToSet(r.list[l]) = ToSet(k.list[l]) \ {t}
           /\ r.stat = [k.stat EXCEPT ![t] = "SUSPEND"]
           /\ r.timer = k.timer \ {t}
           /\ r.cur = k.cur /\ r.yield = k.yield
           /\ r.prio = k.prio /\ r.error = k.error /\ r.nest = k.nest
<1> DEFINE q == rt_schedule_remove_thread(k, t)
           T == [k.stat EXCEPT ![t] = "SUSPEND"]
           r == rt_thread_suspend_section(k, t)
<1>1. /\ q \in KernelState /\ KernelInv(q, Off \cup {t}) /\ OffLists(q, t)
      /\ \A l \in ListHead : ToSet(q.list[l]) = ToSet(k.list[l]) \ {t}
      /\ q.cur = k.cur /\ q.stat = k.stat /\ q.yield = k.yield
      /\ q.prio = k.prio /\ q.error = k.error /\ q.timer = k.timer
      /\ q.nest = k.nest
  <2> HIDE DEF q
  <2> QED BY TakeThread DEF q
<1>2. T \in [Thread -> Stat]
  BY DEF KernelState, Stat
<1>3. r = [q EXCEPT !.stat = T, !.timer = k.timer \ {t}]
  BY <1>1 DEF rt_thread_suspend_section, rt_timer_stop, KernelState
<1> HIDE DEF q, r
<1>4. /\ r \in KernelState /\ r.list = q.list /\ r.group = q.group /\ r.stat = T
      /\ r.timer = k.timer \ {t} /\ r.cur = k.cur /\ r.yield = k.yield
      /\ r.prio = k.prio /\ r.error = k.error /\ r.nest = k.nest
  <2> HIDE DEF T
  <2> QED BY <1>1, <1>2, <1>3 DEF KernelState
<1>5. KernelInv(r, (Off \cup {t}) \ {t})
  BY ZenonT(60), <1>1, <1>4, ChangeUnlinked
<1>6. KernelInv(r, Off)
  BY <1>4, <1>5, SameLists
<1>7. OffLists(r, t)
  BY <1>1, <1>4 DEF OffLists, OnList
<1> QED BY <1>1, <1>4, <1>6, <1>7 DEF r

\* A thread that is not ready leaves whatever list it waits on.
LEMMA UnlinkPreserves ==
    ASSUME NEW k \in KernelState, NEW Off, KernelInv(k, Off), NEW t \in Thread,
           k.stat[t] # "READY"
    PROVE  LET r == rt_list_remove(k, t) IN
           /\ r \in KernelState /\ KernelInv(r, Off) /\ OffLists(r, t)
           /\ \A l \in ListHead : ToSet(r.list[l]) = ToSet(k.list[l]) \ {t}
           /\ OffLists(k, t) => r.list = k.list
           /\ r.cur = k.cur /\ r.stat = k.stat /\ r.yield = k.yield
           /\ r.prio = k.prio /\ r.error = k.error /\ r.timer = k.timer
           /\ r.group = k.group /\ r.nest = k.nest
<1> DEFINE r == rt_list_remove(k, t)
<1>1. /\ r \in KernelState /\ LinkedOnce(r)
      /\ \A l \in ListHead : /\ ToSet(r.list[l]) = ToSet(k.list[l]) \ {t}
                             /\ t \notin ToSet(k.list[l]) => r.list[l] = k.list[l]
      /\ r.cur = k.cur /\ r.stat = k.stat /\ r.yield = k.yield
      /\ r.prio = k.prio /\ r.error = k.error /\ r.timer = k.timer
      /\ r.group = k.group /\ r.nest = k.nest
  <2>1. LinkedOnce(k)  BY DEF KernelInv
  <2> HIDE DEF r
  <2> QED BY <2>1, ListRemove DEF r
<1> HIDE DEF r
<1>2. \A p \in Prio : p \in ListHead /\ r.list[p] = k.list[p]
  BY <1>1 DEF KernelInv, ReadyListsAgree, ListHead
<1>3. GroupAgrees(r) /\ ReadyListsAgree(r, Off)
  <2>1. \A u \in Thread : k.prio[u] \in Prio  BY DEF KernelState
  <2> QED BY <1>1, <1>2, <2>1 DEF KernelInv, GroupAgrees, ReadyListsAgree, OnList
<1>4. WaitListsAgree(r) /\ OneRunning(r) /\ TimersAgree(r)
  BY <1>1 DEF KernelInv, WaitListsAgree, OneRunning, TimersAgree, ListHead
<1>5. OffLists(k, t) => r.list = k.list
  <2> SUFFICES ASSUME OffLists(k, t) PROVE r.list = k.list
    OBVIOUS
  <2>1. \A l \in ListHead : r.list[l] = k.list[l]
    BY <1>1 DEF OffLists, OnList
  <2> QED BY <1>1, <2>1 DEF KernelState
<1>6. OffLists(r, t)
  BY <1>1 DEF OffLists, OnList
<1> QED BY <1>1, <1>3, <1>4, <1>5, <1>6 DEF KernelInv, r

\* A thread that waits without a timer and is unlinked becomes ready, or runs
\* on when it had not yet left the processor.
LEMMA MakeReadyPreserves ==
    ASSUME NEW k \in KernelState, NEW Off, KernelInv(k, Off), NEW t \in Thread,
           OffLists(k, t), t \notin k.timer
    PROVE  LET r == rt_schedule_insert_thread(k, t) IN
           /\ r \in KernelState /\ KernelInv(r, Off)
           /\ r.stat = [k.stat EXCEPT ![t] = IF t = k.cur THEN "RUNNING" ELSE "READY"]
           /\ \A l \in ListHead : ToSet(r.list[l]) =
                  IF l = k.prio[t] /\ t # k.cur THEN ToSet(k.list[l]) \cup {t}
                                              ELSE ToSet(k.list[l])
           /\ r.cur = k.cur /\ r.yield = k.yield /\ r.prio = k.prio
           /\ r.error = k.error /\ r.timer = k.timer /\ r.nest = k.nest
<1> DEFINE r == rt_schedule_insert_thread(k, t)
<1>1. /\ r \in KernelState /\ LinkedOnce(r) /\ GroupAgrees(r)
      /\ t = k.cur => /\ r.list = k.list /\ r.group = k.group
                      /\ r.stat = [k.stat EXCEPT ![t] = "RUNNING"]
      /\ t # k.cur => /\ r.stat = [k.stat EXCEPT ![t] = "READY"]
                      /\ \A l \in ListHead :
                             ToSet(r.list[l]) =
                                 IF l = k.prio[t] THEN ToSet(k.list[l]) \cup {t}
                                                  ELSE ToSet(k.list[l])
      /\ r.cur = k.cur /\ r.yield = k.yield /\ r.prio = k.prio
      /\ r.error = k.error /\ r.timer = k.timer /\ r.nest = k.nest
  <2>1. LinkedOnce(k) /\ GroupAgrees(k)  BY DEF KernelInv
  <2> HIDE DEF r
  <2> QED BY <2>1, InsertThread DEF r
<1> HIDE DEF r
<1>2. /\ r.stat = [k.stat EXCEPT ![t] = IF t = k.cur THEN "RUNNING" ELSE "READY"]
      /\ \A l \in ListHead : ToSet(r.list[l]) =
             IF l = k.prio[t] /\ t # k.cur THEN ToSet(k.list[l]) \cup {t}
                                         ELSE ToSet(k.list[l])
  BY <1>1
<1>3. /\ \A u \in Thread : r.stat[u] = IF u # t THEN k.stat[u]
                                     ELSE IF t = k.cur THEN "RUNNING" ELSE "READY"
      /\ \A l \in ListHead : t \notin ToSet(k.list[l])
      /\ k.prio[t] \in Prio /\ k.cur \in Thread
      /\ \A p \in Prio : p \in ListHead
      /\ \A l \in WaitList : l \in ListHead /\ l \notin Prio
  BY <1>2, KernelAssumption DEF KernelState, OffLists, OnList, ListHead
<1>4. ReadyListsAgree(r, Off)
  <2>1. ASSUME NEW p \in Prio, NEW u \in ToSet(r.list[p])
        PROVE  r.stat[u] = "READY" /\ r.prio[u] = p
    <3>1. u \in Thread
      BY <1>1, <1>3, ListsHoldThreads
    <3>2. u \in ToSet(k.list[p]) \/ (p = k.prio[t] /\ t # k.cur /\ u = t)
      <4>1. ToSet(r.list[p]) = IF p = k.prio[t] /\ t # k.cur
                               THEN ToSet(k.list[p]) \cup {t} ELSE ToSet(k.list[p])
        BY <1>2, <1>3
      <4> QED BY <4>1, <2>1
    <3> QED BY <1>1, <1>3, <3>1, <3>2 DEF KernelInv, ReadyListsAgree
  <2>2. ASSUME NEW u \in Thread \ Off, r.stat[u] = "READY"
        PROVE  OnList(r, u, r.prio[u])
    <3>0. r.prio[u] \in ListHead /\ k.prio[u] = r.prio[u]  BY <1>1, <1>3 DEF KernelState
    <3>1. CASE u = t
      <4>1. t # k.cur  BY <1>3, <2>2, <3>1
      <4> QED BY <1>2, <3>0, <3>1, <4>1 DEF OnList
    <3>2. CASE u # t
      <4>1. OnList(k, u, k.prio[u])
        BY <1>3, <2>2, <3>2 DEF KernelInv, ReadyListsAgree
      <4> QED BY <1>2, <3>0, <4>1 DEF OnList
    <3> QED BY <3>1, <3>2
  <2> QED BY <2>1, <2>2 DEF ReadyListsAgree
<1>5. WaitListsAgree(r)
  <2> SUFFICES ASSUME NEW l \in WaitList, NEW u \in ToSet(r.list[l])
               PROVE  r.stat[u] \in {"SUSPEND", "CLOSE"}
    BY DEF WaitListsAgree
  <2>1. u \in ToSet(k.list[l]) /\ u # t /\ u \in Thread
    BY ZenonT(60), <1>1, <1>2, <1>3, ListsHoldThreads
  <2> QED BY <1>3, <2>1 DEF KernelInv, WaitListsAgree
<1>6. OneRunning(r) /\ TimersAgree(r)
  <2>1. k.timer \subseteq Thread  BY DEF KernelState
  <2> QED BY <1>1, <1>3, <2>1 DEF KernelInv, OneRunning, TimersAgree
<1> QED BY <1>1, <1>2, <1>4, <1>5, <1>6 DEF KernelInv, r

\* A suspended thread, its timer stopped, is unlinked and made ready.
LEMMA WakePreserves ==
    ASSUME NEW k \in KernelState, NEW Off, KernelInv(k, Off), NEW t \in Thread,
           k.stat[t] = "SUSPEND", t \notin k.timer
    PROVE  LET r == rt_schedule_insert_thread(rt_list_remove(k, t), t) IN
           /\ r \in KernelState /\ KernelInv(r, Off)
           /\ r.stat = [k.stat EXCEPT ![t] = IF t = k.cur THEN "RUNNING" ELSE "READY"]
           /\ \A l \in ListHead : ToSet(r.list[l]) =
                  IF l = k.prio[t] /\ t # k.cur THEN ToSet(k.list[l]) \cup {t}
                                              ELSE ToSet(k.list[l]) \ {t}
           /\ r.cur = k.cur /\ r.prio = k.prio /\ r.timer = k.timer /\ r.nest = k.nest
<1> DEFINE s == rt_list_remove(k, t)
           r == rt_schedule_insert_thread(s, t)
<1>1. /\ s \in KernelState /\ KernelInv(s, Off) /\ OffLists(s, t)
      /\ \A l \in ListHead : ToSet(s.list[l]) = ToSet(k.list[l]) \ {t}
      /\ s.cur = k.cur /\ s.stat = k.stat /\ s.yield = k.yield
      /\ s.prio = k.prio /\ s.error = k.error /\ s.timer = k.timer
      /\ s.nest = k.nest
  <2>1. k.stat[t] # "READY"  OBVIOUS
  <2> HIDE DEF s
  <2> QED BY <2>1, UnlinkPreserves DEF s
<1> HIDE DEF s
<1>2. /\ r \in KernelState /\ KernelInv(r, Off)
      /\ r.stat = [s.stat EXCEPT ![t] = IF t = s.cur THEN "RUNNING" ELSE "READY"]
      /\ \A l \in ListHead : ToSet(r.list[l]) =
             IF l = s.prio[t] /\ t # s.cur THEN ToSet(s.list[l]) \cup {t}
                                         ELSE ToSet(s.list[l])
      /\ r.cur = s.cur /\ r.yield = s.yield /\ r.prio = s.prio
      /\ r.error = s.error /\ r.timer = s.timer /\ r.nest = s.nest
  <2>1. t \notin s.timer  BY <1>1
  <2> HIDE DEF r
  <2> QED BY <1>1, <2>1, MakeReadyPreserves DEF r
<1> HIDE DEF r
<1>3. \A l \in ListHead : ToSet(r.list[l]) =
          IF l = k.prio[t] /\ t # k.cur THEN ToSet(k.list[l]) \cup {t}
                                      ELSE ToSet(k.list[l]) \ {t}
  <2> SUFFICES ASSUME NEW l \in ListHead
               PROVE  ToSet(r.list[l]) =
                          IF l = k.prio[t] /\ t # k.cur THEN ToSet(k.list[l]) \cup {t}
                                                      ELSE ToSet(k.list[l]) \ {t}
    OBVIOUS
  <2>1. s.prio = k.prio /\ s.cur = k.cur /\ ToSet(s.list[l]) = ToSet(k.list[l]) \ {t}
    BY <1>1
  <2>2. ToSet(r.list[l]) = IF l = s.prio[t] /\ t # s.cur THEN ToSet(s.list[l]) \cup {t}
                                                       ELSE ToSet(s.list[l])
    BY <1>2
  <2> QED BY <2>1, <2>2
<1> QED BY <1>1, <1>2, <1>3 DEF r, s

\* A thread that waits or is dead is linked into a list that is no ready list.
LEMMA LinkAnywhere ==
    ASSUME NEW k \in KernelState, NEW Off, KernelInv(k, Off), NEW t \in Thread,
           OffLists(k, t), k.stat[t] \in {"SUSPEND", "CLOSE"}, NEW w \in WaitList,
           NEW s \in Seq(Thread), IsInjective(s), ToSet(s) = ToSet(k.list[w]) \cup {t}
    PROVE  LET r == [k EXCEPT !.list[w] = s] IN
           /\ r \in KernelState /\ KernelInv(r, Off)
           /\ \A l \in ListHead : r.list[l] = IF l = w THEN s ELSE k.list[l]
           /\ \A l \in ListHead : ToSet(r.list[l]) =
                  IF l = w THEN ToSet(k.list[l]) \cup {t} ELSE ToSet(k.list[l])
           /\ r.cur = k.cur /\ r.stat = k.stat /\ r.yield = k.yield
           /\ r.prio = k.prio /\ r.error = k.error /\ r.timer = k.timer
           /\ r.group = k.group /\ r.nest = k.nest
<1> DEFINE L == [k.list EXCEPT ![w] = s]
           r == [k EXCEPT !.list = L]
<1>1. w \in ListHead /\ w \notin Prio
  BY KernelAssumption DEF ListHead
<1>2. \A l \in ListHead : L[l] = IF l = w THEN s ELSE k.list[l]
  BY <1>1 DEF KernelState
<1>3. L \in [ListHead -> Seq(Thread)]
  BY <1>1 DEF KernelState
<1>4. r = [k EXCEPT !.list[w] = s]
  BY DEF KernelState
<1> HIDE DEF L
<1>5. /\ r \in KernelState /\ r.list = L
      /\ r.cur = k.cur /\ r.stat = k.stat /\ r.yield = k.yield
      /\ r.prio = k.prio /\ r.error = k.error /\ r.timer = k.timer
      /\ r.group = k.group /\ r.nest = k.nest
  BY <1>3 DEF KernelState
<1> HIDE DEF r
<1>6. \A l \in ListHead : ToSet(r.list[l]) =
          IF l = w THEN ToSet(k.list[l]) \cup {t} ELSE ToSet(k.list[l])
  BY <1>2, <1>5
<1>7. LinkedOnce(r)
  <2>1. ASSUME NEW l \in ListHead PROVE IsInjective(r.list[l])
    <3>1. CASE l = w  BY <3>1, <1>2, <1>5
    <3>2. CASE l # w
      <4>1. r.list[l] = k.list[l]  BY <3>2, <1>2, <1>5
      <4> QED BY <4>1 DEF KernelInv, LinkedOnce
    <3> QED BY <3>1, <3>2
  <2>2. ASSUME NEW l \in ListHead, NEW m \in ListHead, l # m
        PROVE  ToSet(r.list[l]) \cap ToSet(r.list[m]) = {}
    <3>1. \A x \in ListHead : t \notin ToSet(k.list[x])
      BY DEF OffLists, OnList
    <3>2. ToSet(k.list[l]) \cap ToSet(k.list[m]) = {}
      BY <2>2 DEF KernelInv, LinkedOnce
    <3> QED BY <1>6, <2>2, <3>1, <3>2
  <2> QED BY <2>1, <2>2 DEF LinkedOnce
<1>8. \A p \in Prio : p \in ListHead /\ r.list[p] = k.list[p]
  BY <1>1, <1>2, <1>5 DEF ListHead
<1>9. ReadyListsAgree(r, Off) /\ GroupAgrees(r)
  <2>1. \A u \in Thread : k.prio[u] \in Prio  BY DEF KernelState
  <2> QED BY <1>5, <1>8, <2>1 DEF KernelInv, ReadyListsAgree, GroupAgrees, OnList
<1>10. WaitListsAgree(r)
  BY <1>5, <1>6 DEF KernelInv, WaitListsAgree, ListHead
<1>11. OneRunning(r) /\ TimersAgree(r)
  BY <1>5 DEF KernelInv, OneRunning, TimersAgree
<1> QED BY <1>2, <1>4, <1>5, <1>6, <1>7, <1>9, <1>10, <1>11 DEF KernelInv

\* The defunct list: at the head.
LEMMA LinkPreserves ==
    ASSUME NEW k \in KernelState, NEW Off, KernelInv(k, Off), NEW t \in Thread,
           OffLists(k, t), k.stat[t] \in {"SUSPEND", "CLOSE"}, NEW w \in WaitList
    PROVE  LET r == rt_list_insert_after(k, w, t) IN
           /\ r \in KernelState /\ KernelInv(r, Off)
           /\ \A l \in ListHead : ToSet(r.list[l]) =
                  IF l = w THEN ToSet(k.list[l]) \cup {t} ELSE ToSet(k.list[l])
           /\ r.cur = k.cur /\ r.stat = k.stat /\ r.yield = k.yield
           /\ r.prio = k.prio /\ r.error = k.error /\ r.timer = k.timer
           /\ r.group = k.group /\ r.nest = k.nest
<1> DEFINE s == <<t>> \o k.list[w]
<1>1. /\ w \in ListHead /\ k.list[w] \in Seq(Thread)
      /\ IsInjective(k.list[w]) /\ t \notin ToSet(k.list[w])
  BY DEF KernelState, ListHead, KernelInv, LinkedOnce, OffLists, OnList
<1>2. /\ s \in Seq(Thread) /\ IsInjective(s) /\ ToSet(s) = ToSet(k.list[w]) \cup {t}
  BY <1>1, PrependElements
<1>3. rt_list_insert_after(k, w, t) = [k EXCEPT !.list[w] = s]
  BY <1>1 DEF rt_list_insert_after, KernelState
<1> HIDE DEF s
<1> QED BY SMTT(30), <1>2, <1>3, LinkAnywhere

\* rt_ipc_list_suspend finds a place for a waiter among those of its list.
LEMMA PrioPositionIsPlace ==
    ASSUME NEW k \in KernelState, NEW s \in Seq(Thread), NEW t \in Thread
    PROVE  LET i == PrioPosition(k, s, t) IN
           /\ i \in 1 .. Len(s) + 1
           /\ \A j \in 1 .. i - 1 : k.prio[s[j]] <= k.prio[t]
           /\ i <= Len(s) => k.prio[t] < k.prio[s[i]]
<1> DEFINE B == {i \in 1 .. Len(s) : k.prio[t] < k.prio[s[i]]}
           Place(i) == /\ \A j \in 1 .. i - 1 : k.prio[s[j]] <= k.prio[t]
                       /\ i <= Len(s) => k.prio[t] < k.prio[s[i]]
<1>1. /\ Len(s) \in Nat /\ k.prio[t] \in Int
      /\ \A j \in 1 .. Len(s) : k.prio[s[j]] \in Int
  BY LenProperties DEF KernelState, Prio
<1>2. PICK i \in 1 .. Len(s) + 1 :
          (\A j \in 1 .. i - 1 : j \notin B) /\ (i <= Len(s) => i \in B)
  <2>1. B \in SUBSET (1 .. Len(s))  OBVIOUS
  <2> HIDE DEF B
  <2> QED BY <2>1, PlaceExists
<1>3. ASSUME NEW j \in 1 .. i - 1 PROVE k.prio[s[j]] <= k.prio[t]
  <2>1. j \in 1 .. Len(s) /\ j \notin B  BY <1>1, <1>2
  <2> QED BY <1>1, <2>1
<1>4. Place(i)
  BY <1>2, <1>3
<1> QED BY <1>4 DEF PrioPosition

\* At that place the list stays in order.
LEMMA InsertOrder ==
    ASSUME NEW k \in KernelState, NEW s \in Seq(Thread), NEW t \in Thread,
           SortedBy(s, k.prio)
    PROVE  SortedBy(InsertAt(s, PrioPosition(k, s, t), t), k.prio)
<1> DEFINE i == PrioPosition(k, s, t)
<1>1. /\ i \in 1 .. Len(s) + 1
      /\ \A j \in 1 .. i - 1 : k.prio[s[j]] <= k.prio[t]
      /\ i <= Len(s) => k.prio[t] < k.prio[s[i]]
  BY PrioPositionIsPlace
<1>2. \A u \in ToSet(s) \cup {t} : k.prio[u] \in Int
  <2>1. ToSet(s) \subseteq Thread  BY LenProperties DEF ToSet
  <2> QED BY <2>1 DEF KernelState, Prio
<1> HIDE DEF i
<1>3. SortedBy(InsertAt(s, i, t), k.prio)
  BY <1>1, <1>2, InsertInOrder
<1> QED BY <1>3 DEF i

\* The priority of a thread that is linked nowhere may change.
LEMMA ChangePrioUnlinked ==
    ASSUME NEW k \in KernelState, NEW r \in KernelState, NEW Off, KernelInv(k, Off),
           NEW t \in Thread, OffLists(k, t), t \in Off \/ k.stat[t] # "READY",
           \A u \in Thread : u # t => r.prio[u] = k.prio[u],
           r.stat = k.stat, r.cur = k.cur, r.list = k.list, r.group = k.group,
           r.timer = k.timer
    PROVE  KernelInv(r, Off)
<1>1. LinkedOnce(r) /\ GroupAgrees(r) /\ WaitListsAgree(r)
  BY DEF KernelInv, LinkedOnce, GroupAgrees, WaitListsAgree
<1>2. ReadyListsAgree(r, Off)
  <2>1. \A p \in Prio : \A u \in ToSet(r.list[p]) : u \in Thread /\ u # t
    BY ListsHoldThreads DEF OffLists, OnList, ListHead
  <2> QED BY <2>1 DEF KernelInv, ReadyListsAgree, OnList
<1>3. OneRunning(r) /\ TimersAgree(r)
  BY DEF KernelInv, OneRunning, TimersAgree
<1> QED BY <1>1, <1>2, <1>3 DEF KernelInv

\* rt_thread_control moves a ready thread to the list of its new priority.
LEMMA ChangePriorityPreserves ==
    ASSUME NEW k \in KernelState, NEW Off, KernelInv(k, Off), NEW t \in Thread \ Off,
           NEW p \in Prio, t # k.cur, k.stat[t] = "READY" \/ OffLists(k, t)
    PROVE  LET r == rt_thread_change_priority(k, t, p) IN
           /\ r \in KernelState /\ KernelInv(r, Off)
           /\ r.prio = [k.prio EXCEPT ![t] = p]
           /\ \A l \in WaitList : ToSet(r.list[l]) = ToSet(k.list[l])
           /\ \A u \in Thread : u # t /\ OffLists(k, u) => OffLists(r, u)
           /\ r.cur = k.cur /\ r.stat = k.stat /\ r.timer = k.timer /\ r.nest = k.nest
<1> DEFINE P == [k.prio EXCEPT ![t] = p]
           r == rt_thread_change_priority(k, t, p)
<1>1. P \in [Thread -> Prio] /\ \A u \in Thread : P[u] = IF u = t THEN p ELSE k.prio[u]
  BY DEF KernelState
<1>2. CASE k.stat[t] = "READY"
  <2> DEFINE q == rt_schedule_remove_thread(k, t)
             s == [q EXCEPT !.prio = P]
  <2>1. /\ q \in KernelState /\ KernelInv(q, Off \cup {t}) /\ OffLists(q, t)
        /\ \A l \in ListHead : ToSet(q.list[l]) = ToSet(k.list[l]) \ {t}
        /\ q.cur = k.cur /\ q.stat = k.stat /\ q.prio = k.prio /\ q.timer = k.timer
        /\ q.nest = k.nest
    <3> HIDE DEF q
    <3> QED BY TakeThread DEF q
  <2>2. r = rt_schedule_insert_thread(s, t)
    BY <1>2, <2>1 DEF rt_thread_change_priority, KernelState
  <2> HIDE DEF q, r
  <2>3. /\ s \in KernelState /\ s.prio = P /\ s.cur = k.cur /\ s.stat = k.stat
        /\ s.list = q.list /\ s.group = q.group /\ s.timer = k.timer /\ s.nest = k.nest
    <3> HIDE DEF P
    <3> QED BY <1>1, <2>1 DEF KernelState
  <2> HIDE DEF s, P
  <2>4. KernelInv(s, Off \cup {t})
    <3>1. \A u \in Thread : u # t => s.prio[u] = q.prio[u]  BY <1>1, <2>1, <2>3
    <3> QED BY <2>1, <2>3, <3>1, ChangePrioUnlinked
  <2>5. OffLists(s, t) /\ t \notin s.timer
    BY <1>2, <2>1, <2>3 DEF OffLists, OnList, KernelInv, TimersAgree
  <2>6. /\ r \in KernelState /\ KernelInv(r, Off \cup {t})
        /\ r.stat = [s.stat EXCEPT ![t] = IF t = s.cur THEN "RUNNING" ELSE "READY"]
        /\ \A l \in ListHead : ToSet(r.list[l]) =
               IF l = s.prio[t] /\ t # s.cur THEN ToSet(s.list[l]) \cup {t}
                                           ELSE ToSet(s.list[l])
        /\ r.cur = s.cur /\ r.prio = s.prio /\ r.timer = s.timer /\ r.nest = s.nest
    BY ZenonT(60), <2>2, <2>3, <2>4, <2>5, MakeReadyPreserves
  <2>7. r.stat = k.stat
    BY <1>2, <2>3, <2>6 DEF KernelState
  <2>8. \A l \in ListHead : ToSet(r.list[l]) =
            IF l = p THEN (ToSet(k.list[l]) \ {t}) \cup {t} ELSE ToSet(k.list[l]) \ {t}
    <3> SUFFICES ASSUME NEW l \in ListHead
                 PROVE  ToSet(r.list[l]) = IF l = p THEN (ToSet(k.list[l]) \ {t}) \cup {t}
                                           ELSE ToSet(k.list[l]) \ {t}
      OBVIOUS
    <3>1. s.prio[t] = p /\ t # s.cur /\ ToSet(s.list[l]) = ToSet(k.list[l]) \ {t}
      BY <1>1, <2>1, <2>3
    <3> QED BY <2>6, <3>1
  <2>9. KernelInv(r, Off)
    <3>1. OnList(r, t, r.prio[t])
      BY <1>1, <2>3, <2>6, <2>8 DEF OnList, ListHead
    <3> QED BY <2>6, <3>1 DEF KernelInv, ReadyListsAgree
  <2>10. \A l \in WaitList : ToSet(r.list[l]) = ToSet(k.list[l])
    <3> SUFFICES ASSUME NEW l \in WaitList PROVE ToSet(r.list[l]) = ToSet(k.list[l])
      OBVIOUS
    <3>1. t \notin ToSet(k.list[l])
      BY <1>2 DEF KernelInv, WaitListsAgree
    <3>2. l \in ListHead /\ l # p
      BY KernelAssumption DEF ListHead
    <3> QED BY <2>8, <3>1, <3>2
  <2>11. \A u \in Thread : u # t /\ OffLists(k, u) => OffLists(r, u)
    <3> SUFFICES ASSUME NEW u \in Thread, u # t, OffLists(k, u), NEW l \in ListHead
                 PROVE  u \notin ToSet(r.list[l])
      BY DEF OffLists, OnList
    <3>1. u \notin ToSet(k.list[l])  BY DEF OffLists, OnList
    <3> QED BY <2>8, <3>1
  <2> QED BY <2>3, <2>6, <2>7, <2>9, <2>10, <2>11 DEF r, P
<1>3. CASE k.stat[t] # "READY"
  <2>1. r = [k EXCEPT !.prio = P]
    BY <1>3 DEF rt_thread_change_priority, KernelState
  <2> HIDE DEF r
  <2>2. /\ r \in KernelState /\ r.prio = P /\ r.cur = k.cur /\ r.stat = k.stat
        /\ r.list = k.list /\ r.group = k.group /\ r.timer = k.timer /\ r.nest = k.nest
    <3> HIDE DEF P
    <3> QED BY <1>1, <2>1 DEF KernelState
  <2>3. KernelInv(r, Off)
    <3>1. \A u \in Thread : u # t => r.prio[u] = k.prio[u]  BY <1>1, <2>2
    <3>2. OffLists(k, t) /\ t \in Thread  BY <1>3
    <3> HIDE DEF P
    <3> QED BY <1>3, <2>2, <3>1, <3>2, ChangePrioUnlinked
  <2>4. \A u \in Thread : OffLists(k, u) => OffLists(r, u)
    BY <2>2 DEF OffLists, OnList
  <2> QED BY <2>2, <2>3, <2>4 DEF r
<1> QED BY <1>2, <1>3

-----------------------------------------------------------------------------
(* The lists of the waiters, with their order.                             *)

\* rt_schedule does not touch the list of an object.
LEMMA ScheduleWaitLists ==
    ASSUME NEW k \in KernelState, NEW Off, KernelInv(k, Off), NEW l \in WaitList
    PROVE  rt_schedule(k).list[l] = k.list[l]
<1> DEFINE p == HighestReadyPriority(k)
           to == Head(k.list[p])
<1>0. /\ l \in ListHead /\ l \notin Prio /\ k.list[l] \in Seq(Thread)
      /\ DOMAIN k.list = ListHead /\ k.cur \in Thread
      /\ \A t \in Thread : k.prio[t] \in Prio
      /\ \A t \in ToSet(k.list[l]) : k.stat[t] \in {"SUSPEND", "CLOSE"}
      /\ k = [cur |-> k.cur, stat |-> k.stat, yield |-> k.yield, prio |-> k.prio,
              error |-> k.error, timer |-> k.timer, list |-> k.list,
              group |-> k.group, nest |-> k.nest]
  BY KernelAssumption DEF KernelState, ListHead, KernelInv, WaitListsAgree
<1>1. ASSUME NEW t, k.stat[t] \notin {"SUSPEND", "CLOSE"}
      PROVE  Without(k.list[l], t) = k.list[l]
  BY <1>0, <1>1 DEF Without
<1>2. CASE k.nest # 0 \/ k.group = {}
  BY <1>2 DEF rt_schedule
<1>3. CASE k.nest = 0 /\ k.group # {} /\ KeepsRunning(k)
  <2>1. Without(k.list[l], k.cur) = k.list[l]
    BY <1>1, <1>3 DEF KeepsRunning
  <2>2. rt_schedule(k).list = [m \in ListHead |-> Without(k.list[m], k.cur)]
    BY <1>0, <1>3 DEF rt_schedule, rt_schedule_remove_thread, rt_list_remove
  <2> QED BY <1>0, <2>1, <2>2
<1>4. CASE k.nest = 0 /\ k.group # {} /\ ~KeepsRunning(k)
  <2>1. p \in Prio /\ p \in k.group /\ p \in ListHead
    BY <1>4, HighestIsLeast DEF KernelState, ListHead
  <2> HIDE DEF p
  <2>2. k.list[p] \in Seq(Thread) /\ k.list[p] # << >>
    BY <2>1 DEF KernelState, KernelInv, GroupAgrees
  <2>3. k.stat[to] = "READY"
    BY <2>1, <2>2, EmptyList DEF KernelInv, ReadyListsAgree
  <2>4. rt_schedule(k) = SwitchTo(k, to)
    BY <1>4 DEF rt_schedule, p
  <2> HIDE DEF to
  <2> DEFINE switched == [k EXCEPT !.cur = to,
                                   !.yield[k.cur] = IF k.stat[k.cur] = "RUNNING"
                                                    THEN FALSE ELSE @]
             queued == IF k.stat[k.cur] = "RUNNING"
                       THEN rt_schedule_insert_thread(switched, k.cur) ELSE switched
  <2>5. /\ switched.list = k.list /\ switched.prio = k.prio
        /\ DOMAIN switched = DOMAIN k
    BY <1>0
  <2>6. queued.list[l] = k.list[l] /\ "list" \in DOMAIN queued
    <3> HIDE DEF switched
    <3>1. /\ rt_schedule_insert_thread(switched, k.cur).list[l] = k.list[l]
          /\ DOMAIN rt_schedule_insert_thread(switched, k.cur) = DOMAIN k
      BY <1>0, <2>5 DEF rt_schedule_insert_thread, rt_list_insert_before
    <3> QED BY <1>0, <2>5, <3>1
  <2>7. SwitchTo(k, to) = [rt_schedule_remove_thread(queued, to) EXCEPT !.stat[to] = "RUNNING"]
    BY DEF SwitchTo
  <2> HIDE DEF queued
  <2>8. SwitchTo(k, to).list[l] = Without(queued.list[l], to)
    BY <1>0, <2>6, <2>7 DEF rt_schedule_remove_thread, rt_list_remove
  <2> QED BY <1>1, <2>3, <2>4, <2>6, <2>8
<1> QED BY <1>2, <1>3, <1>4

\* rt_thread_resume: a waiter leaves the list it waits on and its timer, and is
\* made ready, or runs on when it had not yet left the processor.
LEMMA ResumePreserves ==
    ASSUME NEW k \in KernelState, NEW Off, KernelInv(k, Off), NEW t \in Thread,
           k.stat[t] = "SUSPEND"
    PROVE  LET r == rt_thread_resume(k, t) IN
           /\ r \in KernelState /\ KernelInv(r, Off)
           /\ r.stat = [k.stat EXCEPT ![t] = IF t = k.cur THEN "RUNNING" ELSE "READY"]
           /\ r.timer = k.timer \ {t}
           /\ \A l \in WaitList : /\ r.list[l] = Without(k.list[l], t)
                                  /\ ToSet(r.list[l]) = ToSet(k.list[l]) \ {t}
           /\ r.cur = k.cur /\ r.yield = k.yield /\ r.prio = k.prio
           /\ r.error = k.error /\ r.nest = k.nest
<1> DEFINE q == rt_list_remove(k, t)
           s == rt_thread_unlink(k, t)
           r == rt_thread_resume(k, t)
<1>0. /\ \A l \in WaitList : l \in ListHead /\ l \notin Prio
      /\ k.prio[t] \in Prio
  BY KernelAssumption DEF ListHead, KernelState
<1>1. /\ q \in KernelState /\ KernelInv(q, Off) /\ OffLists(q, t)
      /\ \A l \in ListHead : ToSet(q.list[l]) = ToSet(k.list[l]) \ {t}
      /\ q.cur = k.cur /\ q.stat = k.stat /\ q.yield = k.yield
      /\ q.prio = k.prio /\ q.error = k.error /\ q.timer = k.timer
      /\ q.group = k.group /\ q.nest = k.nest
  <2>1. k.stat[t] # "READY"  OBVIOUS
  <2> HIDE DEF q
  <2> QED BY <2>1, UnlinkPreserves DEF q
<1>2. \A l \in ListHead : q.list[l] = Without(k.list[l], t)
  BY DEF rt_list_remove, KernelState
<1>3. s = [q EXCEPT !.timer = @ \ {t}]
  BY DEF rt_thread_unlink, rt_timer_stop
<1>4. r = rt_schedule_insert_thread(s, t)
  BY DEF rt_thread_resume
<1> HIDE DEF q, s, r
<1>5. /\ s \in KernelState /\ s.list = q.list /\ s.timer = k.timer \ {t}
      /\ s.group = q.group
      /\ s.cur = k.cur /\ s.stat = k.stat /\ s.yield = k.yield
      /\ s.prio = k.prio /\ s.error = k.error /\ s.nest = k.nest
  BY <1>1, <1>3 DEF KernelState
<1>6. KernelInv(s, Off)
  BY <1>1, <1>5, SameLists
<1>7. OffLists(s, t) /\ t \notin s.timer
  BY <1>1, <1>5 DEF OffLists, OnList
<1>8. /\ r \in KernelState /\ KernelInv(r, Off)
      /\ r.stat = [s.stat EXCEPT ![t] = IF t = s.cur THEN "RUNNING" ELSE "READY"]
      /\ r.cur = s.cur /\ r.yield = s.yield /\ r.prio = s.prio
      /\ r.error = s.error /\ r.timer = s.timer /\ r.nest = s.nest
  BY <1>4, <1>5, <1>6, <1>7, MakeReadyPreserves
<1>9. \A l \in WaitList : r.list[l] = s.list[l]
  BY <1>0, <1>4, <1>5 DEF rt_schedule_insert_thread, rt_list_insert_before, KernelState
<1>10. \A l \in WaitList : r.list[l] = Without(k.list[l], t)
                           /\ ToSet(r.list[l]) = ToSet(k.list[l]) \ {t}
  BY <1>0, <1>1, <1>2, <1>5, <1>9
<1> QED BY <1>5, <1>8, <1>10 DEF r

\* rt_ipc_list_resume_all tells the waiter first.
LEMMA ResumeErrorPreserves ==
    ASSUME NEW k \in KernelState, NEW Off, KernelInv(k, Off), NEW w \in WaitList,
           k.list[w] # << >>, k.stat[Head(k.list[w])] = "SUSPEND"
    PROVE  LET t == Head(k.list[w])
               r == rt_ipc_list_resume_error(k, w)
           IN  /\ t \in Thread /\ t \in ToSet(k.list[w])
               /\ r \in KernelState /\ KernelInv(r, Off)
               /\ r.stat = [k.stat EXCEPT ![t] = IF t = k.cur THEN "RUNNING" ELSE "READY"]
               /\ r.timer = k.timer \ {t}
               /\ \A l \in WaitList : /\ r.list[l] = Without(k.list[l], t)
                                      /\ ToSet(r.list[l]) = ToSet(k.list[l]) \ {t}
               /\ r.cur = k.cur /\ r.yield = k.yield /\ r.prio = k.prio
               /\ r.error = [k.error EXCEPT ![t] = "ERROR"] /\ r.nest = k.nest
<1> DEFINE t == Head(k.list[w])
           E == [k.error EXCEPT ![t] = "ERROR"]
           s == [k EXCEPT !.error = E]
           r == rt_ipc_list_resume_error(k, w)
<1>1. t \in Thread /\ t \in ToSet(k.list[w])
  <2>1. w \in ListHead /\ k.list[w] \in Seq(Thread)
    BY DEF ListHead, KernelState
  <2>2. t \in ToSet(k.list[w])
    BY <2>1, EmptyList
  <2> HIDE DEF t
  <2> QED BY <2>1, <2>2, ListsHoldThreads
<1>2. k.stat[t] = "SUSPEND"
  OBVIOUS
<1>3. r = rt_thread_resume(s, t)
  BY <1>1 DEF rt_ipc_list_resume_error, KernelState
<1> HIDE DEF t, r
<1>4. E \in [Thread -> Error]
  BY <1>1 DEF KernelState, Error
<1> HIDE DEF E
<1>5. /\ s \in KernelState /\ s.cur = k.cur /\ s.stat = k.stat /\ s.yield = k.yield
      /\ s.prio = k.prio /\ s.error = E /\ s.timer = k.timer
      /\ s.list = k.list /\ s.group = k.group /\ s.nest = k.nest
  BY <1>4 DEF KernelState
<1> HIDE DEF s
<1>6. KernelInv(s, Off)
  BY <1>5, SameLists
<1>7. /\ r \in KernelState /\ KernelInv(r, Off)
      /\ r.stat = [s.stat EXCEPT ![t] = IF t = s.cur THEN "RUNNING" ELSE "READY"]
      /\ r.timer = s.timer \ {t}
      /\ \A l \in WaitList : /\ r.list[l] = Without(s.list[l], t)
                             /\ ToSet(r.list[l]) = ToSet(s.list[l]) \ {t}
      /\ r.cur = s.cur /\ r.yield = s.yield /\ r.prio = s.prio
      /\ r.error = s.error /\ r.nest = s.nest
  <2>1. s.stat[t] = "SUSPEND"  BY <1>2, <1>5
  <2> DEFINE z == rt_thread_resume(s, t)
  <2>2. /\ z \in KernelState /\ KernelInv(z, Off)
        /\ z.stat = [s.stat EXCEPT ![t] = IF t = s.cur THEN "RUNNING" ELSE "READY"]
        /\ z.timer = s.timer \ {t}
        /\ \A l \in WaitList : /\ z.list[l] = Without(s.list[l], t)
                               /\ ToSet(z.list[l]) = ToSet(s.list[l]) \ {t}
        /\ z.cur = s.cur /\ z.yield = s.yield /\ z.prio = s.prio
        /\ z.error = s.error /\ z.nest = s.nest
    <3>1. t \in Thread /\ s \in KernelState  BY <1>1, <1>5
    <3> HIDE DEF z
    <3> QED BY <3>1, <1>6, <2>1, ResumePreserves DEF z
  <2> HIDE DEF z
  <2>3. r = z  BY <1>3 DEF z
  <2> QED BY <2>2, <2>3
<1> QED BY <1>1, <1>5, <1>7 DEF t, r, E

\* what rt_ipc_list_suspend makes of k for the thread t and the list w
AsleepOn(r, k, t, w, flag) ==
    /\ \A l \in WaitList : l # w => r.list[l] = k.list[l]
    /\ ToSet(r.list[w]) = ToSet(k.list[w]) \cup {t}
    /\ flag = "FIFO" => r.list[w] = Append(k.list[w], t)
    /\ flag = "PRIO" /\ SortedBy(k.list[w], k.prio) => SortedBy(r.list[w], k.prio)
    /\ r.stat = [k.stat EXCEPT ![t] = "SUSPEND"]
    /\ r.timer = k.timer \ {t}
    /\ r.cur = k.cur /\ r.yield = k.yield
    /\ r.prio = k.prio /\ r.error = k.error /\ r.nest = k.nest

\* rt_ipc_list_suspend: the thread that makes the call sleeps in the list.
LEMMA IpcSuspendPreserves ==
    ASSUME NEW k \in KernelState, NEW Off, KernelInv(k, Off), NEW t \in Thread,
           k.stat[t] \in {"READY", "RUNNING"}, NEW w \in WaitList, NEW flag \in IPCFlag
    PROVE  LET r == rt_ipc_list_suspend(k, w, t, flag) IN
           r \in KernelState /\ KernelInv(r, Off) /\ AsleepOn(r, k, t, w, flag)
<1> DEFINE s == rt_thread_suspend_section(k, t)
           L == IF flag = "FIFO" THEN Append(s.list[w], t)
                ELSE InsertAt(s.list[w], PrioPosition(s, s.list[w], t), t)
           r == rt_ipc_list_suspend(k, w, t, flag)
<1>1. /\ s \in KernelState /\ KernelInv(s, Off) /\ OffLists(s, t)
      /\ s.stat = [k.stat EXCEPT ![t] = "SUSPEND"]
      /\ s.timer = k.timer \ {t}
      /\ s.cur = k.cur /\ s.yield = k.yield
      /\ s.prio = k.prio /\ s.error = k.error /\ s.nest = k.nest
  <2> HIDE DEF s
  <2> QED BY SuspendPreserves DEF s
<1>2. \A l \in WaitList : l \in ListHead /\ s.list[l] = k.list[l]
  <2>1. \A l \in WaitList : l \in ListHead /\ t \notin ToSet(k.list[l])
    BY DEF ListHead, KernelInv, WaitListsAgree
  <2>2. \A l \in ListHead : s.list[l] = Without(k.list[l], t)
    BY DEF rt_thread_suspend_section, rt_schedule_remove_thread, rt_list_remove,
           rt_timer_stop, KernelState
  <2> HIDE DEF s
  <2> QED BY <2>1, <2>2 DEF Without
<1>3. r = [s EXCEPT !.list[w] = L]
  <2>1. rt_thread_suspend(k, t) = s
    BY DEF rt_thread_suspend
  <2> HIDE DEF s
  <2> QED BY <1>1, <1>2, <2>1 DEF rt_ipc_list_suspend, rt_list_insert_before, KernelState
<1> HIDE DEF s, r
<1>4. /\ s.list[w] \in Seq(Thread) /\ IsInjective(s.list[w]) /\ t \notin ToSet(s.list[w])
  BY <1>1, <1>2 DEF KernelState, KernelInv, LinkedOnce, OffLists, OnList
<1>5. PrioPosition(s, s.list[w], t) \in 1 .. Len(s.list[w]) + 1
  BY <1>1, <1>4, PrioPositionIsPlace
<1>6. L \in Seq(Thread) /\ IsInjective(L) /\ ToSet(L) = ToSet(s.list[w]) \cup {t}
  BY <1>4, <1>5, AppendElements, InsertAtHolds
<1>7. /\ flag = "FIFO" => L = Append(k.list[w], t)
      /\ flag = "PRIO" /\ SortedBy(k.list[w], k.prio) => SortedBy(L, k.prio)
  BY <1>1, <1>2, <1>4, InsertOrder
<1> HIDE DEF L
<1> DEFINE z == [s EXCEPT !.list[w] = L]
<1>8. /\ z \in KernelState /\ KernelInv(z, Off)
      /\ \A l \in ListHead : z.list[l] = IF l = w THEN L ELSE s.list[l]
      /\ z.cur = s.cur /\ z.stat = s.stat /\ z.yield = s.yield
      /\ z.prio = s.prio /\ z.error = s.error /\ z.timer = s.timer
      /\ z.nest = s.nest
  <2>1. s.stat[t] = "SUSPEND"  BY <1>1 DEF KernelState
  <2>2. s.stat[t] \in {"SUSPEND", "CLOSE"}  BY <2>1
  <2> HIDE DEF z
  <2> QED BY <1>1, <1>6, <2>2, LinkAnywhere DEF z
<1> HIDE DEF z
<1>9. r = z  BY <1>3 DEF z
<1>10. AsleepOn(r, k, t, w, flag)
  BY <1>1, <1>2, <1>6, <1>7, <1>8, <1>9 DEF AsleepOn
<1> QED BY <1>8, <1>9, <1>10 DEF r

\* rt_thread_timeout, up to the rt_schedule it ends with.
TimedOut(k, t) ==
    LET expired == [rt_timer_stop(k, t) EXCEPT !.error[t] = "ETIMEOUT"]
    IN  rt_schedule_insert_thread(rt_list_remove(expired, t), t)

\* A waiter whose time is over leaves the list it waits on.
LEMMA TimeoutPreserves ==
    ASSUME NEW k \in KernelState, NEW Off, KernelInv(k, Off), NEW t \in Thread,
           k.stat[t] = "SUSPEND"
    PROVE  LET r == TimedOut(k, t) IN
           /\ rt_thread_timeout(k, t) = rt_schedule(r)
           /\ r \in KernelState /\ KernelInv(r, Off)
           /\ r.stat = [k.stat EXCEPT ![t] = IF t = k.cur THEN "RUNNING" ELSE "READY"]
           /\ r.timer = k.timer \ {t}
           /\ \A l \in WaitList : /\ r.list[l] = Without(k.list[l], t)
                                  /\ ToSet(r.list[l]) = ToSet(k.list[l]) \ {t}
           /\ r.cur = k.cur /\ r.yield = k.yield /\ r.prio = k.prio
           /\ r.error = [k.error EXCEPT ![t] = "ETIMEOUT"] /\ r.nest = k.nest
<1> DEFINE E == [k.error EXCEPT ![t] = "ETIMEOUT"]
           s == [k EXCEPT !.timer = k.timer \ {t}, !.error = E]
           q == rt_list_remove(s, t)
           r == rt_schedule_insert_thread(q, t)
<1>0. /\ \A l \in WaitList : l \in ListHead /\ l \notin Prio
      /\ k.prio[t] \in Prio
  BY KernelAssumption DEF ListHead, KernelState
<1>1. s = [rt_timer_stop(k, t) EXCEPT !.error[t] = "ETIMEOUT"]
  BY DEF rt_timer_stop, KernelState
<1>2. r = TimedOut(k, t) /\ rt_thread_timeout(k, t) = rt_schedule(r)
  <2> HIDE DEF s
  <2> QED BY <1>1 DEF TimedOut, rt_thread_timeout
<1>3. E \in [Thread -> Error]
  BY DEF KernelState, Error
<1> HIDE DEF E
<1>4. /\ s \in KernelState /\ s.cur = k.cur /\ s.stat = k.stat /\ s.yield = k.yield
      /\ s.prio = k.prio /\ s.error = E /\ s.timer = k.timer \ {t}
      /\ s.list = k.list /\ s.group = k.group /\ s.nest = k.nest
  BY <1>3 DEF KernelState
<1> HIDE DEF s
<1>5. KernelInv(s, Off)
  BY <1>4, SameLists
<1>6. /\ q \in KernelState /\ KernelInv(q, Off) /\ OffLists(q, t)
      /\ \A l \in ListHead : ToSet(q.list[l]) = ToSet(s.list[l]) \ {t}
      /\ q.cur = s.cur /\ q.stat = s.stat /\ q.yield = s.yield
      /\ q.prio = s.prio /\ q.error = s.error /\ q.timer = s.timer
      /\ q.nest = s.nest
  <2>1. s.stat[t] # "READY"  BY <1>4
  <2> HIDE DEF q
  <2> QED BY SMTT(30), <1>4, <1>5, <2>1, UnlinkPreserves DEF q
<1>7. \A l \in ListHead : q.list[l] = Without(k.list[l], t)
  BY <1>4 DEF rt_list_remove, KernelState
<1> HIDE DEF q
<1>8. /\ r \in KernelState /\ KernelInv(r, Off)
      /\ r.stat = [q.stat EXCEPT ![t] = IF t = q.cur THEN "RUNNING" ELSE "READY"]
      /\ r.cur = q.cur /\ r.yield = q.yield /\ r.prio = q.prio
      /\ r.error = q.error /\ r.timer = q.timer /\ r.nest = q.nest
  <2>1. t \notin q.timer  BY <1>4, <1>6
  <2> HIDE DEF r
  <2> QED BY <1>6, <2>1, MakeReadyPreserves DEF r
<1>9. \A l \in WaitList : r.list[l] = q.list[l]
  BY <1>0, <1>4, <1>6 DEF rt_schedule_insert_thread, rt_list_insert_before, KernelState
<1>10. \A l \in WaitList : r.list[l] = Without(k.list[l], t)
                           /\ ToSet(r.list[l]) = ToSet(k.list[l]) \ {t}
  BY <1>0, <1>4, <1>6, <1>7, <1>9
<1> HIDE DEF r
<1> QED BY <1>2, <1>4, <1>6, <1>8, <1>10 DEF E

\* The timer of a thread that sleeps is started.
LEMMA TimerStartPreserves ==
    ASSUME NEW k \in KernelState, NEW Off, KernelInv(k, Off), NEW t \in Thread,
           k.stat[t] = "SUSPEND"
    PROVE  LET r == rt_timer_start(k, t) IN
           /\ r \in KernelState /\ KernelInv(r, Off)
           /\ r.timer = k.timer \cup {t} /\ r.list = k.list
           /\ r.cur = k.cur /\ r.stat = k.stat /\ r.yield = k.yield
           /\ r.prio = k.prio /\ r.error = k.error /\ r.nest = k.nest
<1> DEFINE r == rt_timer_start(k, t)
<1>1. /\ r \in KernelState /\ r.timer = k.timer \cup {t} /\ r.list = k.list
      /\ r.cur = k.cur /\ r.stat = k.stat /\ r.yield = k.yield /\ r.group = k.group
      /\ r.prio = k.prio /\ r.error = k.error /\ r.nest = k.nest
  BY DEF rt_timer_start, KernelState
<1> HIDE DEF r
<1>2. LinkedOnce(r) /\ GroupAgrees(r) /\ WaitListsAgree(r)
  BY <1>1 DEF KernelInv, LinkedOnce, GroupAgrees, WaitListsAgree
<1>3. ReadyListsAgree(r, Off)
  BY <1>1 DEF KernelInv, ReadyListsAgree, OnList
<1>4. OneRunning(r) /\ TimersAgree(r)
  BY <1>1 DEF KernelInv, OneRunning, TimersAgree
<1> QED BY <1>1, <1>2, <1>3, <1>4 DEF KernelInv, r

-----------------------------------------------------------------------------
(* The threads have been started, and rt_schedule has picked the best.     *)

\* the state that Callers starts in, of threads of the priorities prio
Launched(best, prio) ==
    [cur   |-> best,
     stat  |-> [t \in Thread |-> IF t = best THEN "RUNNING" ELSE "READY"],
     yield |-> [t \in Thread |-> FALSE],
     prio  |-> prio,
     error |-> [t \in Thread |-> "EOK"],
     timer |-> {},
     list  |-> [l \in ListHead |->
                   IF l \in Prio THEN SetToSeq({t \in Thread \ {best} : prio[t] = l})
                   ELSE << >>],
     group |-> {prio[t] : t \in Thread \ {best}},
     nest  |-> 0]

\* There is a best thread.
LEMMA BestExists ==
    ASSUME NEW prio \in [Thread -> Prio], Thread # {}
    PROVE  \E t \in Thread : \A u \in Thread : prio[t] <= prio[u]
<1> DEFINE B == {prio[t] : t \in Thread}
<1>1. PICK m \in B : \A q \in B : m <= q
  <2>1. B \in SUBSET Nat /\ B # {}
    BY KernelAssumption DEF Prio
  <2> HIDE DEF B
  <2> QED BY <2>1, LeastElement
<1>2. PICK t \in Thread : m = prio[t]
  OBVIOUS
<1>3. \A u \in Thread : prio[t] <= prio[u]
  BY <1>1, <1>2
<1> QED BY <1>3

\* All threads but the one that runs are ready.
LEMMA LaunchedSound ==
    ASSUME NEW prio \in [Thread -> Prio], NEW best \in Thread, IsFiniteSet(Thread),
           \A u \in Thread : prio[best] <= prio[u]
    PROVE  LET j == Launched(best, prio) IN
           /\ j \in KernelState /\ KernelInv(j, {})
           /\ \A t \in Thread : j.stat[t] \in {"READY", "RUNNING"}
           /\ \A t \in Thread : j.prio[j.cur] <= j.prio[t]
<1> DEFINE j == Launched(best, prio)
           ReadyAt(p) == SetToSeq({t \in Thread \ {best} : prio[t] = p})
<1>2. ASSUME NEW p \in Prio
      PROVE  /\ ReadyAt(p) \in Seq(Thread) /\ IsInjective(ReadyAt(p))
             /\ ToSet(ReadyAt(p)) = {t \in Thread \ {best} : prio[t] = p}
  <2> DEFINE S == {t \in Thread \ {best} : prio[t] = p}
  <2>1. IsFiniteSet(S)
    <3>1. S \in SUBSET Thread  OBVIOUS
    <3> HIDE DEF S
    <3> QED BY <3>1, FS_Subset
  <2>2. SetToSeq(S) \in Seq(S) /\ IsInjective(SetToSeq(S)) /\ ToSet(SetToSeq(S)) = S
    <3> HIDE DEF S
    <3> QED BY <2>1, SetToSeqElements
  <2>3. SetToSeq(S) \in Seq(Thread)
    <3>1. S \subseteq Thread  OBVIOUS
    <3> HIDE DEF S
    <3> QED BY <2>2, <3>1
  <2>4. ReadyAt(p) = SetToSeq(S)
    OBVIOUS
  <2> HIDE DEF S
  <2>5. S = {t \in Thread \ {best} : prio[t] = p}  BY DEF S
  <2> QED BY <2>2, <2>3, <2>4, <2>5
<1>3. << >> \in Seq(Thread) /\ IsInjective(<< >>) /\ ToSet(<< >>) = {}
  <2>1. << >> \in Seq(Thread)  OBVIOUS
  <2>2. ToSet(<< >>) = {}  BY <2>1, EmptyList
  <2>3. DOMAIN << >> = {}  BY EmptySeq, LenProperties
  <2> QED BY <2>1, <2>2, <2>3 DEF IsInjective
<1>4. j.cur = best /\ j.prio = prio /\ j.timer = {}
      /\ j.group = {prio[t] : t \in Thread \ {best}}
      /\ j.stat = [t \in Thread |-> IF t = best THEN "RUNNING" ELSE "READY"]
      /\ j.list = [l \in ListHead |-> IF l \in Prio THEN ReadyAt(l) ELSE << >>]
  BY DEF Launched
<1>5. j \in KernelState
  <2>1. j.list \in [ListHead -> Seq(Thread)]
    BY <1>2, <1>3, <1>4
  <2>2. j.stat \in [Thread -> Stat] /\ j.group \subseteq Prio /\ prio \in [Thread -> Prio]
    BY <1>4 DEF Stat
  <2>3. [t \in Thread |-> "EOK"] \in [Thread -> Error]
    BY DEF Error
  <2> QED BY <1>4, <2>1, <2>2, <2>3 DEF Launched, KernelState
<1> HIDE DEF j, ReadyAt
<1>6. ASSUME NEW p \in Prio
      PROVE  /\ p \in ListHead /\ j.list[p] = ReadyAt(p)
             /\ \A t : t \in ToSet(j.list[p]) <=>
                        t \in Thread /\ t # best /\ prio[t] = p
  <2>1. p \in ListHead /\ j.list[p] = ReadyAt(p)
    BY <1>4 DEF ListHead
  <2>2. ToSet(ReadyAt(p)) = {t \in Thread \ {best} : prio[t] = p}
    BY <1>2
  <2> QED BY <2>1, <2>2
<1>7. \A l \in ListHead \ Prio : j.list[l] = << >> /\ \A t : t \notin ToSet(j.list[l])
  BY <1>3, <1>4
<1>8. LinkedOnce(j)
  <2>1. \A l \in ListHead : IsInjective(j.list[l])
    BY <1>2, <1>3, <1>6, <1>7
  <2>2. ASSUME NEW l \in ListHead, NEW m \in ListHead, l # m
        PROVE  ToSet(j.list[l]) \cap ToSet(j.list[m]) = {}
    <3>1. CASE l \in Prio /\ m \in Prio
      <4>1. \A t : t \in ToSet(j.list[l]) => prio[t] = l
        BY <1>6, <3>1
      <4>2. \A t : t \in ToSet(j.list[m]) => prio[t] = m
        BY <1>6, <3>1
      <4> QED BY <2>2, <4>1, <4>2
    <3>2. CASE ~(l \in Prio /\ m \in Prio)
      BY <1>7, <3>2
    <3> QED BY <3>1, <3>2
  <2> QED BY <2>1, <2>2 DEF LinkedOnce
<1>9. ReadyListsAgree(j, {})
  <2>1. \A t \in Thread : prio[t] \in Prio /\ j.prio[t] = prio[t]
                        /\ j.stat[t] = IF t = best THEN "RUNNING" ELSE "READY"
    BY <1>4
  <2>2. ASSUME NEW p \in Prio, NEW t \in ToSet(j.list[p])
        PROVE  j.stat[t] = "READY" /\ j.prio[t] = p
    <3>1. t \in Thread /\ t # best /\ prio[t] = p  BY <1>6
    <3> QED BY <2>1, <3>1
  <2>3. ASSUME NEW t \in Thread \ {}, j.stat[t] = "READY"
        PROVE  OnList(j, t, j.prio[t])
    <3>1. t # best /\ j.prio[t] = prio[t] /\ prio[t] \in Prio  BY <2>1, <2>3
    <3> QED BY <1>6, <3>1 DEF OnList
  <2> QED BY <2>2, <2>3 DEF ReadyListsAgree
<1>10. WaitListsAgree(j)
  <2>1. \A l \in WaitList : l \in ListHead \ Prio
    BY KernelAssumption DEF ListHead
  <2> QED BY <1>7, <2>1 DEF WaitListsAgree
<1>11. GroupAgrees(j)
  <2> SUFFICES ASSUME NEW p \in Prio PROVE p \in j.group <=> j.list[p] # << >>
    BY DEF GroupAgrees
  <2>1. j.list[p] \in Seq(Thread)
    BY <1>2, <1>6
  <2>2. j.list[p] = << >> <=> ToSet(j.list[p]) = {}
    BY <2>1, EmptyList
  <2>3. \A t : t \in ToSet(j.list[p]) <=> t \in Thread /\ t # best /\ prio[t] = p
    BY <1>6
  <2>4. p \in j.group <=> \E t \in Thread : t # best /\ prio[t] = p
    BY <1>4
  <2> QED BY <2>2, <2>3, <2>4
<1>12. OneRunning(j) /\ TimersAgree(j)
  BY <1>4 DEF OneRunning, TimersAgree
<1>13. \A t \in Thread : j.stat[t] \in {"READY", "RUNNING"}
  BY <1>4
<1>14. \A t \in Thread : j.prio[j.cur] <= j.prio[t]
  BY <1>4
<1> QED BY <1>5, <1>8, <1>9, <1>10, <1>11, <1>12, <1>13, <1>14 DEF KernelInv, j

-----------------------------------------------------------------------------
(* The scheduler, when the idle thread is always there to be picked.       *)

\* the running thread is the best of those that could run
BestRuns(j) ==
    /\ j.stat[j.cur] = "RUNNING"
    /\ \A t \in Thread : j.stat[t] = "READY" => j.prio[j.cur] <= j.prio[t]

\* rt_schedule exchanges READY and RUNNING, leaves the waiters alone, and picks
\* the best thread when the scheduler is not locked.
LEMMA SchedulePicks ==
    ASSUME NEW j \in KernelState, KernelInv(j, {}), NEW idle \in Thread,
           j.stat[idle] \in {"READY", "RUNNING"}
    PROVE  LET r == rt_schedule(j) IN
           /\ r \in KernelState /\ KernelInv(r, {})
           /\ r.prio = j.prio /\ r.error = j.error /\ r.timer = j.timer /\ r.nest = j.nest
           /\ \A t \in Thread :
                  \/ r.stat[t] = j.stat[t]
                  \/ {r.stat[t], j.stat[t]} \subseteq {"READY", "RUNNING"}
           /\ \A l \in WaitList : r.list[l] = j.list[l]
           /\ j.nest = 0 => BestRuns(r)
           /\ j.nest # 0 => r = j
<1> DEFINE r == rt_schedule(j)
<1>1. /\ r \in KernelState /\ KernelInv(r, {})
      /\ r.prio = j.prio /\ r.error = j.error /\ r.timer = j.timer /\ r.nest = j.nest
      /\ \A t \in Thread :
             \/ r.stat[t] = j.stat[t]
             \/ {r.stat[t], j.stat[t]} \subseteq {"READY", "RUNNING"}
      /\ j.nest # 0 \/ j.group = {} => r = j
      /\ j.nest = 0 /\ j.group # {} =>
             /\ r.stat[r.cur] = "RUNNING"
             /\ \A t \in Thread : r.stat[t] = "READY" /\ OnList(r, t, r.prio[t]) =>
                    r.prio[r.cur] <= r.prio[t]
  <2> HIDE DEF r
  <2> QED BY SchedulePreserves DEF r
<1>2. \A l \in WaitList : r.list[l] = j.list[l]
  <2> HIDE DEF r
  <2> QED BY ScheduleWaitLists DEF r
<1> HIDE DEF r
<1>3. CASE j.nest = 0 /\ j.group # {}
  <2>1. \A t \in Thread : r.stat[t] = "READY" => OnList(r, t, r.prio[t])
    BY <1>1 DEF KernelInv, ReadyListsAgree
  <2>2. BestRuns(r)
    BY <1>1, <1>3, <2>1 DEF BestRuns
  <2> QED BY <1>1, <1>2, <1>3, <2>2 DEF r
<1>4. CASE j.nest = 0 /\ j.group = {}
  <2>1. \A t \in Thread : j.stat[t] # "READY"
    <3> SUFFICES ASSUME NEW t \in Thread, j.stat[t] = "READY" PROVE FALSE
      OBVIOUS
    <3>1. j.prio[t] \in Prio /\ OnList(j, t, j.prio[t])
      BY DEF KernelInv, ReadyListsAgree, KernelState
    <3>2. j.list[j.prio[t]] \in Seq(Thread)
      BY <3>1 DEF KernelState, ListHead
    <3>3. j.list[j.prio[t]] # << >>
      BY <3>1, <3>2, EmptyList DEF OnList
    <3> QED BY <1>4, <3>1, <3>3 DEF KernelInv, GroupAgrees
  <2>2. j.stat[idle] = "RUNNING" /\ idle = j.cur
    BY <2>1 DEF KernelInv, OneRunning
  <2>3. BestRuns(r)
    BY <1>1, <1>4, <2>1, <2>2 DEF BestRuns
  <2> QED BY <1>1, <1>2, <1>4, <2>3 DEF r
<1>5. CASE j.nest # 0
  BY <1>1, <1>2, <1>5 DEF r
<1> QED BY <1>3, <1>4, <1>5
=============================================================================
